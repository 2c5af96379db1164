------------------------------- MODULE TtyServer -------------------------------
(***************************************************************************)
(* chap4-pattern/server.cxx: clients send requests to the one thread that  *)
(* owns the terminal.  A read request is synchronous: the client waits for *)
(* the reply and frees the request.  A write request is asynchronous: the  *)
(* server frees it.                                                        *)
(*                                                                         *)
(* A request is an address that malloc may hand out again after free.  A   *)
(* line of input is its number, and 0 is an empty line or end of file,     *)
(* which makes a client stop; a prompt is the client it names.  The server *)
(* mutex is never held across a step.  client_mutex has an owner, because  *)
(* main keeps it.                                                          *)
(*                                                                         *)
(* A definition D_Variant stands before D and is D with a plausible slip:  *)
(* nothing uses it, and the properties must fail if it replaces D.         *)
(***************************************************************************)
EXTENDS Naturals, FiniteSets, Pthreads

CONSTANTS
    Clients,
    Servers,            \* the threads pthread_create can give a server
    Addresses,          \* the memory for requests
    NULL,
    Loops,              \* writes for each line read (4 in the code)
    MaxLines            \* bound on the lines of input that are not empty

ASSUME TtyServerAssumption ==
    /\ NULL \notin Clients \cup Addresses
    /\ IsFiniteSet(Clients) /\ Clients # {}
    /\ IsFiniteSet(Addresses)
    /\ Loops \in Nat \ {0}
    /\ MaxLines \in Nat

Main == "main"

VARIABLES
    alloc,          \* the addresses in use
    req,            \* the request at each address
    first,          \* the fields of tty_server
    last,
    running,
    wakeServer,     \* the threads asleep on tty_server.request
    spc,            \* where each server thread is
    current,        \* its local variable `request'
    lines,          \* lines of input consumed
    cpc,            \* where each client is
    mine,           \* the request a client waits for
    string,         \* the client's buffer, filled by a read
    loop,           \* its local variable `loops'
    client_threads,
    client_mutex,   \* its owner
    clients_done,   \* the threads asleep on clients_done
    mpc,            \* where main is
    counter,        \* main's local variable `count'
    unprinted,      \* history: the client's writes that are not printed yet
    answer          \* history: the line the server last read for a client

serverVars == <<spc, current, lines>>
queueVars == <<alloc, req, first, last, running>>
clientVars == <<cpc, mine, string, loop>>
mainVars == <<client_threads, client_mutex, clients_done, mpc, counter>>
history == <<unprinted, answer>>
vars == <<serverVars, queueVars, wakeServer, clientVars, mainVars, history>>

Request ==
    [next : Addresses \cup {NULL}, operation : {"read", "write"}, done : BOOLEAN,
     prompt : Clients, text : 0 .. MaxLines, cv : SUBSET Clients]

TypeOK ==
    /\ alloc \in SUBSET Addresses
    /\ req \in [Addresses -> Request \cup {NULL}]
    /\ first \in Addresses \cup {NULL}
    /\ last \in Addresses \cup {NULL}
    /\ running \in BOOLEAN
    /\ wakeServer \in SUBSET Servers
    /\ spc \in [Servers -> {"off", "top", "wait", "operate", "finish"}]
    /\ current \in [Servers -> Addresses \cup {NULL}]
    /\ lines \in 0 .. MaxLines
    /\ cpc \in [Clients -> {"off", "read", "wait", "write", "leave", "exited"}]
    /\ mine \in [Clients -> Addresses \cup {NULL}]
    /\ string \in [Clients -> 0 .. MaxLines]
    /\ loop \in [Clients -> 0 .. Loops]
    /\ client_threads \in 0 .. Cardinality(Clients)
    /\ client_mutex \in {Main, NULL}
    /\ clients_done \in SUBSET {Main}
    /\ mpc \in {"create", "lock", "wait", "unlock", "blocked"}
    /\ counter \in 0 .. Cardinality(Clients)
    /\ unprinted \in [Clients -> 0 .. Loops]
    /\ answer \in [Clients -> 0 .. MaxLines]

Init ==
    /\ alloc = {}
    /\ req = [a \in Addresses |-> NULL]
    /\ first = NULL /\ last = NULL
    /\ running = FALSE
    /\ wakeServer = {}
    /\ spc = [s \in Servers |-> "off"]
    /\ current = [s \in Servers |-> NULL]
    /\ lines = 0
    /\ cpc = [c \in Clients |-> "off"]
    /\ mine = [c \in Clients |-> NULL]
    /\ string = [c \in Clients |-> 0]
    /\ loop = [c \in Clients |-> 0]
    /\ client_threads = Cardinality(Clients)
    /\ client_mutex = NULL
    /\ clients_done = {}
    /\ mpc = "create"
    /\ counter = 0
    /\ unprinted = [c \in Clients |-> 0]
    /\ answer = [c \in Clients |-> 0]

-------------------------------------------------------------------------------
(* tty_server_request: the first request starts the server.                *)
StartServer ==
    IF ~running
      THEN /\ running' = TRUE
           /\ \E s \in Servers : spc[s] = "off" /\ spc' = [spc EXCEPT ![s] = "top"]
      ELSE UNCHANGED <<running, spc>>

\* The request at address a is linked after the last one.
Link_AtHead(a, r) ==
    /\ req' = [req EXCEPT ![a] = [r EXCEPT !.next = first]]
    /\ first' = a
    /\ last' = IF first = NULL THEN a ELSE last
Link(a, r) ==
    IF first = NULL
      THEN /\ req' = [req EXCEPT ![a] = r]
           /\ first' = a
           /\ last' = a
      ELSE /\ req' = [req EXCEPT ![a] = r, ![last].next = a]
           /\ first' = first
           /\ last' = a

SignalServer == wakeServer' \in CondSignal(wakeServer)

Send(a, r) ==
    /\ StartServer
    /\ a \notin alloc
    /\ alloc' = alloc \cup {a}
    /\ Link(a, r)
    /\ SignalServer

Free(a) ==
    /\ alloc' = alloc \ {a}
    /\ req' = [req EXCEPT ![a] = NULL]

\* A synchronous read: the client goes to sleep on the request's own variable.
SendRead(c, a) ==
    /\ cpc[c] = "read"
    /\ Send(a, [next |-> NULL, operation |-> "read", done |-> FALSE, prompt |-> c,
                text |-> 0, cv |-> CondWait({}, c)])
    /\ mine' = [mine EXCEPT ![c] = a]
    /\ cpc' = [cpc EXCEPT ![c] = "wait"]
    /\ UNCHANGED <<current, lines, string, loop, mainVars, history>>

ReplyReady(c) == req[mine[c]].done

\* The client was woken; it sleeps again until the request is done.
WaitReply(c) ==
    /\ cpc[c] = "wait"
    /\ c \notin req[mine[c]].cv
    /\ ~ReplyReady(c)
    /\ req' = [req EXCEPT ![mine[c]].cv = CondWait(@, c)]
    /\ UNCHANGED <<serverVars, alloc, first, last, running, wakeServer, clientVars,
                   mainVars, history>>

\* An empty reply empties the buffer.
CopyReply_KeepsOld(c, text) == IF text # 0 THEN text ELSE string[c]
CopyReply(c, text) == text

\* The reply is copied, and the request freed by the client.
GetReply(c) ==
    /\ cpc[c] = "wait"
    /\ c \notin req[mine[c]].cv
    /\ ReplyReady(c)
    /\ string' = [string EXCEPT ![c] = CopyReply(c, req[mine[c]].text)]
    /\ Free(mine[c])
    /\ mine' = [mine EXCEPT ![c] = NULL]
    /\ loop' = [loop EXCEPT ![c] = 0]
    /\ cpc' = [cpc EXCEPT ![c] = IF string'[c] = 0 THEN "leave" ELSE "write"]
    /\ UNCHANGED <<serverVars, first, last, running, wakeServer, mainVars, history>>

LastLoop(n) == n = Loops

\* An asynchronous write of the line just read.
SendWrite(c, a) ==
    /\ cpc[c] = "write"
    /\ Send(a, [next |-> NULL, operation |-> "write", done |-> FALSE, prompt |-> c,
                text |-> string[c], cv |-> {}])
    /\ loop' = [loop EXCEPT ![c] = @ + 1]
    /\ cpc' = [cpc EXCEPT ![c] = IF LastLoop(loop'[c]) THEN "read" ELSE "write"]
    /\ unprinted' = [unprinted EXCEPT ![c] = @ + 1]
    /\ UNCHANGED <<current, lines, mine, string, mainVars, answer>>

(* client_routine, after its loop: the last client wakes main. *)
Leave(c) ==
    /\ cpc[c] = "leave"
    /\ client_mutex = NULL
    /\ client_threads' = client_threads - 1
    /\ clients_done' \in IF client_threads' = 0 THEN CondSignal(clients_done)
                                                ELSE {clients_done}
    /\ cpc' = [cpc EXCEPT ![c] = "exited"]
    /\ UNCHANGED <<serverVars, queueVars, wakeServer, mine, string, loop, client_mutex,
                   mpc, counter, history>>

-------------------------------------------------------------------------------
(* tty_server_routine *)
ServerHasLock(s) == spc[s] = "top" \/ (spc[s] = "wait" /\ s \notin wakeServer)

ServerSleeps(s) ==
    /\ ServerHasLock(s)
    /\ first = NULL
    /\ wakeServer' = CondWait(wakeServer, s)
    /\ spc' = [spc EXCEPT ![s] = "wait"]
    /\ UNCHANGED <<queueVars, current, lines, clientVars, mainVars, history>>

PopRequest(s) ==
    /\ ServerHasLock(s)
    /\ first # NULL
    /\ current' = [current EXCEPT ![s] = first]
    /\ first' = req[first].next
    /\ last' = IF first' = NULL THEN NULL ELSE last
    /\ spc' = [spc EXCEPT ![s] = "operate"]
    /\ UNCHANGED <<alloc, req, running, wakeServer, lines, clientVars, mainVars, history>>

\* The terminal is used without the mutex: a line is read, which may be empty
\* and is empty at the end of the input, or the text is printed.
Operate(s) ==
    LET r == req[current[s]] IN
    /\ spc[s] = "operate"
    /\ \/ /\ r.operation = "read"
          /\ \/ /\ lines < MaxLines
                /\ lines' = lines + 1
                /\ req' = [req EXCEPT ![current[s]].text = lines + 1]
                /\ answer' = [answer EXCEPT ![r.prompt] = lines + 1]
             \/ /\ req' = [req EXCEPT ![current[s]].text = 0]
                /\ answer' = [answer EXCEPT ![r.prompt] = 0]
                /\ UNCHANGED lines
          /\ UNCHANGED unprinted
       \/ /\ r.operation = "write"
          /\ unprinted' = [unprinted EXCEPT ![r.prompt] = @ - 1]
          /\ UNCHANGED <<req, lines, answer>>
    /\ spc' = [spc EXCEPT ![s] = "finish"]
    /\ UNCHANGED <<alloc, first, last, running, wakeServer, current, clientVars, mainVars>>

\* A synchronous request is marked done and its client woken; any other is
\* freed.  Read requests are the synchronous ones.
Synchronous_Never(r) == FALSE
Synchronous(r) == r.operation = "read"

MarkDone_NoSignal(a) == req' = [req EXCEPT ![a].done = TRUE]
MarkDone(a) ==
    \E woken \in CondSignal(req[a].cv) :
        req' = [req EXCEPT ![a].done = TRUE, ![a].cv = woken]

FinishRequest(s) ==
    /\ spc[s] = "finish"
    /\ IF Synchronous(req[current[s]])
         THEN MarkDone(current[s]) /\ UNCHANGED alloc
         ELSE Free(current[s])
    /\ current' = [current EXCEPT ![s] = NULL]
    /\ spc' = [spc EXCEPT ![s] = "top"]
    /\ UNCHANGED <<first, last, running, wakeServer, lines, clientVars, mainVars, history>>

-------------------------------------------------------------------------------
(* main: client_threads is read without the mutex in the creation loop. *)
CreateClient ==
    /\ mpc = "create"
    /\ IF counter < client_threads
         THEN /\ \E c \in Clients : cpc[c] = "off" /\ cpc' = [cpc EXCEPT ![c] = "read"]
              /\ counter' = counter + 1
              /\ UNCHANGED mpc
         ELSE mpc' = "lock" /\ UNCHANGED <<cpc, counter>>
    /\ UNCHANGED <<serverVars, queueVars, wakeServer, mine, string, loop, client_threads,
                   client_mutex, clients_done, history>>

MainWaits ==
    /\ mpc = "lock" \/ (mpc = "wait" /\ Main \notin clients_done)
    /\ client_mutex = NULL
    /\ IF client_threads > 0
         THEN /\ clients_done' = CondWait(clients_done, Main)
              /\ mpc' = "wait"
              /\ UNCHANGED client_mutex
         ELSE /\ client_mutex' = Main
              /\ mpc' = "unlock"
              /\ UNCHANGED clients_done
    /\ UNCHANGED <<serverVars, queueVars, wakeServer, clientVars, client_threads, counter,
                   history>>

\* The comment says unlock, the call is pthread_mutex_lock: main waits for the
\* mutex it owns, and never gets to the request that would stop the server.
MainLocksAgain ==
    /\ mpc = "unlock"
    /\ client_mutex = Main
    /\ mpc' = "blocked"
    /\ UNCHANGED <<serverVars, queueVars, wakeServer, clientVars, client_threads,
                   client_mutex, clients_done, counter, history>>

SpuriousWakeup ==
    /\ \/ /\ \E s \in wakeServer : wakeServer' = CondLeave(wakeServer, s)
          /\ UNCHANGED <<req, clients_done>>
       \/ /\ \E a \in alloc : \E c \in req[a].cv :
                req' = [req EXCEPT ![a].cv = CondLeave(@, c)]
          /\ UNCHANGED <<wakeServer, clients_done>>
       \/ /\ \E t \in clients_done : clients_done' = CondLeave(clients_done, t)
          /\ UNCHANGED <<wakeServer, req>>
    /\ UNCHANGED <<serverVars, alloc, first, last, running, clientVars, client_threads,
                   client_mutex, mpc, counter, history>>

-------------------------------------------------------------------------------
Client(c) ==
    \/ \E a \in Addresses : SendRead(c, a) \/ SendWrite(c, a)
    \/ WaitReply(c) \/ GetReply(c) \/ Leave(c)

Server(s) == ServerSleeps(s) \/ PopRequest(s) \/ Operate(s) \/ FinishRequest(s)

MainStep == CreateClient \/ MainWaits \/ MainLocksAgain

Next ==
    \/ \E c \in Clients : Client(c)
    \/ \E s \in Servers : Server(s)
    \/ MainStep
    \/ SpuriousWakeup

Spec == Init /\ [][Next]_vars

\* Every thread goes on when it can, and fgets returns.
FairSpec ==
    /\ Spec
    /\ \A c \in Clients : WF_vars(Client(c))
    /\ \A s \in Servers : WF_vars(Server(s))
    /\ WF_vars(MainStep)

-------------------------------------------------------------------------------
(* No request is used after it was freed, by whichever side: not the one   *)
(* the server works on, not those in the list, not one a client waits for. *)
NoUseAfterFree ==
    /\ TypeOK
    /\ \A s \in Servers : spc[s] \in {"operate", "finish"} => current[s] \in alloc
    /\ first # NULL => first \in alloc /\ last \in alloc /\ req[last].next = NULL
    /\ \A c \in Clients : cpc[c] = "wait" => mine[c] \in alloc

(* A client's earlier output is on the terminal before it is prompted for  *)
(* its next line, although nothing waits for the writes.                   *)
EchoBeforePrompt ==
    \A s \in Servers :
        (spc[s] = "operate" /\ req[current[s]].operation = "read")
          => unprinted[req[current[s]].prompt] = 0

(* A client gets the line that the server read at this client's prompt.    *)
ReplyIsOwn == \A c \in Clients : cpc[c] \in {"write", "leave"} => string[c] = answer[c]

(* Each synchronous request returns: neither the server's wake-up nor the  *)
(* client's is lost.                                                       *)
ReadReturns == \A c \in Clients : (cpc[c] = "wait") ~> (cpc[c] # "wait")

(* The comment on client_threads: main and the clients coordinate their    *)
(* end with the condition variable, so that main, once it has created the  *)
(* clients, counts exactly those that have not left.                       *)
ClientsCounted ==
    mpc \in {"lock", "wait"} =>
        client_threads = Cardinality({c \in Clients : cpc[c] \notin {"off", "exited"}})
===============================================================================
