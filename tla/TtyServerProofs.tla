---------------------------- MODULE TtyServerProofs ----------------------------
(* Proofs about TtyServer, for any number of clients, addresses and loops. *)
EXTENDS TtyServer, TLAPS, FiniteSetTheorems, SequenceTheorems

\* The server works on the request r, for which its client waits.
Awaited(r) == cpc[req[r].prompt] = "wait" /\ mine[req[r].prompt] = r
IsRead(r) == req[r].operation = "read"

AllocInv == \A a \in alloc : req[a] \in Request

\* There is one server thread at most.  Its request is not done; one that has
\* been operated on has its answer.
ServerInv ==
    /\ ~running => \A s \in Servers : spc[s] = "off"
    /\ \A s, t \in Servers : spc[s] # "off" /\ spc[t] # "off" => s = t
    /\ \A s \in Servers : spc[s] \in {"operate", "finish"} =>
          /\ current[s] \in alloc /\ ~req[current[s]].done
          /\ IsRead(current[s]) => Awaited(current[s])
    /\ \A s \in Servers : spc[s] = "finish" /\ IsRead(current[s]) =>
          /\ req[current[s]].text = answer[req[current[s]].prompt]
          /\ unprinted[req[current[s]].prompt] = 0

\* What a client waits for is its own read; when it is done everything the
\* client wrote before is printed.
ClientInv ==
    \A c \in Clients :
        /\ cpc[c] = "wait" => /\ mine[c] \in alloc
                              /\ IsRead(mine[c]) /\ req[mine[c]].prompt = c
                              /\ req[mine[c]].done =>
                                    req[mine[c]].text = answer[c] /\ unprinted[c] = 0
        /\ cpc[c] = "write" => unprinted[c] <= loop[c] /\ loop[c] < Loops

\* client_threads counts the clients that have not left.
LeaveInv == client_threads = Cardinality({c \in Clients : cpc[c] # "exited"})

\* The list from first to last is the sequence q.
Linked(q) ==
    /\ \A i, j \in 1 .. Len(q) : q[i] = q[j] => i = j
    /\ q = <<>> => first = NULL /\ last = NULL
    /\ q # <<>> => first = q[1] /\ last = q[Len(q)] /\ req[q[Len(q)]].next = NULL
    /\ \A i \in 1 .. Len(q) - 1 : req[q[i]].next = q[i + 1]

\* It holds requests in use that the server has not yet taken, and the read
\* of a client comes after all of its writes.
Ordered(q) ==
    /\ \A i \in 1 .. Len(q) :
          /\ q[i] \in alloc /\ ~req[q[i]].done
          /\ IsRead(q[i]) => Awaited(q[i])
    /\ \A i, j \in 1 .. Len(q) :
          i < j /\ req[q[i]].prompt = req[q[j]].prompt => ~IsRead(q[i])
    /\ \A s \in Servers : spc[s] \in {"operate", "finish"} =>
          \A i \in 1 .. Len(q) : q[i] # current[s]
    /\ \A s \in Servers : spc[s] = "operate" /\ IsRead(current[s]) =>
          \A i \in 1 .. Len(q) : req[q[i]].prompt # req[current[s]].prompt

\* The writes of client c that are not printed: in the list or being printed.
Writes(q, c) ==
    {a \in alloc : /\ ~IsRead(a) /\ req[a].prompt = c
                   /\ \/ \E i \in 1 .. Len(q) : q[i] = a
                      \/ \E s \in Servers : spc[s] = "operate" /\ current[s] = a}

Counted(q) == \A c \in Clients : unprinted[c] = Cardinality(Writes(q, c))

QueueInv(q) == Linked(q) /\ Ordered(q) /\ Counted(q)

IInv ==
    /\ TypeOK
    /\ AllocInv
    /\ ServerInv
    /\ ClientInv
    /\ ReplyIsOwn
    /\ LeaveInv
    /\ \E q \in Seq(Addresses) : QueueInv(q)

-------------------------------------------------------------------------------
(* What the variables hold. *)
LEMMA Types ==
    ASSUME TypeOK
    PROVE  /\ NULL \notin Addresses /\ NULL \notin Clients
           /\ alloc \in SUBSET Addresses
           /\ req \in [Addresses -> Request \cup {NULL}]
           /\ first \in Addresses \cup {NULL} /\ last \in Addresses \cup {NULL}
           /\ spc \in [Servers -> {"off", "top", "wait", "operate", "finish"}]
           /\ current \in [Servers -> Addresses \cup {NULL}]
           /\ cpc \in [Clients -> {"off", "read", "wait", "write", "leave", "exited"}]
           /\ mine \in [Clients -> Addresses \cup {NULL}]
           /\ string \in [Clients -> 0 .. MaxLines] /\ loop \in [Clients -> 0 .. Loops]
           /\ unprinted \in [Clients -> 0 .. Loops] /\ answer \in [Clients -> 0 .. MaxLines]
           /\ Loops \in Nat /\ MaxLines \in Nat
           /\ lines \in 0 .. MaxLines
    BY TtyServerAssumption DEF TypeOK

(* The fields of a request. *)
LEMMA RequestIs ==
    ASSUME NEW r \in Request
    PROVE  /\ r.next \in Addresses \cup {NULL} /\ r.operation \in {"read", "write"}
           /\ r.done \in BOOLEAN /\ r.prompt \in Clients /\ r.text \in 0 .. MaxLines
           /\ r.cv \in SUBSET Clients
    BY DEF Request

(* The writes that are not printed can be counted. *)
LEMMA WritesFinite ==
    ASSUME TypeOK, NEW q, NEW c
    PROVE  IsFiniteSet(Writes(q, c)) /\ Cardinality(Writes(q, c)) \in Nat
<1>1. Writes(q, c) \in SUBSET Addresses
    BY Types DEF Writes
<1> QED
    BY <1>1, TtyServerAssumption, FS_Subset, FS_CardinalityType

(* No request is sent yet. *)
LEMMA InitIInv == Init => IInv
<1> SUFFICES ASSUME Init PROVE IInv
    OBVIOUS
<1>1. Cardinality(Clients) \in Nat
    BY TtyServerAssumption, FS_CardinalityType
<1>2. TypeOK
    <2>1. /\ spc \in [Servers -> {"off", "top", "wait", "operate", "finish"}]
          /\ current \in [Servers -> Addresses \cup {NULL}]
          /\ req \in [Addresses -> Request \cup {NULL}]
        BY DEF Init
    <2>2. /\ cpc \in [Clients -> {"off", "read", "wait", "write", "leave", "exited"}]
          /\ mine \in [Clients -> Addresses \cup {NULL}]
        BY DEF Init
    <2>3. /\ string \in [Clients -> 0 .. MaxLines] /\ loop \in [Clients -> 0 .. Loops]
          /\ unprinted \in [Clients -> 0 .. Loops] /\ answer \in [Clients -> 0 .. MaxLines]
        BY TtyServerAssumption DEF Init
    <2>4. /\ client_threads \in 0 .. Cardinality(Clients) /\ counter \in 0 .. Cardinality(Clients)
          /\ lines \in 0 .. MaxLines
        BY <1>1, TtyServerAssumption DEF Init
    <2> QED
        BY <2>1, <2>2, <2>3, <2>4 DEF Init, TypeOK
<1>3. AllocInv /\ ServerInv /\ ClientInv /\ ReplyIsOwn
    BY DEF Init, AllocInv, ServerInv, ClientInv, ReplyIsOwn
<1>4. LeaveInv
    <2>1. {c \in Clients : cpc[c] # "exited"} = Clients
        BY DEF Init
    <2> QED
        BY <2>1 DEF Init, LeaveInv
<1>5. QueueInv(<<>>)
    <2>1. \A c \in Clients : Writes(<<>>, c) = {}
        BY DEF Init, Writes
    <2>2. Counted(<<>>)
        BY <2>1, FS_EmptySet DEF Init, Counted
    <2>3. Linked(<<>>) /\ Ordered(<<>>)
        BY DEF Init, Linked, Ordered
    <2> QED
        BY <2>2, <2>3 DEF QueueInv
<1>6. <<>> \in Seq(Addresses)
    OBVIOUS
<1> QED
    BY <1>2, <1>3, <1>4, <1>5, <1>6 DEF IInv

-------------------------------------------------------------------------------
(* A step that does not touch the list or what the server is to do keeps   *)
(* the queue, even if it frees an address that is neither.                 *)
LEMMA QueueFrame ==
    ASSUME TypeOK, NEW q \in Seq(Addresses), QueueInv(q),
           UNCHANGED <<first, last, unprinted>>,
           alloc' \subseteq alloc,
           \A i \in 1 .. Len(q) : q[i] \in alloc' /\ req'[q[i]].done = req[q[i]].done,
           \A a \in alloc' :
              /\ req'[a].next = req[a].next
              /\ req'[a].operation = req[a].operation
              /\ req'[a].prompt = req[a].prompt,
           \A s \in Servers : spc'[s] \in {"operate", "finish"} =>
                                spc'[s] = spc[s] /\ current'[s] = current[s],
           \A s \in Servers : spc[s] = "operate" =>
                                spc'[s] = "operate" /\ current[s] \in alloc',
           \A i \in 1 .. Len(q) : IsRead(q[i]) /\ Awaited(q[i]) =>
                cpc'[req[q[i]].prompt] = "wait" /\ mine'[req[q[i]].prompt] = q[i]
    PROVE  QueueInv(q)'
<1> USE DEF QueueInv
<1>1. \A a \in alloc' : IsRead(a)' = IsRead(a)
    BY DEF IsRead
<1>2. Len(q) \in Nat /\ (q # <<>> => Len(q) \in 1 .. Len(q))
    OBVIOUS
<1>3. Linked(q)'
    BY <1>2 DEF Linked
<1>4. Ordered(q)'
    <2>1. \A i \in 1 .. Len(q) :
            /\ q[i] \in alloc' /\ ~req'[q[i]].done
            /\ IsRead(q[i])' => Awaited(q[i])'
        BY <1>1 DEF Ordered, Awaited
    <2>2. \A i, j \in 1 .. Len(q) :
            i < j /\ req'[q[i]].prompt = req'[q[j]].prompt => ~IsRead(q[i])'
        BY <1>1 DEF Ordered
    <2>3. \A s \in Servers : spc'[s] \in {"operate", "finish"} =>
            \A i \in 1 .. Len(q) : q[i] # current'[s]
        BY DEF Ordered
    <2>4. \A s \in Servers : spc'[s] = "operate" /\ IsRead(current[s])' =>
            \A i \in 1 .. Len(q) : req'[q[i]].prompt # req'[current'[s]].prompt
        <3> SUFFICES ASSUME NEW s \in Servers, spc'[s] = "operate", IsRead(current[s])',
                            NEW i \in 1 .. Len(q)
                     PROVE  req'[q[i]].prompt # req'[current'[s]].prompt
            OBVIOUS
        <3>1. spc[s] = "operate" /\ current'[s] = current[s] /\ current[s] \in alloc'
            OBVIOUS
        <3>2. IsRead(current[s])
            BY <3>1 DEF IsRead
        <3>3. req[q[i]].prompt # req[current[s]].prompt
            BY <3>1, <3>2 DEF Ordered
        <3> QED
            BY <3>1, <3>3
    <2> QED
        BY <2>1, <2>2, <2>3, <2>4 DEF Ordered
<1>5. Counted(q)'
    <2>1. ASSUME NEW c \in Clients PROVE Writes(q, c)' = Writes(q, c)
        <3>1. ASSUME NEW a \in Writes(q, c) PROVE a \in Writes(q, c)'
            <4>1. a \in alloc'
                BY <3>1 DEF Writes
            <4>2. \A s \in Servers : spc[s] = "operate" => current'[s] = current[s]
                OBVIOUS
            <4> QED
                BY <1>1, <3>1, <4>1, <4>2 DEF Writes
        <3>2. ASSUME NEW a \in Writes(q, c)' PROVE a \in Writes(q, c)
            BY <1>1, <3>2 DEF Writes
        <3> QED
            BY <3>1, <3>2
    <2> QED
        BY <2>1 DEF Counted
<1> QED
    BY <1>3, <1>4, <1>5

\* The requests stay as they are, but for who sleeps on them.
SameRequests ==
    /\ UNCHANGED alloc
    /\ req' \in [Addresses -> Request \cup {NULL}]
    /\ \A a \in alloc :
          /\ req'[a] \in Request
          /\ req'[a].next = req[a].next
          /\ req'[a].operation = req[a].operation
          /\ req'[a].done = req[a].done
          /\ req'[a].prompt = req[a].prompt
          /\ req'[a].text = req[a].text

(* Steps that leave the requests, the server and the clients' work alone. *)
LEMMA QuietStep ==
    ASSUME IInv, TypeOK', LeaveInv', SameRequests,
           UNCHANGED <<first, last, running, current, mine, string, loop, unprinted, answer>>,
           \A s \in Servers :
              \/ spc'[s] = spc[s]
              \/ spc[s] \in {"top", "wait"} /\ spc'[s] \in {"top", "wait"},
           \A c \in Clients :
              \/ cpc'[c] = cpc[c]
              \/ cpc[c] \notin {"wait", "write"} /\ cpc'[c] \notin {"wait", "write", "leave"}
    PROVE  IInv'
<1> USE DEF IInv
<1>1. AllocInv'
    BY DEF AllocInv, SameRequests
<1>2. \A a \in alloc : (IsRead(a)' <=> IsRead(a)) /\ req[a].prompt \in Clients
    BY RequestIs DEF IsRead, SameRequests, AllocInv
<1>3. \A a \in alloc : Awaited(a) => Awaited(a)'
    BY <1>2 DEF Awaited, SameRequests
<1>4. ServerInv'
    <2>1. /\ ~running' => \A s \in Servers : spc'[s] = "off"
          /\ \A s, t \in Servers : spc'[s] # "off" /\ spc'[t] # "off" => s = t
        BY DEF ServerInv
    <2>2. ASSUME NEW s \in Servers, spc'[s] \in {"operate", "finish"}
          PROVE  /\ current[s] \in alloc' /\ ~req'[current[s]].done
                 /\ IsRead(current[s])' => Awaited(current[s])'
                 /\ spc'[s] = "finish" /\ IsRead(current[s])' =>
                       /\ req'[current[s]].text = answer[req'[current[s]].prompt]
                       /\ unprinted[req'[current[s]].prompt] = 0
        <3> DEFINE a == current[s]
        <3>1. spc[s] = spc'[s]
            BY <2>2
        <3>2. /\ a \in alloc /\ ~req[a].done
              /\ IsRead(a) => Awaited(a)
              /\ spc[s] = "finish" /\ IsRead(a) =>
                    req[a].text = answer[req[a].prompt] /\ unprinted[req[a].prompt] = 0
            BY <2>2, <3>1 DEF ServerInv
        <3>3. UNCHANGED a
            OBVIOUS
        <3>4. /\ IsRead(a)' <=> IsRead(a)
              /\ Awaited(a) => Awaited(a)'
            BY <1>2, <1>3, <3>2, <3>3 DEF IsRead, Awaited
        <3>5. /\ req'[a].done = req[a].done /\ req'[a].prompt = req[a].prompt
              /\ req'[a].text = req[a].text /\ alloc' = alloc
            BY <3>2 DEF SameRequests
        <3> HIDE DEF a
        <3>6. /\ a \in alloc' /\ ~req'[a].done
              /\ IsRead(a)' => Awaited(a)'
              /\ spc'[s] = "finish" /\ IsRead(a)' =>
                    req'[a].text = answer[req'[a].prompt] /\ unprinted[req'[a].prompt] = 0
            BY <3>1, <3>2, <3>4, <3>5
        <3> QED
            BY <3>6 DEF a
    <2> QED
        BY <2>1, <2>2 DEF ServerInv
<1>5. ClientInv'
    BY DEF ClientInv, IsRead, SameRequests
<1>6. ReplyIsOwn'
    BY DEF ReplyIsOwn
<1>7. \E q \in Seq(Addresses) : QueueInv(q)'
    <2>1. PICK q \in Seq(Addresses) : QueueInv(q)
        OBVIOUS
    <2>2. \A i \in 1 .. Len(q) : q[i] \in alloc /\ req'[q[i]].done = req[q[i]].done
        BY <2>1 DEF QueueInv, Ordered, SameRequests
    <2>3. \A a \in alloc' :
            /\ req'[a].next = req[a].next
            /\ req'[a].operation = req[a].operation
            /\ req'[a].prompt = req[a].prompt
        BY DEF SameRequests
    <2>4. \A s \in Servers : spc[s] = "operate" => spc'[s] = "operate" /\ current[s] \in alloc
        BY DEF ServerInv
    <2>5. \A i \in 1 .. Len(q) : IsRead(q[i]) /\ Awaited(q[i]) =>
                cpc'[req[q[i]].prompt] = "wait" /\ mine'[req[q[i]].prompt] = q[i]
        BY <1>2, <2>2 DEF Awaited
    <2>6. \A s \in Servers : spc'[s] \in {"operate", "finish"} =>
                                spc'[s] = spc[s] /\ current'[s] = current[s]
        OBVIOUS
    <2>7. alloc' = alloc
        BY DEF SameRequests
    <2>8. QueueInv(q)'
        BY <2>1, <2>2, <2>3, <2>4, <2>5, <2>6, <2>7, QueueFrame
    <2> QED
        BY <2>8
<1> QED
    BY <1>1, <1>4, <1>5, <1>6, <1>7

(* main, and a client that leaves. *)
LEMMA MainIInv ==
    IInv /\ (CreateClient \/ MainWaits \/ MainLocksAgain \/ \E c \in Clients : Leave(c))
        => IInv'
<1> SUFFICES ASSUME IInv,
                    CreateClient \/ MainWaits \/ MainLocksAgain \/ \E c \in Clients : Leave(c)
             PROVE  IInv'
    OBVIOUS
<1> USE DEF IInv
<1> DEFINE There == {d \in Clients : cpc[d] # "exited"}
<1>1. UNCHANGED <<alloc, req, first, last, running, wakeServer, spc, current, lines, mine, string,
                  loop, unprinted, answer>>
    BY DEF CreateClient, MainWaits, MainLocksAgain, Leave, serverVars, queueVars, history,
           clientVars
<1>2. SameRequests
    BY <1>1, Types DEF SameRequests, AllocInv
<1>3. Cardinality(Clients) \in Nat /\ IsFiniteSet(There) /\ Cardinality(There) \in Nat
    BY TtyServerAssumption, FS_Subset, FS_CardinalityType
<1>4. CASE CreateClient
    <2>1. /\ UNCHANGED <<client_threads, client_mutex, clients_done>>
          /\ mpc' \in {"create", "lock", "wait", "unlock", "blocked"}
          /\ counter' = counter \/ (counter < client_threads /\ counter' = counter + 1)
          /\ \/ cpc' = cpc
             \/ \E c \in Clients : cpc[c] = "off" /\ cpc' = [cpc EXCEPT ![c] = "read"]
        BY <1>4 DEF CreateClient, TypeOK
    <2>2. /\ cpc' \in [Clients -> {"off", "read", "wait", "write", "leave", "exited"}]
          /\ \A c \in Clients : cpc'[c] = cpc[c] \/ (cpc[c] = "off" /\ cpc'[c] = "read")
        BY <2>1, Types
    <2>3. There' = There
        BY <2>2
    <2>4. LeaveInv'
        BY <2>1, <2>3 DEF LeaveInv
    <2>5. counter' \in 0 .. Cardinality(Clients)
        BY <1>3, <2>1 DEF TypeOK
    <2>6. TypeOK'
        BY <1>1, <2>1, <2>2, <2>5 DEF TypeOK
    <2>7. \A c \in Clients :
            \/ cpc'[c] = cpc[c]
            \/ cpc[c] \notin {"wait", "write"} /\ cpc'[c] \notin {"wait", "write", "leave"}
        BY <2>2
    <2> QED
        BY <1>1, <1>2, <2>4, <2>6, <2>7, QuietStep
<1>5. CASE MainWaits \/ MainLocksAgain
    <2>1. UNCHANGED <<cpc, client_threads, counter>>
        BY <1>5 DEF MainWaits, MainLocksAgain, clientVars
    <2>2. /\ mpc' \in {"create", "lock", "wait", "unlock", "blocked"}
          /\ client_mutex' \in {Main, NULL} /\ clients_done' \in SUBSET {Main}
        BY <1>5 DEF MainWaits, MainLocksAgain, TypeOK, CondWait
    <2>3. TypeOK'
        BY <1>1, <2>1, <2>2 DEF TypeOK
    <2>4. LeaveInv'
        BY <2>1 DEF LeaveInv
    <2> QED
        BY <1>1, <1>2, <2>1, <2>3, <2>4, QuietStep
<1>6. ASSUME NEW c \in Clients, Leave(c) PROVE IInv'
    <2>1. /\ UNCHANGED <<client_mutex, mpc, counter>>
          /\ cpc[c] = "leave" /\ cpc' = [cpc EXCEPT ![c] = "exited"]
          /\ client_threads' = client_threads - 1
          /\ clients_done' \in SUBSET {Main}
        BY <1>6 DEF Leave, CondSignal, TypeOK
    <2>2. /\ cpc' \in [Clients -> {"off", "read", "wait", "write", "leave", "exited"}]
          /\ cpc'[c] = "exited" /\ \A d \in Clients : d # c => cpc'[d] = cpc[d]
        BY <2>1, Types
    <2>3. There' = There \ {c} /\ c \in There
        BY <2>1, <2>2
    <2> HIDE DEF There
    <2>4. /\ Cardinality(There') = Cardinality(There) - 1 /\ Cardinality(There') \in Nat
        BY <1>3, <2>3, FS_RemoveElement, FS_CardinalityType
    <2>5. client_threads = Cardinality(There)
        BY DEF LeaveInv, There
    <2>6. client_threads' = Cardinality(There') /\ client_threads' \in 0 .. Cardinality(Clients)
        BY <1>3, <2>1, <2>4, <2>5 DEF TypeOK
    <2>7. LeaveInv'
        BY <2>6 DEF LeaveInv, There
    <2>8. TypeOK'
        BY <1>1, <2>1, <2>2, <2>6 DEF TypeOK
    <2>9. \A d \in Clients :
            \/ cpc'[d] = cpc[d]
            \/ cpc[d] \notin {"wait", "write"} /\ cpc'[d] \notin {"wait", "write", "leave"}
        BY <2>1, <2>2
    <2> QED
        BY <1>1, <1>2, <2>7, <2>8, <2>9, QuietStep
<1> QED
    BY <1>4, <1>5, <1>6

(* Sleeping and waking. *)
LEMMA CvChange ==
    ASSUME TypeOK, AllocInv, NEW a \in alloc, NEW woken \in SUBSET Clients, UNCHANGED alloc,
           req' = [req EXCEPT ![a].cv = woken]
    PROVE  SameRequests
<1>1. a \in Addresses /\ req[a] \in Request
    BY Types DEF AllocInv
<1>2. /\ [req[a] EXCEPT !.cv = woken] \in Request
      /\ [req[a] EXCEPT !.cv = woken].next = req[a].next
      /\ [req[a] EXCEPT !.cv = woken].operation = req[a].operation
      /\ [req[a] EXCEPT !.cv = woken].done = req[a].done
      /\ [req[a] EXCEPT !.cv = woken].prompt = req[a].prompt
      /\ [req[a] EXCEPT !.cv = woken].text = req[a].text
    BY <1>1 DEF Request
<1>3. /\ req' \in [Addresses -> Request \cup {NULL}]
      /\ req'[a] = [req[a] EXCEPT !.cv = woken]
      /\ \A b \in Addresses : b # a => req'[b] = req[b]
    BY <1>1, <1>2, Types
<1> QED
    BY <1>2, <1>3, Types DEF SameRequests, AllocInv

(* Going to sleep and waking change no request. *)
LEMMA SleepIInv ==
    IInv /\ (\/ SpuriousWakeup \/ \E c \in Clients : WaitReply(c)
             \/ \E s \in Servers : ServerSleeps(s)) => IInv'
<1> SUFFICES ASSUME IInv,
                    \/ SpuriousWakeup \/ \E c \in Clients : WaitReply(c)
                    \/ \E s \in Servers : ServerSleeps(s)
             PROVE  IInv'
    OBVIOUS
<1> USE DEF IInv
<1>1. UNCHANGED <<alloc, first, last, running, current, lines, cpc, mine, string, loop,
                  client_threads, client_mutex, mpc, counter, unprinted, answer>>
    BY DEF SpuriousWakeup, WaitReply, ServerSleeps, serverVars, queueVars, clientVars, mainVars,
           history
<1>2. SameRequests
    <2>1. CASE UNCHANGED req
        BY <1>1, <2>1, Types DEF SameRequests, AllocInv
    <2>2. ASSUME NEW c \in Clients, WaitReply(c) PROVE SameRequests
        <3>1. mine[c] \in alloc
            BY <2>2 DEF WaitReply, ClientInv
        <3>2. req' = [req EXCEPT ![mine[c]].cv = req[mine[c]].cv \cup {c}]
            BY <2>2 DEF WaitReply, CondWait
        <3>3. req[mine[c]].cv \cup {c} \in SUBSET Clients
            BY <3>1, RequestIs DEF AllocInv
        <3> QED
            BY <1>1, <3>1, <3>2, <3>3, CvChange
    <2>3. ASSUME NEW a \in alloc, NEW c \in req[a].cv,
                 req' = [req EXCEPT ![a].cv = CondLeave(@, c)]
          PROVE  SameRequests
        <3>1. req' = [req EXCEPT ![a].cv = req[a].cv \ {c}]
            BY <2>3 DEF CondLeave
        <3>2. req[a].cv \ {c} \in SUBSET Clients
            BY RequestIs DEF AllocInv
        <3> QED
            BY <1>1, <3>1, <3>2, CvChange
    <2> QED
        BY <2>1, <2>2, <2>3 DEF SpuriousWakeup, ServerSleeps, queueVars
<1>3. /\ spc' \in [Servers -> {"off", "top", "wait", "operate", "finish"}]
      /\ \A s \in Servers :
            \/ spc'[s] = spc[s]
            \/ spc[s] \in {"top", "wait"} /\ spc'[s] \in {"top", "wait"}
    BY Types DEF SpuriousWakeup, WaitReply, ServerSleeps, serverVars, ServerHasLock
<1>4. wakeServer' \in SUBSET Servers /\ clients_done' \in SUBSET {Main}
    BY DEF SpuriousWakeup, WaitReply, ServerSleeps, mainVars, CondLeave, CondWait, TypeOK
<1>5. TypeOK'
    BY <1>1, <1>2, <1>3, <1>4 DEF TypeOK, SameRequests
<1>6. LeaveInv'
    BY <1>1 DEF LeaveInv
<1> QED
    BY <1>1, <1>2, <1>3, <1>5, <1>6, QuietStep

-------------------------------------------------------------------------------
(* Sending a request.                                                      *)
LEMMA ListEnds ==
    ASSUME TypeOK, NEW q \in Seq(Addresses), QueueInv(q)
    PROVE  /\ first = NULL <=> q = <<>>
           /\ q # <<>> => /\ Len(q) \in Nat /\ Len(q) >= 1
                          /\ first = q[1] /\ first \in alloc
                          /\ last = q[Len(q)] /\ last \in alloc /\ req[last].next = NULL
<1>1. Len(q) \in Nat /\ (q # <<>> => Len(q) >= 1)
    OBVIOUS
<1>2. q # <<>> => 1 \in 1 .. Len(q) /\ Len(q) \in 1 .. Len(q)
    BY <1>1
<1>3. \A i \in 1 .. Len(q) : q[i] \in alloc
    BY DEF QueueInv, Ordered
<1> QED
    BY <1>1, <1>2, <1>3, Types DEF QueueInv, Linked

\* What Send does to the requests and to the server.
Sent(a, r) ==
    /\ alloc' = alloc \cup {a} /\ a \notin alloc /\ a \in Addresses
    /\ req' \in [Addresses -> Request \cup {NULL}]
    /\ req'[a] = r
    /\ \A b \in alloc :
          /\ req'[b] \in Request
          /\ req'[b].operation = req[b].operation /\ req'[b].done = req[b].done
          /\ req'[b].prompt = req[b].prompt /\ req'[b].text = req[b].text
          /\ req'[b].next = IF first # NULL /\ b = last THEN a ELSE req[b].next
    /\ first' = IF first = NULL THEN a ELSE first
    /\ last' = a
    /\ running' = TRUE
    /\ wakeServer' \in SUBSET Servers
    /\ spc' \in [Servers -> {"off", "top", "wait", "operate", "finish"}]
    /\ \/ spc' = spc /\ running
       \/ /\ ~running
          /\ \E s \in Servers : spc[s] = "off" /\ spc' = [spc EXCEPT ![s] = "top"]

(* The request is linked behind the last one, and the server runs. *)
LEMMA SendEffect ==
    ASSUME IInv, NEW a \in Addresses, NEW r \in Request, Send(a, r)
    PROVE  Sent(a, r)
<1> USE DEF IInv
<1>1. PICK q \in Seq(Addresses) : QueueInv(q)
    OBVIOUS
<1>2. /\ a \notin alloc /\ alloc' = alloc \cup {a} /\ Link(a, r)
      /\ wakeServer' \in CondSignal(wakeServer) /\ StartServer
    BY DEF Send, SignalServer
<1>3. wakeServer' \in SUBSET Servers
    BY <1>2 DEF CondSignal, TypeOK
<1>4. /\ running' = TRUE
      /\ spc' \in [Servers -> {"off", "top", "wait", "operate", "finish"}]
      /\ \/ spc' = spc /\ running
         \/ /\ ~running
            /\ \E s \in Servers : spc[s] = "off" /\ spc' = [spc EXCEPT ![s] = "top"]
    BY <1>2, Types DEF StartServer, TypeOK
<1>5. /\ first' = IF first = NULL THEN a ELSE first
      /\ last' = a
    BY <1>2 DEF Link
<1>6. /\ req' \in [Addresses -> Request \cup {NULL}] /\ req'[a] = r
      /\ \A b \in alloc :
            /\ req'[b] \in Request
            /\ req'[b].operation = req[b].operation /\ req'[b].done = req[b].done
            /\ req'[b].prompt = req[b].prompt /\ req'[b].text = req[b].text
            /\ req'[b].next = IF first # NULL /\ b = last THEN a ELSE req[b].next
    <2>1. \A b \in alloc : b \in Addresses /\ b # a /\ req[b] \in Request
        BY <1>2, Types DEF AllocInv
    <2>2. CASE first = NULL
        <3>1. req' = [req EXCEPT ![a] = r]
            BY <1>2, <2>2 DEF Link
        <3>2. /\ req' \in [Addresses -> Request \cup {NULL}] /\ req'[a] = r
              /\ \A b \in Addresses : b # a => req'[b] = req[b]
            BY <3>1, Types
        <3> QED
            BY <2>1, <2>2, <3>2
    <2>3. CASE first # NULL
        <3> DEFINE l == [req[last] EXCEPT !.next = a]
        <3>1. last \in alloc
            BY <1>1, <2>3, ListEnds
        <3>2. req' = [req EXCEPT ![a] = r, ![last].next = a]
            BY <1>2, <2>3 DEF Link
        <3>3. req[last] \in Request /\ last \in Addresses /\ last # a
            BY <2>1, <3>1
        <3>4. /\ l \in Request /\ l.operation = req[last].operation
              /\ l.done = req[last].done /\ l.prompt = req[last].prompt
              /\ l.text = req[last].text /\ l.next = a
            BY <3>3 DEF Request
        <3>5. /\ req' \in [Addresses -> Request \cup {NULL}] /\ req'[a] = r
              /\ req'[last] = l
              /\ \A b \in Addresses : b # a /\ b # last => req'[b] = req[b]
            <4>1. req' = [[req EXCEPT ![a] = r] EXCEPT ![last] = l]
                BY <3>2, <3>3, Types
            <4> HIDE DEF l
            <4> QED
                BY <3>3, <3>4, <4>1, Types
        <3> HIDE DEF l
        <3> QED
            BY <2>1, <2>3, <3>4, <3>5
    <2> QED
        BY <2>2, <2>3
<1> QED
    BY <1>2, <1>3, <1>4, <1>5, <1>6 DEF Sent

(* The new request is the last of the queue.                               *)
LEMMA SendQueue ==
    ASSUME IInv, NEW c \in Clients, NEW a \in Addresses, NEW r \in Request, Sent(a, r),
           r.next = NULL, ~r.done, r.prompt = c,
           cpc[c] \in {"read", "write"}, UNCHANGED current,
           \A d \in Clients : d # c =>
                cpc'[d] = cpc[d] /\ mine'[d] = mine[d] /\ unprinted'[d] = unprinted[d],
           \/ /\ r.operation = "read" /\ cpc'[c] = "wait" /\ mine'[c] = a
              /\ unprinted'[c] = unprinted[c]
           \/ r.operation = "write" /\ unprinted'[c] = unprinted[c] + 1
    PROVE  \E q \in Seq(Addresses) : QueueInv(q)'
<1> USE DEF IInv
<1>1. PICK q \in Seq(Addresses) : QueueInv(q)
    OBVIOUS
<1> DEFINE p == Append(q, a)
<1>2. /\ p \in Seq(Addresses) /\ Len(q) \in Nat /\ Len(p) = Len(q) + 1 /\ p[Len(q) + 1] = a
      /\ \A i \in 1 .. Len(q) : p[i] = q[i]
    OBVIOUS
<1>3. \A i \in 1 .. Len(p) : i \in 1 .. Len(q) \/ i = Len(q) + 1
    BY <1>2
<1>4. \A i \in 1 .. Len(q) : i \in 1 .. Len(p)
    BY <1>2
<1> HIDE DEF p
<1>5. /\ alloc' = alloc \cup {a} /\ a \notin alloc /\ req'[a] = r
      /\ \A b \in alloc :
            /\ req'[b].operation = req[b].operation /\ req'[b].done = req[b].done
            /\ req'[b].prompt = req[b].prompt
            /\ req'[b].next = IF first # NULL /\ b = last THEN a ELSE req[b].next
    BY DEF Sent
<1>6. \A i \in 1 .. Len(q) : /\ q[i] \in alloc /\ q[i] # a /\ req[q[i]].prompt \in Clients
                             /\ ~req[q[i]].done /\ (IsRead(q[i]) => Awaited(q[i]))
    BY <1>1, <1>5, RequestIs DEF QueueInv, Ordered, AllocInv
<1>7. \A b \in alloc : IsRead(b)' <=> IsRead(b)
    BY <1>5 DEF IsRead
<1>8. \A b \in alloc : IsRead(b) /\ Awaited(b) => req[b].prompt # c /\ Awaited(b)'
    <2> SUFFICES ASSUME NEW b \in alloc, IsRead(b), Awaited(b)
                 PROVE  req[b].prompt # c /\ Awaited(b)'
        OBVIOUS
    <2>1. req[b].prompt # c /\ req[b].prompt \in Clients
        BY RequestIs DEF Awaited, AllocInv
    <2> QED
        BY <1>5, <2>1 DEF Awaited
<1>9. \A s \in Servers : spc'[s] \in {"operate", "finish"} <=> spc[s] \in {"operate", "finish"}
    BY Types DEF Sent
<1>10. \A s \in Servers : spc'[s] = "operate" <=> spc[s] = "operate"
    BY Types DEF Sent
<1>11. \A s \in Servers : spc[s] \in {"operate", "finish"} =>
            /\ current[s] \in alloc /\ current[s] # a
            /\ IsRead(current[s]) => Awaited(current[s])
    BY <1>5 DEF ServerInv
<1>12. Linked(p)'
    <2>1. \A i, j \in 1 .. Len(p) : p[i] = p[j] => i = j
        BY <1>1, <1>2, <1>3, <1>6 DEF QueueInv, Linked
    <2>2. p # <<>> /\ Len(p) \in Nat /\ Len(p) >= 1
        BY <1>2
    <2>3. last' = p[Len(p)] /\ req'[p[Len(p)]].next = NULL
        BY <1>2, <1>5 DEF Sent
    <2>4. first' = p[1]
        <3>1. CASE q = <<>>
            <4>1. Len(q) = 0 /\ first = NULL
                BY <1>1, <3>1, ListEnds
            <4>2. p[1] = a
                BY <1>2, <4>1
            <4> QED
                BY <4>1, <4>2 DEF Sent
        <3>2. CASE q # <<>>
            <4>1. 1 \in 1 .. Len(q) /\ first = q[1] /\ first # NULL
                BY <1>1, <1>2, <3>2, ListEnds
            <4> QED
                BY <1>2, <4>1 DEF Sent
        <3> QED
            BY <3>1, <3>2
    <2>5. ASSUME NEW i \in 1 .. Len(p) - 1 PROVE req'[p[i]].next = p[i + 1]
        <3>1. i \in 1 .. Len(q) /\ p[i] = q[i]
            BY <1>2
        <3>2. q # <<>> /\ first # NULL /\ last = q[Len(q)] /\ Len(q) \in 1 .. Len(q)
            BY <1>1, <1>2, <3>1, ListEnds
        <3>3. CASE i = Len(q)
            BY <1>2, <1>5, <1>6, <3>1, <3>2, <3>3
        <3>4. CASE i # Len(q)
            <4>1. i \in 1 .. Len(q) - 1 /\ i + 1 \in 1 .. Len(q)
                BY <1>2, <3>1, <3>4
            <4>2. q[i] # last /\ req[q[i]].next = q[i + 1]
                BY <1>1, <3>1, <3>2, <3>4, <4>1 DEF QueueInv, Linked
            <4> QED
                BY <1>2, <1>5, <1>6, <3>1, <4>1, <4>2
        <3> QED
            BY <3>3, <3>4
    <2> QED
        BY <2>1, <2>2, <2>3, <2>4, <2>5 DEF Linked
<1>13. Ordered(p)'
    <2>1. ASSUME NEW i \in 1 .. Len(p)
          PROVE  /\ p[i] \in alloc' /\ ~req'[p[i]].done
                 /\ IsRead(p[i])' => Awaited(p[i])'
        <3>1. CASE i \in 1 .. Len(q)
            <4>1. p[i] = q[i]
                BY <1>2, <3>1
            <4>2. /\ q[i] \in alloc' /\ ~req'[q[i]].done
                  /\ IsRead(q[i])' => Awaited(q[i])'
                BY <1>5, <1>6, <1>7, <1>8, <3>1
            <4> QED
                BY <4>1, <4>2 DEF IsRead, Awaited
        <3>2. CASE i = Len(q) + 1
            BY <1>2, <1>5, <3>2 DEF IsRead, Awaited
        <3> QED
            BY <1>3, <3>1, <3>2
    <2>2. ASSUME NEW i \in 1 .. Len(p), NEW j \in 1 .. Len(p), i < j,
                 req'[p[i]].prompt = req'[p[j]].prompt
          PROVE  ~IsRead(p[i])'
        <3>1. i \in 1 .. Len(q) /\ p[i] = q[i]
            BY <1>2, <2>2
        <3>2. ~IsRead(q[i])
            <4>1. CASE j \in 1 .. Len(q)
                BY <1>1, <1>2, <1>5, <1>6, <2>2, <3>1, <4>1 DEF QueueInv, Ordered
            <4>2. CASE j = Len(q) + 1
                BY <1>2, <1>5, <1>6, <1>8, <2>2, <3>1, <4>2
            <4> QED
                BY <1>3, <4>1, <4>2
        <3> QED
            BY <1>5, <1>6, <3>1, <3>2 DEF IsRead
    <2>3. \A s \in Servers : spc'[s] \in {"operate", "finish"} =>
            \A i \in 1 .. Len(p) : p[i] # current'[s]
        BY <1>1, <1>2, <1>3, <1>9, <1>11 DEF QueueInv, Ordered
    <2>4. ASSUME NEW s \in Servers, spc'[s] = "operate", req'[current'[s]].operation = "read",
                 NEW i \in 1 .. Len(p)
          PROVE  req'[p[i]].prompt # req'[current'[s]].prompt
        <3>1. spc[s] = "operate" /\ current[s] \in alloc /\ IsRead(current[s])
            BY <1>5, <1>10, <1>11, <2>4 DEF IsRead
        <3>2. req[current[s]].prompt # c
            BY <1>8, <1>11, <3>1
        <3>3. \A k \in 1 .. Len(q) : req[q[k]].prompt # req[current[s]].prompt
            BY <1>1, <3>1 DEF QueueInv, Ordered
        <3> QED
            BY <1>2, <1>3, <1>5, <1>6, <3>1, <3>2, <3>3
    <2> QED
        BY <2>1, <2>2, <2>3, <2>4 DEF Ordered, IsRead
<1>14. Counted(p)'
    <2>1. ASSUME NEW d \in Clients, d # c \/ r.operation = "read"
          PROVE  Writes(p, d)' = Writes(q, d)
        <3>1. ASSUME NEW b \in Writes(q, d) PROVE b \in Writes(p, d)'
            BY <1>2, <1>4, <1>5, <1>7, <1>10, <3>1 DEF Writes
        <3>2. ASSUME NEW b \in Writes(p, d)' PROVE b \in Writes(q, d)
            <4>1. b \in alloc' /\ ~IsRead(b)' /\ req'[b].prompt = d
                BY <3>2 DEF Writes
            <4>2. b # a
                BY <1>5, <2>1, <4>1 DEF IsRead
            <4> QED
                BY <1>2, <1>3, <1>5, <1>7, <1>10, <3>2, <4>1, <4>2 DEF Writes
        <3> QED
            BY <3>1, <3>2
    <2>2. ASSUME r.operation = "write"
          PROVE  Writes(p, c)' = Writes(q, c) \cup {a} /\ a \notin Writes(q, c)
        <3>1. ASSUME NEW b \in Writes(q, c) PROVE b \in Writes(p, c)'
            BY <1>2, <1>4, <1>5, <1>7, <1>10, <3>1 DEF Writes
        <3>2. a \in Writes(p, c)'
            <4>1. a \in alloc' /\ ~IsRead(a)' /\ req'[a].prompt = c
                BY <1>5, <2>2 DEF IsRead
            <4>2. Len(q) + 1 \in 1 .. Len(p)
                BY <1>2
            <4> QED
                BY <1>2, <4>1, <4>2 DEF Writes
        <3>3. ASSUME NEW b \in Writes(p, c)', b # a PROVE b \in Writes(q, c)
            BY <1>2, <1>3, <1>5, <1>7, <1>10, <3>3 DEF Writes
        <3>4. a \notin Writes(q, c)
            BY <1>5 DEF Writes
        <3> QED
            BY <3>1, <3>2, <3>3, <3>4
    <2>3. ASSUME NEW d \in Clients PROVE unprinted'[d] = Cardinality(Writes(p, d)')
        <3>1. unprinted[d] = Cardinality(Writes(q, d))
            BY <1>1 DEF QueueInv, Counted
        <3>2. CASE d # c \/ r.operation = "read"
            BY <2>1, <3>1, <3>2
        <3>3. CASE d = c /\ r.operation = "write"
            BY <2>2, <3>1, <3>3, WritesFinite, FS_AddElement
        <3> QED
            BY <3>2, <3>3
    <2> QED
        BY <2>3 DEF Counted
<1> QED
    BY <1>2, <1>12, <1>13, <1>14 DEF QueueInv

(* The rest of the invariant: the request was not there before.            *)
LEMMA SendRest ==
    ASSUME IInv, NEW c \in Clients, NEW a \in Addresses, NEW r \in Request, Sent(a, r),
           cpc[c] \in {"read", "write"}, UNCHANGED <<current, answer>>,
           \A d \in Clients : d # c =>
                cpc'[d] = cpc[d] /\ mine'[d] = mine[d] /\ unprinted'[d] = unprinted[d]
    PROVE  /\ AllocInv' /\ ServerInv'
           /\ \A d \in Clients : cpc[d] = "wait" =>
                /\ mine[d] \in alloc' /\ req'[mine[d]].operation = req[mine[d]].operation
                /\ req'[mine[d]].prompt = req[mine[d]].prompt
                /\ req'[mine[d]].done = req[mine[d]].done
                /\ req'[mine[d]].text = req[mine[d]].text
<1> USE DEF IInv
<1>1. AllocInv'
    BY DEF AllocInv, Sent
<1>2. \A b \in alloc : /\ req'[b].operation = req[b].operation /\ req'[b].done = req[b].done
                       /\ req'[b].prompt = req[b].prompt /\ req'[b].text = req[b].text
                       /\ b \in alloc' /\ req[b].prompt \in Clients
    BY RequestIs DEF Sent, AllocInv
<1>3. ServerInv'
    <2>1. /\ ~running' => \A s \in Servers : spc'[s] = "off"
          /\ \A s, t \in Servers : spc'[s] # "off" /\ spc'[t] # "off" => s = t
        <3>1. CASE spc' = spc /\ running
            BY <3>1 DEF ServerInv, Sent
        <3>2. CASE ~running
            <4>1. \A s \in Servers : spc[s] = "off"
                BY <3>2 DEF ServerInv
            <4> QED
                BY <3>2, <4>1, Types DEF Sent
        <3> QED
            BY <3>1, <3>2 DEF Sent
    <2>2. \A s \in Servers : spc'[s] \in {"operate", "finish"} => spc'[s] = spc[s]
        BY Types DEF Sent
    <2>3. ASSUME NEW s \in Servers, spc'[s] \in {"operate", "finish"}
          PROVE  /\ current'[s] \in alloc' /\ ~req'[current'[s]].done
                 /\ req'[current'[s]].operation = "read" =>
                       /\ cpc'[req'[current'[s]].prompt] = "wait"
                       /\ mine'[req'[current'[s]].prompt] = current'[s]
                       /\ spc'[s] = "finish" =>
                             /\ req'[current'[s]].text = answer'[req'[current'[s]].prompt]
                             /\ unprinted'[req'[current'[s]].prompt] = 0
        <3>1. /\ current[s] \in alloc /\ ~req[current[s]].done
              /\ req[current[s]].operation = "read" =>
                       /\ cpc[req[current[s]].prompt] = "wait"
                       /\ mine[req[current[s]].prompt] = current[s]
                       /\ spc[s] = "finish" =>
                             /\ req[current[s]].text = answer[req[current[s]].prompt]
                             /\ unprinted[req[current[s]].prompt] = 0
            BY <2>2, <2>3 DEF ServerInv, IsRead, Awaited
        <3>2. req[current[s]].operation = "read" => req[current[s]].prompt # c
            BY <3>1
        <3> QED
            BY <1>2, <2>2, <2>3, <3>1, <3>2
    <2> QED
        BY <2>1, <2>3 DEF ServerInv, IsRead, Awaited
<1>4. \A d \in Clients : cpc[d] = "wait" => mine[d] \in alloc
    BY DEF ClientInv
<1> QED
    BY <1>1, <1>2, <1>3, <1>4

(* A read: the client waits for it. *)
LEMMA SendReadIInv ==
    ASSUME IInv, NEW c \in Clients, NEW a \in Addresses, SendRead(c, a)
    PROVE  IInv'
<1> USE DEF IInv
<1> DEFINE r == [next |-> NULL, operation |-> "read", done |-> FALSE, prompt |-> c,
                 text |-> 0, cv |-> CondWait({}, c)]
<1>1. /\ cpc[c] = "read" /\ Send(a, r)
      /\ mine' = [mine EXCEPT ![c] = a] /\ cpc' = [cpc EXCEPT ![c] = "wait"]
      /\ UNCHANGED <<current, lines, string, loop, mainVars, history>>
    BY DEF SendRead
<1>2. r \in Request /\ r.next = NULL /\ ~r.done /\ r.prompt = c /\ r.operation = "read"
    BY Types DEF Request, CondWait
<1> HIDE DEF r
<1>3. Sent(a, r)
    BY <1>1, <1>2, SendEffect
<1>4. /\ cpc' \in [Clients -> {"off", "read", "wait", "write", "leave", "exited"}]
      /\ mine' \in [Clients -> Addresses \cup {NULL}]
      /\ cpc'[c] = "wait" /\ mine'[c] = a
      /\ \A d \in Clients : d # c => cpc'[d] = cpc[d] /\ mine'[d] = mine[d]
      /\ UNCHANGED <<current, lines, string, loop, unprinted, answer, client_threads,
                     client_mutex, clients_done, mpc, counter>>
    BY <1>1, Types DEF mainVars, history
<1>5. TypeOK'
    BY <1>3, <1>4 DEF TypeOK, Sent
<1>6. /\ AllocInv' /\ ServerInv'
      /\ \A d \in Clients : cpc[d] = "wait" =>
                /\ mine[d] \in alloc' /\ req'[mine[d]].operation = req[mine[d]].operation
                /\ req'[mine[d]].prompt = req[mine[d]].prompt
                /\ req'[mine[d]].done = req[mine[d]].done
                /\ req'[mine[d]].text = req[mine[d]].text
    BY <1>1, <1>2, <1>3, <1>4, SendRest
<1>7. ClientInv'
    BY <1>2, <1>3, <1>4, <1>6 DEF ClientInv, IsRead, Sent
<1>8. ReplyIsOwn'
    BY <1>4 DEF ReplyIsOwn
<1>9. LeaveInv'
    <2>1. \A d \in Clients : cpc'[d] # "exited" <=> cpc[d] # "exited"
        BY <1>1, <1>4
    <2>2. {d \in Clients : cpc'[d] # "exited"} = {d \in Clients : cpc[d] # "exited"}
        BY <2>1
    <2> QED
        BY <1>4, <2>2 DEF LeaveInv
<1>10. \E q \in Seq(Addresses) : QueueInv(q)'
    BY <1>1, <1>2, <1>3, <1>4, SendQueue
<1> QED
    BY <1>5, <1>6, <1>7, <1>8, <1>9, <1>10

(* A write: one more text is to be printed. *)
LEMMA SendWriteIInv ==
    ASSUME IInv, NEW c \in Clients, NEW a \in Addresses, SendWrite(c, a)
    PROVE  IInv'
<1> USE DEF IInv
<1> DEFINE r == [next |-> NULL, operation |-> "write", done |-> FALSE, prompt |-> c,
                 text |-> string[c], cv |-> {}]
<1>1. /\ cpc[c] = "write" /\ Send(a, r)
      /\ loop' = [loop EXCEPT ![c] = @ + 1]
      /\ cpc' = [cpc EXCEPT ![c] = IF loop'[c] = Loops THEN "read" ELSE "write"]
      /\ unprinted' = [unprinted EXCEPT ![c] = @ + 1]
      /\ UNCHANGED <<current, lines, mine, string, mainVars, answer>>
    BY DEF SendWrite, LastLoop
<1>2. r \in Request /\ r.next = NULL /\ ~r.done /\ r.prompt = c /\ r.operation = "write"
    BY Types DEF Request
<1> HIDE DEF r
<1>3. Sent(a, r)
    BY <1>1, <1>2, SendEffect
<1>4. /\ unprinted[c] \in Nat /\ loop[c] \in Nat /\ Loops \in Nat
      /\ unprinted[c] <= loop[c] /\ loop[c] < Loops
    BY <1>1, Types DEF ClientInv
<1>5. /\ loop' \in [Clients -> 0 .. Loops] /\ loop'[c] = loop[c] + 1
      /\ unprinted' \in [Clients -> 0 .. Loops] /\ unprinted'[c] = unprinted[c] + 1
      /\ \A d \in Clients : d # c => loop'[d] = loop[d] /\ unprinted'[d] = unprinted[d]
    <2>1. loop[c] + 1 \in 0 .. Loops /\ unprinted[c] + 1 \in 0 .. Loops
        BY <1>4
    <2> QED
        BY <1>1, <2>1, Types
<1>6. /\ cpc' \in [Clients -> {"off", "read", "wait", "write", "leave", "exited"}]
      /\ cpc'[c] \in {"read", "write"} /\ (cpc'[c] = "write" => loop'[c] # Loops)
      /\ \A d \in Clients : d # c => cpc'[d] = cpc[d] /\ mine'[d] = mine[d]
      /\ UNCHANGED <<current, lines, mine, string, answer, client_threads,
                     client_mutex, clients_done, mpc, counter>>
    BY <1>1, Types DEF mainVars
<1>7. TypeOK'
    BY <1>3, <1>5, <1>6 DEF TypeOK, Sent
<1>8. /\ AllocInv' /\ ServerInv'
      /\ \A d \in Clients : cpc[d] = "wait" =>
                /\ mine[d] \in alloc' /\ req'[mine[d]].operation = req[mine[d]].operation
                /\ req'[mine[d]].prompt = req[mine[d]].prompt
                /\ req'[mine[d]].done = req[mine[d]].done
                /\ req'[mine[d]].text = req[mine[d]].text
    BY <1>1, <1>2, <1>3, <1>5, <1>6, SendRest
<1>9. ClientInv'
    <2>1. cpc'[c] = "write" => unprinted'[c] <= loop'[c] /\ loop'[c] < Loops
        BY <1>4, <1>5, <1>6
    <2> QED
        BY <1>5, <1>6, <1>8, <2>1 DEF ClientInv, IsRead
<1>10. ReplyIsOwn'
    BY <1>1, <1>6 DEF ReplyIsOwn
<1>11. LeaveInv'
    <2>1. \A d \in Clients : cpc'[d] # "exited" <=> cpc[d] # "exited"
        BY <1>1, <1>6
    <2>2. {d \in Clients : cpc'[d] # "exited"} = {d \in Clients : cpc[d] # "exited"}
        BY <2>1
    <2> QED
        BY <1>6, <2>2 DEF LeaveInv
<1>12. \E q \in Seq(Addresses) : QueueInv(q)'
    BY <1>1, <1>2, <1>3, <1>5, <1>6, SendQueue
<1> QED
    BY <1>7, <1>8, <1>9, <1>10, <1>11, <1>12

-------------------------------------------------------------------------------
(* Taking the reply, which frees the request.                              *)
LEMMA Freed ==
    ASSUME IInv, NEW a \in alloc, Free(a)
    PROVE  /\ alloc' = alloc \ {a} /\ AllocInv'
           /\ req' \in [Addresses -> Request \cup {NULL}]
           /\ \A b \in alloc : b # a => b \in alloc' /\ req'[b] = req[b]
<1>1. /\ alloc' = alloc \ {a} /\ req' = [req EXCEPT ![a] = NULL] /\ a \in Addresses
      /\ alloc \in SUBSET Addresses
    BY Types DEF Free, IInv
<1>2. /\ req' \in [Addresses -> Request \cup {NULL}]
      /\ \A b \in Addresses : b # a => req'[b] = req[b]
    BY <1>1, Types DEF IInv
<1> QED
    BY <1>1, <1>2 DEF AllocInv, IInv

(* The client frees its own request, which the server has left. *)
LEMMA GetReplyIInv ==
    ASSUME IInv, NEW c \in Clients, GetReply(c)
    PROVE  IInv'
<1> USE DEF IInv
<1> DEFINE a == mine[c]
<1>1. /\ cpc[c] = "wait" /\ req[a].done
      /\ string' = [string EXCEPT ![c] = req[a].text] /\ Free(a)
      /\ mine' = [mine EXCEPT ![c] = NULL] /\ loop' = [loop EXCEPT ![c] = 0]
      /\ cpc' = [cpc EXCEPT ![c] = IF string'[c] = 0 THEN "leave" ELSE "write"]
      /\ UNCHANGED <<serverVars, first, last, running, wakeServer, mainVars, history>>
    BY DEF GetReply, ReplyReady, CopyReply
<1>2. /\ a \in alloc /\ IsRead(a) /\ req[a].prompt = c
      /\ req[a].text = answer[c] /\ unprinted[c] = 0
    BY <1>1 DEF ClientInv
<1>3. UNCHANGED <<spc, current, lines, client_threads, client_mutex, clients_done, mpc, counter,
                  unprinted, answer>>
    BY <1>1 DEF serverVars, mainVars, history
<1> HIDE DEF a
<1>4. /\ alloc' = alloc \ {a} /\ AllocInv'
      /\ req' \in [Addresses -> Request \cup {NULL}]
      /\ \A b \in alloc : b # a => b \in alloc' /\ req'[b] = req[b]
    BY <1>1, <1>2, Freed
<1>5. /\ mine' \in [Clients -> Addresses \cup {NULL}]
      /\ loop' \in [Clients -> 0 .. Loops] /\ loop'[c] = 0
      /\ string' \in [Clients -> 0 .. MaxLines] /\ string'[c] = answer[c]
      /\ \A d \in Clients : d # c =>
            mine'[d] = mine[d] /\ loop'[d] = loop[d] /\ string'[d] = string[d]
    <2>1. answer[c] \in 0 .. MaxLines /\ 0 \in 0 .. Loops
        BY Types
    <2> QED
        BY <1>1, <1>2, <2>1, Types
<1>6. /\ cpc' \in [Clients -> {"off", "read", "wait", "write", "leave", "exited"}]
      /\ cpc'[c] \in {"leave", "write"}
      /\ \A d \in Clients : d # c => cpc'[d] = cpc[d]
    BY <1>1, Types
<1>7. TypeOK'
    BY <1>1, <1>3, <1>4, <1>5, <1>6, Types DEF TypeOK
<1>8. \A b \in alloc : b # a /\ IsRead(b) /\ Awaited(b) =>
            /\ req[b].prompt \in Clients /\ req[b].prompt # c
            /\ cpc'[req[b].prompt] = "wait" /\ mine'[req[b].prompt] = b
    <2> SUFFICES ASSUME NEW b \in alloc, b # a, IsRead(b), Awaited(b)
                 PROVE  /\ req[b].prompt \in Clients /\ req[b].prompt # c
                        /\ cpc'[req[b].prompt] = "wait" /\ mine'[req[b].prompt] = b
        OBVIOUS
    <2>1. req[b].prompt \in Clients /\ req[b].prompt # c
        BY RequestIs DEF Awaited, AllocInv, a
    <2> QED
        BY <1>5, <1>6, <2>1 DEF Awaited
<1>9. \A s \in Servers : spc[s] \in {"operate", "finish"} => current[s] \in alloc /\ current[s] # a
    BY <1>1 DEF ServerInv
<1>10. ServerInv'
    <2>1. ASSUME NEW s \in Servers, spc[s] \in {"operate", "finish"}
          PROVE  /\ current[s] \in alloc' /\ ~req'[current[s]].done
                 /\ req'[current[s]].operation = "read" =>
                       /\ cpc'[req'[current[s]].prompt] = "wait"
                       /\ mine'[req'[current[s]].prompt] = current[s]
                       /\ spc[s] = "finish" =>
                             /\ req'[current[s]].text = answer[req'[current[s]].prompt]
                             /\ unprinted[req'[current[s]].prompt] = 0
        BY <1>4, <1>8, <1>9, <2>1 DEF ServerInv, IsRead
    <2> QED
        BY <1>1, <1>3, <2>1 DEF ServerInv, IsRead, Awaited
<1>11. ClientInv'
    <2>1. ASSUME NEW d \in Clients, d # c, cpc[d] = "wait" PROVE mine[d] # a
        BY <1>2, <2>1 DEF ClientInv
    <2>2. cpc'[c] = "write" => unprinted'[c] <= loop'[c] /\ loop'[c] < Loops
        BY <1>2, <1>3, <1>5, TtyServerAssumption
    <2>3. ASSUME NEW d \in Clients, d # c
          PROVE  /\ cpc'[d] = "wait" =>
                      /\ mine'[d] \in alloc' /\ req'[mine'[d]].operation = "read"
                      /\ req'[mine'[d]].prompt = d
                      /\ req'[mine'[d]].done =>
                            req'[mine'[d]].text = answer'[d] /\ unprinted'[d] = 0
                 /\ cpc'[d] = "write" => unprinted'[d] <= loop'[d] /\ loop'[d] < Loops
        <3>1. /\ cpc'[d] = cpc[d] /\ mine'[d] = mine[d] /\ loop'[d] = loop[d]
              /\ unprinted' = unprinted /\ answer' = answer
            BY <1>3, <1>5, <1>6, <2>3
        <3>2. /\ cpc[d] = "wait" =>
                      /\ mine[d] \in alloc /\ req[mine[d]].operation = "read"
                      /\ req[mine[d]].prompt = d
                      /\ req[mine[d]].done => req[mine[d]].text = answer[d] /\ unprinted[d] = 0
              /\ cpc[d] = "write" => unprinted[d] <= loop[d] /\ loop[d] < Loops
            BY DEF ClientInv, IsRead
        <3>3. cpc[d] = "wait" => mine[d] \in alloc' /\ req'[mine[d]] = req[mine[d]]
            BY <1>4, <2>1, <2>3, <3>2
        <3> QED
            BY <3>1, <3>2, <3>3
    <2> QED
        BY <1>6, <2>2, <2>3 DEF ClientInv, IsRead
<1>12. ReplyIsOwn'
    BY <1>3, <1>5, <1>6 DEF ReplyIsOwn
<1>13. LeaveInv'
    <2>1. {d \in Clients : cpc'[d] # "exited"} = {d \in Clients : cpc[d] # "exited"}
        BY <1>1, <1>6
    <2> QED
        BY <1>3, <2>1 DEF LeaveInv
<1>14. \E q \in Seq(Addresses) : QueueInv(q)'
    <2>1. PICK q \in Seq(Addresses) : QueueInv(q)
        OBVIOUS
    <2>2. \A j \in 1 .. Len(q) : q[j] \in alloc /\ q[j] # a
        BY <1>1, <2>1 DEF QueueInv, Ordered
    <2>3. \A j \in 1 .. Len(q) : q[j] \in alloc' /\ req'[q[j]].done = req[q[j]].done
        BY <1>4, <2>2
    <2>4. \A b \in alloc' :
              /\ req'[b].next = req[b].next
              /\ req'[b].operation = req[b].operation
              /\ req'[b].prompt = req[b].prompt
        BY <1>4
    <2>5. \A s \in Servers : spc[s] = "operate" => spc'[s] = "operate" /\ current[s] \in alloc'
        BY <1>3, <1>4, <1>9
    <2>6. \A j \in 1 .. Len(q) : IsRead(q[j]) /\ Awaited(q[j]) =>
                cpc'[req[q[j]].prompt] = "wait" /\ mine'[req[q[j]].prompt] = q[j]
        BY <1>8, <2>2
    <2>7. QueueInv(q)'
        BY <1>1, <1>3, <1>4, <2>1, <2>3, <2>4, <2>5, <2>6, QueueFrame
    <2> QED
        BY <2>7
<1> QED
    BY <1>4, <1>7, <1>10, <1>11, <1>12, <1>13, <1>14

-------------------------------------------------------------------------------
(* The server finishes a request: the client may take the reply to a read. *)
LEMMA FinishIInv ==
    ASSUME IInv, NEW s \in Servers, FinishRequest(s)
    PROVE  IInv'
<1> USE DEF IInv
<1> DEFINE a == current[s]
<1>1. /\ spc[s] = "finish"
      /\ IF IsRead(a) THEN MarkDone(a) /\ UNCHANGED alloc ELSE Free(a)
      /\ current' = [current EXCEPT ![s] = NULL] /\ spc' = [spc EXCEPT ![s] = "top"]
      /\ UNCHANGED <<first, last, running, wakeServer, lines, cpc, mine, string, loop,
                     client_threads, client_mutex, clients_done, mpc, counter, unprinted, answer>>
    BY DEF FinishRequest, Synchronous, IsRead, clientVars, mainVars, history
<1>2. /\ a \in alloc /\ ~req[a].done
      /\ IsRead(a) => /\ Awaited(a) /\ req[a].text = answer[req[a].prompt]
                      /\ unprinted[req[a].prompt] = 0
    BY <1>1 DEF ServerInv
<1> HIDE DEF a
<1>3. /\ spc' \in [Servers -> {"off", "top", "wait", "operate", "finish"}]
      /\ current' \in [Servers -> Addresses \cup {NULL}]
      /\ \A t \in Servers : t # s => spc'[t] = spc[t] /\ current'[t] = current[t]
      /\ spc'[s] = "top"
    BY <1>1, Types
<1>4. \A t \in Servers : t # s => spc[t] = "off"
    BY <1>1 DEF ServerInv
<1>5. /\ req' \in [Addresses -> Request \cup {NULL}]
      /\ alloc' \subseteq alloc /\ AllocInv'
      /\ \A b \in alloc : b # a => b \in alloc' /\ req'[b] = req[b]
      /\ \A b \in alloc' :
            /\ req'[b].next = req[b].next
            /\ req'[b].operation = req[b].operation
            /\ req'[b].prompt = req[b].prompt
            /\ req'[b].text = req[b].text
      /\ IsRead(a) => a \in alloc'
    <2>1. CASE IsRead(a)
        <3>1. PICK woken \in CondSignal(req[a].cv) :
                req' = [req EXCEPT ![a].done = TRUE, ![a].cv = woken]
            BY <1>1, <2>1 DEF MarkDone
        <3>2. req[a] \in Request /\ a \in Addresses /\ alloc \in SUBSET Addresses
            BY <1>2, Types DEF AllocInv
        <3>3. woken \in SUBSET Clients
            BY <3>1, <3>2, RequestIs DEF CondSignal
        <3> DEFINE n == [req[a] EXCEPT !.done = TRUE, !.cv = woken]
        <3>4. /\ n \in Request /\ n.next = req[a].next /\ n.operation = req[a].operation
              /\ n.prompt = req[a].prompt /\ n.text = req[a].text
            BY <3>2, <3>3 DEF Request
        <3>5. req' = [req EXCEPT ![a] = n]
            BY <3>1, <3>2, Types
        <3> HIDE DEF n
        <3>6. /\ req' \in [Addresses -> Request \cup {NULL}] /\ req'[a] = n
              /\ \A b \in Addresses : b # a => req'[b] = req[b]
            BY <3>2, <3>4, <3>5, Types
        <3>7. alloc' = alloc
            BY <1>1, <2>1
        <3> QED
            BY <1>2, <3>2, <3>4, <3>6, <3>7 DEF AllocInv
    <2>2. CASE ~IsRead(a)
        BY <1>1, <1>2, <2>2, Freed
    <2> QED
        BY <2>1, <2>2
<1>6. TypeOK'
    <2>1. alloc' \in SUBSET Addresses
        BY <1>5, Types
    <2> QED
        BY <1>1, <1>3, <1>5, <2>1 DEF TypeOK
<1>7. ServerInv'
    BY <1>1, <1>3, <1>4, Types DEF ServerInv
<1>8. ClientInv'
    <2>1. ASSUME NEW d \in Clients, cpc[d] = "wait"
          PROVE  /\ mine[d] \in alloc' /\ req'[mine[d]].operation = "read"
                 /\ req'[mine[d]].prompt = d
                 /\ req'[mine[d]].done => req'[mine[d]].text = answer[d] /\ unprinted[d] = 0
        <3>1. /\ mine[d] \in alloc /\ IsRead(mine[d]) /\ req[mine[d]].prompt = d
              /\ req[mine[d]].done => req[mine[d]].text = answer[d] /\ unprinted[d] = 0
            BY <2>1 DEF ClientInv
        <3>2. CASE mine[d] = a
            BY <1>2, <1>5, <3>1, <3>2 DEF IsRead
        <3>3. CASE mine[d] # a
            BY <1>5, <3>1, <3>3 DEF IsRead
        <3> QED
            BY <3>2, <3>3
    <2> QED
        BY <1>1, <2>1 DEF ClientInv, IsRead
<1>9. ReplyIsOwn' /\ LeaveInv'
    BY <1>1 DEF ReplyIsOwn, LeaveInv
<1>10. \E q \in Seq(Addresses) : QueueInv(q)'
    <2>1. PICK q \in Seq(Addresses) : QueueInv(q)
        OBVIOUS
    <2>2. \A i \in 1 .. Len(q) : q[i] \in alloc /\ q[i] # a
        BY <1>1, <2>1 DEF QueueInv, Ordered, a
    <2>3. \A i \in 1 .. Len(q) : q[i] \in alloc' /\ req'[q[i]].done = req[q[i]].done
        BY <1>5, <2>2
    <2>4. \A t \in Servers : /\ spc'[t] \in {"operate", "finish"} =>
                                  spc'[t] = spc[t] /\ current'[t] = current[t]
                             /\ spc[t] = "operate" =>
                                  spc'[t] = "operate" /\ current[t] \in alloc'
        BY <1>1, <1>3, <1>4
    <2>5. \A i \in 1 .. Len(q) : IsRead(q[i]) /\ Awaited(q[i]) =>
                cpc'[req[q[i]].prompt] = "wait" /\ mine'[req[q[i]].prompt] = q[i]
        BY <1>1 DEF Awaited
    <2>6. QueueInv(q)'
        BY <1>1, <1>5, <2>1, <2>3, <2>4, <2>5, QueueFrame
    <2> QED
        BY <2>6
<1> QED
    BY <1>5, <1>6, <1>7, <1>8, <1>9, <1>10

(* The server takes the first request of the queue.                        *)
LEMMA PopIInv ==
    ASSUME IInv, NEW s \in Servers, PopRequest(s)
    PROVE  IInv'
<1> USE DEF IInv
<1>1. /\ spc[s] \in {"top", "wait"} /\ first # NULL
      /\ current' = [current EXCEPT ![s] = first]
      /\ first' = req[first].next
      /\ last' = IF first' = NULL THEN NULL ELSE last
      /\ spc' = [spc EXCEPT ![s] = "operate"]
      /\ UNCHANGED <<alloc, req, running, wakeServer, lines, cpc, mine, string, loop,
                     client_threads, client_mutex, clients_done, mpc, counter, unprinted, answer>>
    BY DEF PopRequest, ServerHasLock, clientVars, mainVars, history
<1>2. PICK q \in Seq(Addresses) : QueueInv(q)
    OBVIOUS
<1>3. /\ q # <<>> /\ Len(q) \in Nat /\ Len(q) >= 1 /\ first = q[1]
      /\ last = q[Len(q)] /\ req[last].next = NULL
    BY <1>1, <1>2, ListEnds
<1> DEFINE p == Tail(q)
<1>4. /\ p \in Seq(Addresses) /\ Len(p) = Len(q) - 1
      /\ \A i \in 1 .. Len(p) : p[i] = q[i + 1] /\ i + 1 \in 1 .. Len(q) /\ i + 1 # 1
      /\ p = <<>> <=> Len(q) = 1
    <2>1. /\ p \in Seq(Addresses) /\ Len(p) = Len(q) - 1
          /\ \A i \in 1 .. Len(p) : p[i] = q[i + 1]
        BY <1>3, HeadTailProperties
    <2> HIDE DEF p
    <2>2. \A i \in 1 .. Len(p) : i + 1 \in 1 .. Len(q) /\ i + 1 # 1
        BY <1>3, <2>1
    <2>3. p = <<>> <=> Len(p) = 0
        BY <2>1, EmptySeq
    <2> QED
        BY <1>3, <2>1, <2>2, <2>3
<1> HIDE DEF p
<1>5. \A i \in 1 .. Len(q) : i = 1 \/ (i - 1 \in 1 .. Len(p) /\ p[i - 1] = q[i])
    <2> SUFFICES ASSUME NEW i \in 1 .. Len(q), i # 1
                 PROVE  i - 1 \in 1 .. Len(p) /\ p[i - 1] = q[i]
        OBVIOUS
    <2>1. i - 1 \in 1 .. Len(p) /\ (i - 1) + 1 = i
        BY <1>3, <1>4
    <2> QED
        BY <1>4, <2>1
<1>6. \A t \in Servers : t # s => spc[t] = "off"
    BY <1>1 DEF ServerInv
<1>7. /\ spc' \in [Servers -> {"off", "top", "wait", "operate", "finish"}]
      /\ current' \in [Servers -> Addresses \cup {NULL}]
      /\ \A t \in Servers : t # s => spc'[t] = "off"
      /\ spc'[s] = "operate" /\ current'[s] = q[1]
    <2>1. current' = [current EXCEPT ![s] = q[1]] /\ q[1] \in Addresses
        BY <1>1, <1>3
    <2> QED
        BY <1>1, <1>6, <2>1, Types
<1>8. 1 \in 1 .. Len(q)
    BY <1>3
<1>9. /\ q[1] \in alloc /\ ~req[q[1]].done
      /\ IsRead(q[1]) => Awaited(q[1])
    BY <1>2, <1>8 DEF QueueInv, Ordered
<1>10. /\ p = <<>> => first' = NULL /\ last' = NULL
       /\ p # <<>> => first' = p[1] /\ last' = p[Len(p)] /\ req[p[Len(p)]].next = NULL
    <2>1. CASE Len(q) = 1
        <3>1. p = <<>>
            BY <1>4, <2>1
        <3>2. req[first].next = NULL
            BY <1>3, <2>1
        <3> QED
            BY <1>1, <3>1, <3>2
    <2>2. CASE Len(q) # 1
        <3>1. /\ 1 \in 1 .. Len(q) - 1 /\ 1 \in 1 .. Len(p) /\ Len(p) \in 1 .. Len(p)
              /\ Len(p) + 1 = Len(q) /\ p # <<>>
            BY <1>3, <1>4, <2>2
        <3>2. req[q[1]].next = q[1 + 1] /\ p[1] = q[1 + 1] /\ p[Len(p)] = q[Len(q)]
            BY <1>2, <1>4, <3>1 DEF QueueInv, Linked
        <3>3. first' = p[1] /\ first' # NULL
            BY <1>1, <1>3, <1>4, <3>1, <3>2, Types
        <3> QED
            BY <1>1, <1>3, <3>1, <3>2, <3>3
    <2> QED
        BY <2>1, <2>2
<1>11. TypeOK'
    <2>1. first' \in Addresses \cup {NULL} /\ last' \in Addresses \cup {NULL}
        BY <1>1, <1>3, <1>9, RequestIs, Types DEF AllocInv
    <2> QED
        BY <1>1, <1>7, <2>1 DEF TypeOK
<1>12. AllocInv' /\ ClientInv' /\ ReplyIsOwn' /\ LeaveInv'
    BY <1>1 DEF AllocInv, ClientInv, ReplyIsOwn, LeaveInv, IsRead
<1>13. ServerInv'
    <2>1. running
        BY <1>1 DEF ServerInv
    <2>2. ASSUME NEW t \in Servers, spc'[t] \in {"operate", "finish"}
          PROVE  /\ current'[t] \in alloc' /\ ~req'[current'[t]].done
                 /\ IsRead(current[t])' => Awaited(current[t])'
                 /\ spc'[t] # "finish"
        <3>1. t = s /\ current'[t] = q[1] /\ spc'[t] = "operate"
            BY <1>7, <2>2
        <3> QED
            BY <1>1, <1>9, <3>1 DEF IsRead, Awaited
    <2> QED
        BY <1>1, <1>7, <2>1, <2>2 DEF ServerInv
<1>14. Linked(p)'
    <2>1. \A i, j \in 1 .. Len(p) : p[i] = p[j] => i = j
        <3> SUFFICES ASSUME NEW i \in 1 .. Len(p), NEW j \in 1 .. Len(p), p[i] = p[j]
                     PROVE  i = j
            OBVIOUS
        <3>1. i + 1 = j + 1
            BY <1>2, <1>4 DEF QueueInv, Linked
        <3> QED
            BY <1>3, <1>4, <3>1
    <2>2. ASSUME NEW i \in 1 .. Len(p) - 1 PROVE req[p[i]].next = p[i + 1]
        <3>1. i \in 1 .. Len(p) /\ i + 1 \in 1 .. Len(p) /\ i + 1 \in 1 .. Len(q) - 1
            BY <1>3, <1>4
        <3> QED
            BY <1>2, <1>4, <3>1 DEF QueueInv, Linked
    <2> QED
        BY <1>1, <1>10, <2>1, <2>2 DEF Linked
<1>15. Ordered(p)'
    <2>1. \A i \in 1 .. Len(p) :
            /\ p[i] \in alloc' /\ ~req'[p[i]].done
            /\ IsRead(p[i])' => Awaited(p[i])'
        <3> SUFFICES ASSUME NEW i \in 1 .. Len(p)
                     PROVE  /\ p[i] \in alloc' /\ ~req'[p[i]].done
                            /\ IsRead(p[i])' => Awaited(p[i])'
            OBVIOUS
        <3>1. /\ p[i] \in alloc /\ ~req[p[i]].done
              /\ IsRead(p[i]) => Awaited(p[i])
            BY <1>2, <1>4 DEF QueueInv, Ordered
        <3> QED
            BY <1>1, <3>1 DEF IsRead, Awaited
    <2>2. ASSUME NEW i \in 1 .. Len(p), NEW j \in 1 .. Len(p), i < j,
                 req[p[i]].prompt = req[p[j]].prompt
          PROVE  ~IsRead(p[i])
        <3>1. i + 1 \in 1 .. Len(q) /\ j + 1 \in 1 .. Len(q) /\ i + 1 < j + 1
            BY <1>3, <1>4, <2>2
        <3> QED
            BY <1>2, <1>4, <2>2, <3>1 DEF QueueInv, Ordered
    <2>3. \A t \in Servers : spc'[t] \in {"operate", "finish"} => current'[t] = q[1]
        BY <1>7
    <2>4. \A i \in 1 .. Len(p) : p[i] # q[1]
        BY <1>2, <1>4, <1>8 DEF QueueInv, Linked
    <2>5. IsRead(q[1]) => \A i \in 1 .. Len(p) : req[p[i]].prompt # req[q[1]].prompt
        <3> SUFFICES ASSUME IsRead(q[1]), NEW i \in 1 .. Len(p)
                     PROVE  req[p[i]].prompt # req[q[1]].prompt
            OBVIOUS
        <3>1. i + 1 \in 1 .. Len(q) /\ 1 < i + 1 /\ p[i] = q[i + 1]
            BY <1>3, <1>4
        <3> QED
            BY <1>2, <1>8, <3>1 DEF QueueInv, Ordered
    <2> QED
        BY <1>1, <2>1, <2>2, <2>3, <2>4, <2>5 DEF Ordered, IsRead
<1>16. Counted(p)'
    <2>1. ASSUME NEW c \in Clients PROVE Writes(p, c)' = Writes(q, c)
        <3>1. \A b : (\E i \in 1 .. Len(q) : q[i] = b) <=> b = q[1] \/ \E i \in 1 .. Len(p) : p[i] = b
            BY <1>4, <1>5, <1>8
        <3>2. \A b : (\E t \in Servers : spc'[t] = "operate" /\ current'[t] = b) <=> b = q[1]
            BY <1>7
        <3>3. \A t \in Servers : spc[t] # "operate"
            BY <1>1, <1>6
        <3>4. \A b \in alloc : (b \in Writes(p, c)') <=> b \in Writes(q, c)
            BY <1>1, <3>1, <3>2, <3>3 DEF Writes, IsRead
        <3> QED
            BY <1>1, <3>4 DEF Writes
    <2> QED
        BY <1>1, <1>2, <2>1 DEF Counted, QueueInv
<1>17. QueueInv(p)'
    BY <1>14, <1>15, <1>16 DEF QueueInv
<1> QED
    BY <1>4, <1>11, <1>12, <1>13, <1>17

-------------------------------------------------------------------------------
(* The server reads a line: everything the client wrote is printed.        *)
LEMMA NothingUnprinted ==
    ASSUME IInv, NEW s \in Servers, spc[s] = "operate", IsRead(current[s])
    PROVE  unprinted[req[current[s]].prompt] = 0
<1> USE DEF IInv
<1>1. PICK q \in Seq(Addresses) : QueueInv(q)
    OBVIOUS
<1> DEFINE c == req[current[s]].prompt
<1>2. c \in Clients /\ current[s] \in alloc
    BY RequestIs DEF ServerInv, AllocInv
<1>3. \A i \in 1 .. Len(q) : req[q[i]].prompt # c
    BY <1>1 DEF QueueInv, Ordered
<1>4. \A t \in Servers : spc[t] = "operate" => t = s
    BY DEF ServerInv
<1> HIDE DEF c
<1>5. Writes(q, c) = {}
    BY <1>3, <1>4 DEF Writes
<1>6. unprinted[c] = 0
    BY <1>1, <1>2, <1>5, FS_EmptySet DEF QueueInv, Counted
<1> QED
    BY <1>6 DEF c

(* The line read is the answer to the client that waits. *)
LEMMA OperateReadIInv ==
    ASSUME IInv, NEW s \in Servers, Operate(s), IsRead(current[s])
    PROVE  IInv'
<1> USE DEF IInv
<1> DEFINE a == current[s]
           c == req[a].prompt
<1>1. /\ spc[s] = "operate" /\ spc' = [spc EXCEPT ![s] = "finish"]
      /\ UNCHANGED <<alloc, first, last, running, wakeServer, current, cpc, mine, string, loop,
                     client_threads, client_mutex, clients_done, mpc, counter, unprinted>>
    BY DEF Operate, IsRead, clientVars, mainVars
<1>2. PICK n \in 0 .. MaxLines :
        /\ req' = [req EXCEPT ![a].text = n] /\ answer' = [answer EXCEPT ![c] = n]
        /\ lines' \in 0 .. MaxLines
    <2>1. 0 \in 0 .. MaxLines
        BY Types
    <2>2. lines < MaxLines => lines + 1 \in 0 .. MaxLines
        BY Types
    <2> QED
        BY <2>1, <2>2, Types DEF Operate, IsRead
<1>3. /\ a \in alloc /\ ~req[a].done /\ Awaited(a)
    BY <1>1 DEF ServerInv
<1>4. unprinted[c] = 0
    BY <1>1, NothingUnprinted
<1>5. cpc[c] = "wait" /\ mine[c] = a /\ c \in Clients
    BY <1>3, RequestIs DEF Awaited, AllocInv
<1> DEFINE n2 == [req[a] EXCEPT !.text = n]
<1>6. /\ n2 \in Request /\ n2.next = req[a].next /\ n2.operation = req[a].operation
      /\ n2.done = req[a].done /\ n2.prompt = c /\ n2.text = n
    BY <1>3 DEF Request, AllocInv
<1>7. /\ req' \in [Addresses -> Request \cup {NULL}]
      /\ req'[a] = n2 /\ \A b \in alloc : b # a => req'[b] = req[b]
    <2>1. a \in Addresses /\ alloc \in SUBSET Addresses
        BY <1>3, Types
    <2>2. req' = [req EXCEPT ![a] = n2]
        BY <1>2, <2>1, Types
    <2> HIDE DEF n2
    <2> QED
        BY <1>6, <2>1, <2>2, Types
<1> HIDE DEF n2
<1>8. /\ \A b \in alloc : /\ req'[b] \in Request /\ req'[b].next = req[b].next
                          /\ req'[b].operation = req[b].operation
                          /\ req'[b].done = req[b].done /\ req'[b].prompt = req[b].prompt
      /\ req'[a].text = n
    BY <1>6, <1>7 DEF AllocInv
<1>9. /\ answer' \in [Clients -> 0 .. MaxLines] /\ answer'[c] = n
      /\ \A d \in Clients : d # c => answer'[d] = answer[d]
    BY <1>2, <1>5, Types
<1>10. /\ spc' \in [Servers -> {"off", "top", "wait", "operate", "finish"}]
       /\ spc'[s] = "finish" /\ \A t \in Servers : t # s => spc'[t] = "off" /\ spc[t] = "off"
    BY <1>1, Types DEF ServerInv
<1>11. TypeOK'
    BY <1>1, <1>2, <1>7, <1>9, <1>10 DEF TypeOK
<1>12. AllocInv' /\ LeaveInv'
    BY <1>1, <1>8 DEF AllocInv, LeaveInv
<1>13. ServerInv'
    <2>1. running
        BY <1>1 DEF ServerInv
    <2>2. ASSUME NEW t \in Servers, spc'[t] \in {"operate", "finish"}
          PROVE  /\ current'[t] \in alloc' /\ ~req'[current'[t]].done
                 /\ cpc'[req'[current'[t]].prompt] = "wait"
                 /\ mine'[req'[current'[t]].prompt] = current'[t]
                 /\ req'[current'[t]].text = answer'[req'[current'[t]].prompt]
                 /\ unprinted'[req'[current'[t]].prompt] = 0
        <3>1. t = s
            BY <1>10, <2>2
        <3> HIDE DEF a, c
        <3>2. current'[t] = a /\ req'[a].prompt = c
            BY <1>1, <1>3, <1>8, <3>1 DEF a, c
        <3> QED
            BY <1>1, <1>3, <1>4, <1>5, <1>8, <1>9, <3>2
    <2> QED
        BY <1>1, <1>10, <2>1, <2>2 DEF ServerInv, IsRead, Awaited
<1>14. ClientInv'
    <2>1. ASSUME NEW d \in Clients, cpc[d] = "wait"
          PROVE  /\ mine[d] \in alloc /\ req'[mine[d]].operation = "read"
                 /\ req'[mine[d]].prompt = d
                 /\ req'[mine[d]].done => req'[mine[d]].text = answer'[d] /\ unprinted[d] = 0
        <3>1. /\ mine[d] \in alloc /\ IsRead(mine[d]) /\ req[mine[d]].prompt = d
              /\ req[mine[d]].done => req[mine[d]].text = answer[d] /\ unprinted[d] = 0
            BY <2>1 DEF ClientInv
        <3>2. CASE mine[d] = a
            BY <1>3, <1>8, <3>1, <3>2 DEF IsRead
        <3>3. CASE mine[d] # a
            <4>1. d # c
                BY <1>5, <3>3
            <4> QED
                BY <1>7, <1>9, <3>1, <3>3, <4>1 DEF IsRead
        <3> QED
            BY <3>2, <3>3
    <2> QED
        BY <1>1, <2>1 DEF ClientInv, IsRead
<1>15. ReplyIsOwn'
    <2>1. \A d \in Clients : cpc[d] \in {"write", "leave"} => d # c
        BY <1>5
    <2> QED
        BY <1>1, <1>9, <2>1 DEF ReplyIsOwn
<1>16. \E q \in Seq(Addresses) : QueueInv(q)'
    <2>1. PICK q \in Seq(Addresses) : QueueInv(q)
        OBVIOUS
    <2>2. \A i \in 1 .. Len(q) : /\ q[i] \in alloc /\ ~req[q[i]].done
                                 /\ IsRead(q[i]) => Awaited(q[i])
        BY <2>1 DEF QueueInv, Ordered
    <2>3. Linked(q)'
        <3>1. Len(q) \in Nat /\ (q # <<>> => Len(q) \in 1 .. Len(q))
            OBVIOUS
        <3> QED
            BY <1>1, <1>8, <2>1, <2>2, <3>1 DEF QueueInv, Linked
    <2>4. Ordered(q)'
        <3>1. \A i \in 1 .. Len(q) :
                /\ q[i] \in alloc' /\ ~req'[q[i]].done
                /\ IsRead(q[i])' => Awaited(q[i])'
            BY <1>1, <1>8, <2>2 DEF IsRead, Awaited
        <3>2. \A i, j \in 1 .. Len(q) :
                i < j /\ req'[q[i]].prompt = req'[q[j]].prompt => ~IsRead(q[i])'
            BY <1>8, <2>1, <2>2 DEF QueueInv, Ordered, IsRead
        <3>3. \A t \in Servers : spc'[t] \in {"operate", "finish"} =>
                \A i \in 1 .. Len(q) : q[i] # current'[t]
            BY <1>1, <1>10, <2>1 DEF QueueInv, Ordered
        <3>4. \A t \in Servers : spc'[t] # "operate"
            BY <1>10
        <3> QED
            BY <3>1, <3>2, <3>3, <3>4 DEF Ordered
    <2>5. Counted(q)'
        <3>1. ASSUME NEW d \in Clients PROVE Writes(q, d)' = Writes(q, d)
            <4>1. \A b \in alloc : (b \in Writes(q, d)') <=> b \in Writes(q, d)
                BY <1>1, <1>8, <1>10 DEF Writes, IsRead
            <4> QED
                BY <1>1, <4>1 DEF Writes
        <3> QED
            BY <1>1, <2>1, <3>1 DEF Counted, QueueInv
    <2>6. QueueInv(q)'
        BY <2>3, <2>4, <2>5 DEF QueueInv
    <2> QED
        BY <2>6
<1> QED
    BY <1>11, <1>12, <1>13, <1>14, <1>15, <1>16

(* The server prints a text, which was one of those to print.              *)
LEMMA OperateWriteIInv ==
    ASSUME IInv, NEW s \in Servers, Operate(s), ~IsRead(current[s])
    PROVE  IInv'
<1> USE DEF IInv
<1>1. /\ spc[s] = "operate" /\ spc' = [spc EXCEPT ![s] = "finish"]
      /\ unprinted' = [unprinted EXCEPT ![req[current[s]].prompt] = @ - 1]
      /\ UNCHANGED <<alloc, req, first, last, running, wakeServer, current, lines, cpc, mine,
                     string, loop, client_threads, client_mutex, clients_done, mpc, counter, answer>>
    BY DEF Operate, IsRead, clientVars, mainVars
<1>2. PICK a \in alloc, c \in Clients : a = current[s] /\ c = req[a].prompt /\ ~req[a].done
    BY <1>1, RequestIs DEF ServerInv, AllocInv
<1>3. /\ spc' \in [Servers -> {"off", "top", "wait", "operate", "finish"}]
      /\ spc'[s] = "finish" /\ \A t \in Servers : t # s => spc'[t] = "off" /\ spc[t] = "off"
    BY <1>1, Types DEF ServerInv
<1>4. PICK q \in Seq(Addresses) : QueueInv(q)
    OBVIOUS
<1>5. \A i \in 1 .. Len(q) : q[i] # a
    BY <1>1, <1>2, <1>4 DEF QueueInv, Ordered
<1>6. /\ a \in Writes(q, c) /\ Writes(q, c)' = Writes(q, c) \ {a}
      /\ \A d \in Clients : d # c => Writes(q, d)' = Writes(q, d)
    <2>1. a \in Writes(q, c)
        BY <1>1, <1>2 DEF Writes
    <2>2. \A d \in Clients : \A b \in alloc : b # a =>
                (b \in Writes(q, d)' <=> b \in Writes(q, d))
        BY <1>1, <1>2, <1>3 DEF Writes, IsRead
    <2>3. \A d \in Clients : a \notin Writes(q, d)'
        BY <1>3, <1>5 DEF Writes
    <2>4. \A d \in Clients : d # c => a \notin Writes(q, d)
        BY <1>2 DEF Writes
    <2>5. \A d : Writes(q, d) \subseteq alloc /\ Writes(q, d)' \subseteq alloc
        BY <1>1 DEF Writes
    <2>6. Writes(q, c)' = Writes(q, c) \ {a}
        <3>1. /\ Writes(q, c) \subseteq alloc /\ Writes(q, c)' \subseteq alloc
              /\ a \notin Writes(q, c)'
              /\ \A b \in alloc : b # a => (b \in Writes(q, c)' <=> b \in Writes(q, c))
            BY <2>2, <2>3, <2>5
        <3> QED
            BY <3>1
    <2>7. ASSUME NEW d \in Clients, d # c PROVE Writes(q, d)' = Writes(q, d)
        <3>1. /\ Writes(q, d) \subseteq alloc /\ Writes(q, d)' \subseteq alloc
              /\ a \notin Writes(q, d) /\ a \notin Writes(q, d)'
              /\ \A b \in alloc : b # a => (b \in Writes(q, d)' <=> b \in Writes(q, d))
            BY <2>2, <2>3, <2>4, <2>5, <2>7
        <3>2. \A b \in alloc : b \in Writes(q, d)' <=> b \in Writes(q, d)
            BY <3>1
        <3> QED
            BY <3>1, <3>2
    <2> QED
        BY <2>1, <2>6, <2>7
<1>7. /\ \A d \in Clients : unprinted[d] = Cardinality(Writes(q, d))
      /\ unprinted[c] \in 0 .. Loops /\ unprinted[c] >= 1 /\ Loops \in Nat
      /\ Cardinality(Writes(q, c)') = unprinted[c] - 1
    <2>1. \A d \in Clients : unprinted[d] = Cardinality(Writes(q, d))
        BY <1>4 DEF QueueInv, Counted
    <2>2. /\ Cardinality(Writes(q, c) \ {a}) = Cardinality(Writes(q, c)) - 1
          /\ Cardinality(Writes(q, c) \ {a}) \in Nat
        BY <1>6, WritesFinite, FS_RemoveElement, FS_CardinalityType
    <2>3. unprinted[c] \in 0 .. Loops /\ Loops \in Nat
        BY <1>2, Types
    <2> QED
        BY <1>2, <1>6, <2>1, <2>2, <2>3
<1>8. /\ unprinted' \in [Clients -> 0 .. Loops] /\ unprinted'[c] = unprinted[c] - 1
      /\ \A d \in Clients : d # c => unprinted'[d] = unprinted[d]
    <2>1. unprinted[c] - 1 \in 0 .. Loops
        BY <1>7
    <2> QED
        BY <1>1, <1>2, <2>1, Types
<1>9. TypeOK'
    BY <1>1, <1>3, <1>8 DEF TypeOK
<1>10. AllocInv' /\ ReplyIsOwn' /\ LeaveInv'
    BY <1>1 DEF AllocInv, ReplyIsOwn, LeaveInv
<1>11. ServerInv'
    <2>1. running
        BY <1>1 DEF ServerInv
    <2>2. ASSUME NEW t \in Servers, spc'[t] \in {"operate", "finish"}
          PROVE  /\ current'[t] \in alloc' /\ ~req'[current'[t]].done
                 /\ req'[current'[t]].operation # "read"
        BY <1>1, <1>2, <1>3, <2>2 DEF IsRead
    <2> QED
        BY <1>1, <1>3, <2>1, <2>2 DEF ServerInv, IsRead
<1>12. ClientInv'
    <2>1. ASSUME NEW d \in Clients
          PROVE  /\ unprinted[d] = 0 => unprinted'[d] = 0
                 /\ cpc[d] = "write" => unprinted'[d] <= loop[d] /\ loop[d] < Loops
        <3>1. unprinted[d] \in Nat /\ loop[d] \in Nat
            BY Types
        <3>2. cpc[d] = "write" => unprinted[d] <= loop[d] /\ loop[d] < Loops
            BY DEF ClientInv
        <3> QED
            BY <1>7, <1>8, <3>1, <3>2
    <2> QED
        BY <1>1, <2>1 DEF ClientInv, IsRead
<1>13. QueueInv(q)'
    <2>1. Linked(q)'
        BY <1>1, <1>4 DEF QueueInv, Linked
    <2>2. Ordered(q)'
        <3>1. \A i \in 1 .. Len(q) :
                /\ q[i] \in alloc' /\ ~req'[q[i]].done
                /\ IsRead(q[i])' => Awaited(q[i])'
            BY <1>1, <1>4 DEF QueueInv, Ordered, IsRead, Awaited
        <3>2. \A i, j \in 1 .. Len(q) :
                i < j /\ req'[q[i]].prompt = req'[q[j]].prompt => ~IsRead(q[i])'
            BY <1>1, <1>4 DEF QueueInv, Ordered, IsRead
        <3>3. \A t \in Servers : spc'[t] \in {"operate", "finish"} =>
                \A i \in 1 .. Len(q) : q[i] # current'[t]
            BY <1>1, <1>2, <1>3, <1>5
        <3>4. \A t \in Servers : spc'[t] # "operate"
            BY <1>3
        <3> QED
            BY <3>1, <3>2, <3>3, <3>4 DEF Ordered
    <2>3. Counted(q)'
        BY <1>6, <1>7, <1>8 DEF Counted
    <2> QED
        BY <2>1, <2>2, <2>3 DEF QueueInv
<1> QED
    BY <1>9, <1>10, <1>11, <1>12, <1>13

-------------------------------------------------------------------------------
(* Every step preserves the invariant. *)
LEMMA NextIInv == IInv /\ [Next]_vars => IInv'
<1>1. ASSUME IInv, UNCHANGED vars PROVE IInv'
    <2>1. /\ SameRequests /\ LeaveInv' /\ TypeOK'
          /\ UNCHANGED <<first, last, running, spc, current, mine, string, loop, unprinted,
                         answer, cpc>>
        BY <1>1, Types DEF vars, serverVars, queueVars, clientVars, mainVars, history,
                           SameRequests, IInv, AllocInv, LeaveInv, TypeOK
    <2> QED
        BY <1>1, <2>1, QuietStep
<1>2. ASSUME IInv, Next PROVE IInv'
    <2>1. ASSUME NEW c \in Clients, Client(c) PROVE IInv'
        BY <1>2, <2>1, SendReadIInv, SendWriteIInv, SleepIInv, GetReplyIInv, MainIInv DEF Client
    <2>2. ASSUME NEW s \in Servers, Server(s) PROVE IInv'
        BY <1>2, <2>2, SleepIInv, PopIInv, OperateReadIInv, OperateWriteIInv, FinishIInv
           DEF Server
    <2>3. CASE MainStep \/ SpuriousWakeup
        BY <1>2, <2>3, MainIInv, SleepIInv DEF MainStep
    <2> QED
        BY <1>2, <2>1, <2>2, <2>3 DEF Next
<1> QED
    BY <1>1, <1>2

(* The list of requests is a queue, and what is in it, what the server     *)
(* works on and what the clients wait for agree.                           *)
THEOREM InvariantHolds == Spec => []IInv
<1>1. Init => IInv
    BY InitIInv
<1>2. IInv /\ [Next]_vars => IInv'
    BY NextIInv
<1> QED
    BY <1>1, <1>2, PTL DEF Spec

(* Whatever the number of clients and however malloc hands the addresses   *)
(* out again, neither side uses a request that the other has freed.        *)
THEOREM RequestsAreLive == Spec => []NoUseAfterFree
<1>1. IInv => NoUseAfterFree
    <2> SUFFICES ASSUME IInv PROVE NoUseAfterFree
        OBVIOUS
    <2>1. PICK q \in Seq(Addresses) : QueueInv(q)
        BY DEF IInv
    <2>2. first # NULL => first \in alloc /\ last \in alloc /\ req[last].next = NULL
        BY <2>1, ListEnds DEF IInv
    <2> QED
        BY <2>2 DEF IInv, NoUseAfterFree, ServerInv, ClientInv
<1> QED
    BY <1>1, InvariantHolds, PTL

(* When the server prompts a client, every text the client sent before has *)
(* been printed, because the list keeps the order of the requests.         *)
THEOREM PromptComesLast == Spec => []EchoBeforePrompt
<1>1. IInv => EchoBeforePrompt
    BY NothingUnprinted DEF EchoBeforePrompt, IsRead
<1> QED
    BY <1>1, InvariantHolds, PTL

(* The line a client works on is the one read at its own prompt, although  *)
(* all clients read from one terminal through one server.                  *)
THEOREM RepliesAreOwn == Spec => []ReplyIsOwn
<1>1. IInv => ReplyIsOwn
    BY DEF IInv
<1> QED
    BY <1>1, InvariantHolds, PTL

===============================================================================
