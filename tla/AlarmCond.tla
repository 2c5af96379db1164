------------------------------- MODULE AlarmCond -------------------------------
(***************************************************************************)
(* chap3-sync/alarm_cond.cc: main reads alarms and puts them into a list   *)
(* sorted by time; the alarm thread takes the first one out of the list    *)
(* and waits for its time or for an earlier alarm, which main announces by *)
(* changing current_alarm.                                                 *)
(*                                                                         *)
(* The alarm thread keeps alarm_mutex except while it waits; main takes it *)
(* for each insertion.  A wait that times out and the return from it are   *)
(* two steps: main may have the mutex in between.  An alarm's message is   *)
(* its identity.                                                           *)
(*                                                                         *)
(* A definition D_Variant stands before D and is D with a plausible slip:  *)
(* nothing uses it, and the properties must fail if it replaces D.         *)
(***************************************************************************)
EXTENDS Integers, FiniteSets, Sequences, Pthreads

CONSTANTS
    Alarms,
    NULL,
    Seconds,        \* what the user may ask for; sscanf also reads -1
    Start,          \* the time when the program starts
    MaxTime         \* bound on the clock

ASSUME AlarmAssumption ==
    /\ NULL \notin Alarms
    /\ Seconds \subseteq Int
    /\ Start \in Nat /\ MaxTime \in Nat /\ Start <= MaxTime
    /\ \A s \in Seconds : Start + s > 0

Thread == "alarm_thread"

VARIABLES
    now,            \* time(NULL)
    time,           \* alarm->time
    alarm_list,     \* the list, as the sequence of its alarms
    current_alarm,
    cv,             \* the threads asleep on alarm_cond
    tpc,            \* where the alarm thread is
    alarm,          \* its local variables
    expired,
    exited,         \* main met the end of its input: the process is gone
    entered,        \* history: the alarms main has inserted
    overdue,        \* history: those whose time was over when it did
    rung            \* history: the alarms that were printed, in order

threadVars == <<tpc, alarm, expired>>
vars == <<now, time, alarm_list, current_alarm, cv, threadVars, exited, entered, overdue, rung>>

Times == 1 .. 2 * MaxTime

TypeOK ==
    /\ now \in Start .. MaxTime
    /\ time \in [Alarms -> Times \cup {0}]
    /\ alarm_list \in Seq(Alarms)
    /\ current_alarm \in Times \cup {0}
    /\ cv \in SUBSET {Thread}
    /\ tpc \in {"start", "top", "wait", "timedwait", "timedout"}
    /\ alarm \in Alarms \cup {NULL}
    /\ expired \in BOOLEAN
    /\ exited \in BOOLEAN
    /\ entered \in SUBSET Alarms
    /\ overdue \in SUBSET entered
    /\ rung \in Seq(Alarms)

Init ==
    /\ now = Start
    /\ time = [a \in Alarms |-> 0]
    /\ alarm_list = <<>>
    /\ current_alarm = 0
    /\ cv = {}
    /\ tpc = "start"
    /\ alarm = NULL
    /\ expired = FALSE
    /\ exited = FALSE
    /\ entered = {}
    /\ overdue = {}
    /\ rung = <<>>

\* The mutex is free: the alarm thread waits, or has not locked it yet.
MutexFree == tpc # "top"

-------------------------------------------------------------------------------
(* alarm_insert: before the first alarm whose time is not earlier.         *)
Before_OneEarlier(list, t, when) ==
    {n \in DOMAIN list : \A m \in 1 .. n : when[list[m]] < t - 1}
Before(list, t, when) == {n \in DOMAIN list : \A m \in 1 .. n : when[list[m]] < t}

Inserted(list, a, when) ==
    LET p == Cardinality(Before(list, when[a], when))
    IN  SubSeq(list, 1, p) \o <<a>> \o SubSeq(list, p + 1, Len(list))

\* The alarm thread is told if it waits for nothing, or for a later alarm.
MustTell_OnlyWhenIdle(t) == current_alarm = 0
MustTell(t) == current_alarm = 0 \/ t < current_alarm

alarm_insert(a, when) ==
    /\ alarm_list' = Inserted(alarm_list, a, when)
    /\ IF MustTell(when[a])
         THEN /\ current_alarm' = when[Head(alarm_list')]
              /\ cv' \in CondSignal(cv)
         ELSE UNCHANGED <<current_alarm, cv>>

(* main *)
TimeOf(s) == now + s

Enter(a) ==
    /\ ~exited
    /\ a \notin entered
    /\ MutexFree
    /\ \E s \in Seconds :
          /\ now + s <= MaxTime
          /\ time' = [time EXCEPT ![a] = TimeOf(s)]
    /\ alarm_insert(a, time')
    /\ entered' = entered \cup {a}
    /\ overdue' = IF time'[a] < now THEN overdue \cup {a} ELSE overdue
    /\ UNCHANGED <<now, threadVars, exited, rung>>

EndOfInput ==
    /\ ~exited
    /\ exited' = TRUE
    /\ UNCHANGED <<now, time, alarm_list, current_alarm, cv, threadVars, entered, overdue, rung>>

-------------------------------------------------------------------------------
(* alarm_thread: the top of its loop.  The expired alarm of the last round *)
(* is printed, one that was interrupted is inserted again.                 *)
Ring(a) == rung' = Append(rung, a)

Begin ==
    /\ ~exited
    /\ tpc = "start"
    /\ tpc' = "top"
    /\ current_alarm' = 0
    /\ UNCHANGED <<now, time, alarm_list, cv, alarm, expired, exited, entered, overdue, rung>>

WaitForAny ==
    /\ ~exited
    /\ tpc = "top" \/ (tpc = "wait" /\ Thread \notin cv)
    /\ alarm_list = <<>>
    /\ cv' = CondWait(cv, Thread)
    /\ tpc' = "wait"
    /\ UNCHANGED <<now, time, alarm_list, current_alarm, alarm, expired, exited, entered,
                   overdue, rung>>

\* The first alarm leaves the list; it is printed if its time has come, and
\* otherwise waited for.
IsDue(a) == time[a] <= now

TakeFirst ==
    /\ ~exited
    /\ tpc = "top" \/ (tpc = "wait" /\ Thread \notin cv)
    /\ alarm_list # <<>>
    /\ alarm_list' = Tail(alarm_list)
    /\ IF IsDue(Head(alarm_list))
         THEN /\ Ring(Head(alarm_list))
              /\ current_alarm' = 0
              /\ tpc' = "top"
              /\ UNCHANGED <<cv, alarm>>
         ELSE /\ alarm' = Head(alarm_list)
              /\ current_alarm' = time[alarm']
              /\ cv' = CondWait(cv, Thread)
              /\ tpc' = "timedwait"
              /\ UNCHANGED rung
    /\ expired' = FALSE
    /\ UNCHANGED <<now, time, exited, entered, overdue>>

TimeOut ==
    /\ ~exited
    /\ tpc = "timedwait" /\ Thread \in cv
    /\ time[alarm] <= now
    /\ cv' = CondLeave(cv, Thread)
    /\ expired' = TRUE
    /\ tpc' = "timedout"
    /\ UNCHANGED <<now, time, alarm_list, current_alarm, alarm, exited, entered, overdue, rung>>

RingExpired ==
    /\ ~exited
    /\ tpc = "timedout"
    /\ Ring(alarm)
    /\ alarm' = NULL
    /\ current_alarm' = 0
    /\ tpc' = "top"
    /\ UNCHANGED <<now, time, alarm_list, cv, expired, exited, entered, overdue>>

\* The wait was interrupted for an earlier alarm, or for nothing.
Interrupted == current_alarm # time[alarm]

PutBack_Forgotten == UNCHANGED <<alarm_list, cv>>
PutBack ==
    /\ alarm_list' = Inserted(alarm_list, alarm, time)
    /\ cv' \in IF MustTell(time[alarm]) THEN CondSignal(cv) ELSE {cv}

WakeUp ==
    /\ ~exited
    /\ tpc = "timedwait" /\ Thread \notin cv
    /\ IF Interrupted
         THEN /\ PutBack
              /\ alarm' = NULL
              /\ current_alarm' = 0
              /\ tpc' = "top"
         ELSE /\ cv' = CondWait(cv, Thread)
              /\ UNCHANGED <<alarm_list, current_alarm, alarm, tpc>>
    /\ UNCHANGED <<now, time, expired, exited, entered, overdue, rung>>

SpuriousWakeup ==
    /\ ~exited
    /\ Thread \in cv
    /\ cv' = CondLeave(cv, Thread)
    /\ UNCHANGED <<now, time, alarm_list, current_alarm, threadVars, exited, entered, overdue, rung>>

Tick ==
    /\ ~exited
    /\ now < MaxTime
    /\ now' = now + 1
    /\ UNCHANGED <<time, alarm_list, current_alarm, cv, threadVars, exited, entered, overdue, rung>>

-------------------------------------------------------------------------------
AlarmThread == Begin \/ WaitForAny \/ TakeFirst \/ TimeOut \/ RingExpired \/ WakeUp

Next ==
    \/ \E a \in Alarms : Enter(a)
    \/ EndOfInput
    \/ AlarmThread
    \/ SpuriousWakeup
    \/ Tick

Spec == Init /\ [][Next]_vars

\* The clock goes on, and the alarm thread when it can.  A wait whose time is
\* over does time out however often it is woken for nothing before: a new call
\* with a time limit that has passed returns at once.  The user types as he
\* likes.
FairSpec == Spec /\ WF_vars(Tick) /\ WF_vars(AlarmThread) /\ SF_vars(TimeOut)

-------------------------------------------------------------------------------
Listed == {alarm_list[n] : n \in DOMAIN alarm_list}
Rung == {rung[n] : n \in DOMAIN rung}

(* Whatever interrupts the wait, an alarm is in the list once, or waited   *)
(* for, or has rung once, and in one of these places only.                 *)
EachAlarmOnce ==
    /\ TypeOK
    /\ Listed \cup Rung \cup ({alarm} \ {NULL}) = entered
    /\ Len(alarm_list) + Len(rung) + Cardinality({alarm} \ {NULL}) = Cardinality(entered)

(* The alarm thread never sleeps past the first alarm: while it sleeps for *)
(* one, no alarm in the list is earlier, and it sleeps without a time      *)
(* limit only if the list is empty.                                        *)
SleepsForEarliest ==
    Thread \in cv =>
        \A n \in DOMAIN alarm_list : alarm # NULL /\ time[alarm] <= time[alarm_list[n]]

(* An alarm never rings before its time, and when it rings no earlier one  *)
(* is left behind in the list, apart from one the user asked for when its  *)
(* time was already over.                                                  *)
RingsInOrder ==
    [][rung' # rung =>
         LET t == time[rung'[Len(rung')]] IN
         /\ t <= now
         /\ \A n \in DOMAIN alarm_list' :
               t <= time[alarm_list'[n]] \/ alarm_list'[n] \in overdue]_vars

(* Every alarm rings, if the program is not left first.                    *)
AlarmRings == \A a \in Alarms : (a \in entered) ~> (a \in Rung \/ exited)
===============================================================================
