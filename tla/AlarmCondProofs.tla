---------------------------- MODULE AlarmCondProofs ----------------------------
(* Proofs about AlarmCond, for every set of alarms, every choice of the    *)
(* times the user asks for and every bound on the clock.                   *)
EXTENDS AlarmCond, TLAPS, FiniteSetTheorems, SequenceTheorems

\* The list is sorted by time.
Sorted(list, when) ==
    \A i, j \in 1 .. Len(list) : i <= j => when[list[i]] <= when[list[j]]

\* What the list is: sorted alarms, whose time is set.
ListInv ==
    /\ IsFiniteSet(entered)
    /\ \A a \in entered : time[a] > 0
    /\ Sorted(alarm_list, time)

\* current_alarm is what the thread waits for, or an earlier alarm in the list.
CurrentInv ==
    /\ tpc \in {"timedwait", "timedout"} <=> alarm # NULL
    /\ Thread \in cv => tpc \in {"wait", "timedwait"}
    /\ tpc = "top" => current_alarm = 0
    /\ (tpc = "wait" /\ alarm_list = <<>>) => current_alarm = 0
    /\ (tpc = "wait" /\ Thread \in cv) => alarm_list = <<>>
    /\ alarm # NULL =>
            /\ 0 < current_alarm /\ current_alarm <= time[alarm]
            /\ \A n \in 1 .. Len(alarm_list) : current_alarm <= time[alarm_list[n]]
    /\ (alarm # NULL /\ Thread \in cv) => current_alarm = time[alarm]

\* The thread timed out for an alarm that is due before those in the list.
DueInv ==
    tpc = "timedout" =>
        /\ time[alarm] <= now
        /\ \A n \in 1 .. Len(alarm_list) :
              time[alarm] <= time[alarm_list[n]] \/ alarm_list[n] \in overdue

IInv ==
    /\ EachAlarmOnce
    /\ ListInv
    /\ CurrentInv
    /\ DueInv

-------------------------------------------------------------------------------
(* alarm_insert's loop stops after the alarms that are earlier: those      *)
(* positions are a prefix of the list.                                     *)
LEMMA BeforeIsPrefix ==
    ASSUME NEW list \in Seq(Alarms), NEW when, NEW t
    PROVE  \E p \in 0 .. Len(list) :
              p = Cardinality(Before(list, t, when)) /\ Before(list, t, when) = 1 .. p
<1> DEFINE D == Before(list, t, when)
           p == Cardinality(D)
<1>1. Len(list) \in Nat /\ DOMAIN list = 1 .. Len(list)
    OBVIOUS
<1>2. D \in SUBSET (1 .. Len(list))
    BY <1>1 DEF Before
<1>3. IsFiniteSet(1 .. Len(list)) /\ Cardinality(1 .. Len(list)) = Len(list)
    BY <1>1, FS_Interval
<1>4. IsFiniteSet(D) /\ p <= Len(list) /\ p \in Nat
    BY <1>2, <1>3, FS_Subset, FS_CardinalityType
<1>5. ASSUME NEW n \in D PROVE n <= p
    <2>1. n \in 1 .. Len(list) /\ 1 .. n \in SUBSET D
        BY <1>1, <1>2 DEF Before
    <2>2. Cardinality(1 .. n) = n
        BY <1>1, <2>1, FS_Interval
    <2> HIDE DEF D, p
    <2>3. Cardinality(1 .. n) <= Cardinality(D)
        BY <1>4, <2>1, FS_Subset
    <2> QED BY <2>2, <2>3 DEF p
<1>6. D \in SUBSET (1 .. p)
    BY <1>1, <1>2, <1>4, <1>5
<1>7. IsFiniteSet(1 .. p) /\ Cardinality(1 .. p) = p
    BY <1>4, FS_Interval
<1>8. D = 1 .. p
    <2> HIDE DEF D
    <2> QED BY <1>6, <1>7, FS_Subset
<1> HIDE DEF D, p
<1>9. p \in 0 .. Len(list)
    BY <1>1, <1>4
<1> QED BY <1>8, <1>9 DEF D, p

(* What alarm_insert makes of the list: the new alarm stands after those   *)
(* that are earlier.                                                       *)
LEMMA InsertedIs ==
    ASSUME NEW list \in Seq(Alarms), NEW a \in Alarms, NEW when
    PROVE  /\ Inserted(list, a, when) \in Seq(Alarms)
           /\ Len(Inserted(list, a, when)) = Len(list) + 1
           /\ \E p \in 0 .. Len(list) :
                 /\ Before(list, when[a], when) = 1 .. p
                 /\ \A i \in 1 .. Len(list) + 1 : Inserted(list, a, when)[i] =
                       IF i <= p THEN list[i] ELSE IF i = p + 1 THEN a ELSE list[i - 1]
<1>1. PICK p \in 0 .. Len(list) :
         p = Cardinality(Before(list, when[a], when)) /\ Before(list, when[a], when) = 1 .. p
    BY BeforeIsPrefix
<1> DEFINE L == Len(list)
           s1 == SubSeq(list, 1, p)
           s2 == SubSeq(list, p + 1, L)
           q == s1 \o <<a>>
           new == q \o s2
<1>2. L \in Nat /\ p \in Nat /\ p <= L /\ \A i \in 1 .. L : list[i] \in Alarms
    BY ElementOfSeq
<1>3. s1 \in Seq(Alarms) /\ Len(s1) = p /\ \A i \in 1 .. p : s1[i] = list[i]
    <2>1. \A i \in 1 .. p : list[i] \in Alarms
        BY <1>2
    <2>2. s1 \in Seq(Alarms)
        BY <1>2, <2>1, SubSeqProperties
    <2>3. Len(s1) = p
        BY <1>2
    <2>4. ASSUME NEW i \in 1 .. p PROVE s1[i] = list[i]
        BY <1>2
    <2> QED BY <2>2, <2>3, <2>4
<1>4. s2 \in Seq(Alarms) /\ Len(s2) = L - p /\ \A i \in 1 .. L - p : s2[i] = list[p + i]
    <2>1. \A i \in p + 1 .. L : list[i] \in Alarms
        BY <1>2
    <2>2. p + 1 \in Int /\ L \in Int
        BY <1>2
    <2>3. s2 \in Seq(Alarms)
        BY <2>1, <2>2, SubSeqProperties
    <2>4. Len(s2) = L - p
        BY <1>2
    <2>5. ASSUME NEW i \in 1 .. L - p PROVE s2[i] = list[p + i]
        BY <1>2
    <2> QED BY <2>3, <2>4, <2>5
<1>5. <<a>> \in Seq(Alarms) /\ Len(<<a>>) = 1 /\ <<a>>[1] = a
    OBVIOUS
<1> HIDE DEF s1, s2
<1>6. /\ q \in Seq(Alarms) /\ Len(q) = p + 1
      /\ (\A i \in 1 .. p : q[i] = list[i]) /\ q[p + 1] = a
    <2>1. /\ q \in Seq(Alarms) /\ Len(q) = Len(s1) + Len(<<a>>)
          /\ \A i \in 1 .. Len(s1) + Len(<<a>>) :
                q[i] = IF i <= Len(s1) THEN s1[i] ELSE <<a>>[i - Len(s1)]
        BY <1>3, <1>5, ConcatProperties
    <2> HIDE DEF q
    <2> QED BY <1>2, <1>3, <1>5, <2>1
<1> HIDE DEF q
<1>7. /\ new \in Seq(Alarms) /\ Len(new) = L + 1
      /\ \A i \in 1 .. L + 1 : new[i] = IF i <= p + 1 THEN q[i] ELSE s2[i - (p + 1)]
    <2>1. /\ new \in Seq(Alarms) /\ Len(new) = Len(q) + Len(s2)
          /\ \A i \in 1 .. Len(q) + Len(s2) :
                new[i] = IF i <= Len(q) THEN q[i] ELSE s2[i - Len(q)]
        BY <1>4, <1>6, ConcatProperties
    <2>2. Len(q) + Len(s2) = L + 1
        BY <1>2, <1>4, <1>6
    <2> HIDE DEF new
    <2> QED BY <1>6, <2>1, <2>2
<1>8. Inserted(list, a, when) = new
    BY <1>1 DEF Inserted, s1, s2, q
<1> HIDE DEF new
<1>9. ASSUME NEW i \in 1 .. L + 1
      PROVE  new[i] = IF i <= p THEN list[i] ELSE IF i = p + 1 THEN a ELSE list[i - 1]
    <2>4. CASE i <= p
        BY <1>2, <1>6, <1>7, <2>4
    <2>5. CASE i = p + 1
        BY <1>2, <1>6, <1>7, <2>5
    <2>6. CASE i > p + 1
        <3>1. i - (p + 1) \in 1 .. L - p /\ p + (i - (p + 1)) = i - 1
            BY <1>2, <2>6
        <3>2. new[i] = s2[i - (p + 1)]
            BY <1>2, <1>7, <2>6
        <3>3. s2[i - (p + 1)] = list[i - 1]
            BY <1>4, <3>1
        <3>4. ~(i <= p) /\ i # p + 1
            BY <1>2, <2>6
        <3> QED BY <3>2, <3>3, <3>4
    <2> QED BY <1>2, <2>4, <2>5, <2>6
<1> QED BY <1>1, <1>7, <1>8, <1>9

(* The new list holds the same alarms and the new one. *)
LEMMA InsertedHas ==
    ASSUME NEW list \in Seq(Alarms), NEW a \in Alarms, NEW when,
           NEW new, new = Inserted(list, a, when)
    PROVE  /\ \A i \in 1 .. Len(list) : \E j \in 1 .. Len(new) : new[j] = list[i]
           /\ \E j \in 1 .. Len(new) : new[j] = a
           /\ \A j \in 1 .. Len(new) : new[j] = a \/ \E i \in 1 .. Len(list) : new[j] = list[i]
<1>1. PICK p \in 0 .. Len(list) :
         \A i \in 1 .. Len(list) + 1 : new[i] =
             IF i <= p THEN list[i] ELSE IF i = p + 1 THEN a ELSE list[i - 1]
    BY InsertedIs
<1>2. Len(new) = Len(list) + 1 /\ Len(list) \in Nat
    BY InsertedIs
<1>3. ASSUME NEW i \in 1 .. Len(list) PROVE \E j \in 1 .. Len(new) : new[j] = list[i]
    <2>1. CASE i <= p
        <3>1. i \in 1 .. Len(new) /\ new[i] = list[i]
            BY <1>1, <1>2, <2>1
        <3> QED BY <3>1
    <2>2. CASE p < i
        <3>1. i + 1 \in 1 .. Len(new) /\ i + 1 > p + 1 /\ (i + 1) - 1 = i
            BY <1>2, <2>2
        <3>2. new[i + 1] = list[i]
            BY <1>1, <1>2, <3>1
        <3> QED BY <3>1, <3>2
    <2> QED BY <2>1, <2>2
<1>4. p + 1 \in 1 .. Len(new) /\ new[p + 1] = a
    BY <1>1, <1>2
<1>5. ASSUME NEW j \in 1 .. Len(new)
      PROVE  new[j] = a \/ \E i \in 1 .. Len(list) : new[j] = list[i]
    <2>1. CASE j <= p
        BY <1>1, <1>2, <2>1
    <2>2. CASE j > p + 1
        <3>1. j - 1 \in 1 .. Len(list) /\ new[j] = list[j - 1]
            BY <1>1, <1>2, <2>2
        <3> QED BY <3>1
    <2> QED BY <1>1, <1>2, <1>4, <2>1, <2>2
<1> QED BY <1>3, <1>4, <1>5

(* alarm_insert keeps the list sorted. *)
LEMMA InsertedSorted ==
    ASSUME NEW list \in Seq(Alarms), NEW a \in Alarms, NEW when \in [Alarms -> Int],
           Sorted(list, when)
    PROVE  Sorted(Inserted(list, a, when), when)
<1> DEFINE new == Inserted(list, a, when)
<1>1. PICK p \in 0 .. Len(list) :
         /\ Before(list, when[a], when) = 1 .. p
         /\ \A i \in 1 .. Len(list) + 1 : new[i] =
               IF i <= p THEN list[i] ELSE IF i = p + 1 THEN a ELSE list[i - 1]
    BY InsertedIs
<1>2. /\ Len(new) = Len(list) + 1 /\ Len(list) \in Nat /\ DOMAIN list = 1 .. Len(list)
      /\ when[a] \in Int /\ \A i \in 1 .. Len(list) : when[list[i]] \in Int
    BY InsertedIs, ElementOfSeq
<1>3. ASSUME NEW m \in 1 .. p PROVE when[list[m]] < when[a]
    <2>1. p \in Before(list, when[a], when)
        BY <1>1, <1>2
    <2> QED BY <2>1 DEF Before
<1>4. ASSUME NEW m \in p + 1 .. Len(list) PROVE when[a] <= when[list[m]]
    <2>1. m \in DOMAIN list /\ m \notin Before(list, when[a], when)
        BY <1>1, <1>2
    <2>2. PICK j \in 1 .. m : ~(when[list[j]] < when[a])
        BY <2>1 DEF Before
    <2>3. j \in 1 .. Len(list) /\ m \in 1 .. Len(list) /\ j <= m
        BY <1>2
    <2>4. when[list[j]] <= when[list[m]]
        BY <2>3 DEF Sorted
    <2> QED BY <1>2, <2>2, <2>3, <2>4
<1> HIDE DEF new
<1>5. ASSUME NEW i \in 1 .. Len(new), NEW j \in 1 .. Len(new), i <= j
      PROVE  when[new[i]] <= when[new[j]]
    <2>1. CASE j <= p
        <3>1. i \in 1 .. Len(list) /\ j \in 1 .. Len(list) /\ new[i] = list[i] /\ new[j] = list[j]
            BY <1>1, <1>2, <1>5, <2>1
        <3> QED BY <1>5, <3>1 DEF Sorted
    <2>2. CASE j = p + 1
        <3>1. new[j] = a
            BY <1>1, <1>2, <2>2
        <3>2. CASE i <= p
            <4>1. i \in 1 .. p /\ i \in 1 .. Len(list) /\ new[i] = list[i]
                BY <1>1, <1>2, <3>2
            <4> QED BY <1>2, <1>3, <3>1, <4>1
        <3>3. CASE i = j
            BY <1>2, <3>1, <3>3
        <3> QED BY <1>5, <2>2, <3>2, <3>3
    <2>3. CASE j > p + 1
        <3>1. j - 1 \in p + 1 .. Len(list) /\ j - 1 \in 1 .. Len(list) /\ new[j] = list[j - 1]
            BY <1>1, <1>2, <2>3
        <3>2. CASE i <= p
            <4>1. i \in 1 .. p /\ i \in 1 .. Len(list) /\ i <= j - 1 /\ new[i] = list[i]
                BY <1>1, <1>2, <1>5, <2>3, <3>2
            <4> QED BY <3>1, <4>1 DEF Sorted
        <3>3. CASE i = p + 1
            <4>1. new[i] = a
                BY <1>1, <1>2, <3>3
            <4> QED BY <1>4, <3>1, <4>1
        <3>4. CASE i > p + 1
            <4>1. i - 1 \in 1 .. Len(list) /\ i - 1 <= j - 1 /\ new[i] = list[i - 1]
                BY <1>1, <1>2, <1>5, <3>4
            <4> QED BY <3>1, <4>1 DEF Sorted
        <3> QED BY <3>2, <3>3, <3>4
    <2> QED BY <1>2, <2>1, <2>2, <2>3
<1> QED BY <1>5 DEF Sorted, new

-------------------------------------------------------------------------------
(* How the alarm the thread waits for counts. *)
LEMMA WaitingCounts ==
    ASSUME NEW x
    PROVE  /\ x = NULL => {x} \ {NULL} = {} /\ Cardinality({x} \ {NULL}) = 0
           /\ x # NULL => {x} \ {NULL} = {x} /\ Cardinality({x} \ {NULL}) = 1
           /\ Cardinality({x} \ {NULL}) \in Nat
<1>1. CASE x = NULL
    <2>1. {x} \ {NULL} = {}
        BY <1>1
    <2> QED BY <1>1, <2>1, FS_EmptySet
<1>2. CASE x # NULL
    <2>1. {x} \ {NULL} = {x}
        BY <1>2
    <2> QED BY <1>2, <2>1, FS_Singleton
<1> QED BY <1>1, <1>2

(* What an inductive state says of the types. *)
LEMMA Types ==
    ASSUME IInv
    PROVE  /\ TypeOK
           /\ time \in [Alarms -> Int] /\ now \in Int /\ current_alarm \in Int
           /\ alarm_list \in Seq(Alarms) /\ Len(alarm_list) \in Nat
           /\ DOMAIN alarm_list = 1 .. Len(alarm_list)
           /\ Listed = {alarm_list[n] : n \in 1 .. Len(alarm_list)}
           /\ \A n \in 1 .. Len(alarm_list) : alarm_list[n] \in Alarms /\ alarm_list[n] \in entered
           /\ rung \in Seq(Alarms) /\ Len(rung) \in Nat
           /\ alarm # NULL => alarm \in Alarms /\ alarm \in entered
           /\ IsFiniteSet(entered) /\ Cardinality(entered) \in Nat
<1>1. TypeOK
    BY DEF IInv, EachAlarmOnce
<1>2. /\ now \in Start .. MaxTime
      /\ time \in [Alarms -> Times \cup {0}] /\ current_alarm \in Times \cup {0}
      /\ alarm_list \in Seq(Alarms) /\ rung \in Seq(Alarms)
      /\ alarm \in Alarms \cup {NULL}
    BY <1>1 DEF TypeOK
<1>3. Times \cup {0} \in SUBSET Int
    BY AlarmAssumption DEF Times
<1>4. time \in [Alarms -> Int] /\ now \in Int /\ current_alarm \in Int
    BY <1>2, <1>3, AlarmAssumption
<1>5. Len(alarm_list) \in Nat /\ DOMAIN alarm_list = 1 .. Len(alarm_list) /\ Len(rung) \in Nat
    BY <1>2
<1>6. \A n \in 1 .. Len(alarm_list) : alarm_list[n] \in Alarms
    BY <1>2, ElementOfSeq
<1>7. Listed \cup Rung \cup ({alarm} \ {NULL}) = entered
    BY DEF IInv, EachAlarmOnce
<1>8. \A n \in 1 .. Len(alarm_list) : alarm_list[n] \in entered
    BY <1>5, <1>7 DEF Listed
<1>9. alarm # NULL => alarm \in entered
    BY <1>7
<1>10. IsFiniteSet(entered) /\ Cardinality(entered) \in Nat
    BY FS_CardinalityType DEF IInv, ListInv
<1> QED BY <1>1, <1>2, <1>4, <1>5, <1>6, <1>8, <1>9, <1>10 DEF Listed

(* The condition variable has one sleeper at most: a signal wakes it. *)
LEMMA SignalWakes ==
    ASSUME TypeOK, NEW c \in CondSignal(cv)
    PROVE  c = {}
BY DEF TypeOK, CondSignal

(* What the first alarm of a sorted list is. *)
LEMMA HeadIsEarliest ==
    ASSUME NEW list \in Seq(Alarms), list # <<>>, NEW when, Sorted(list, when)
    PROVE  /\ Head(list) = list[1] /\ Head(list) \in Alarms
           /\ Tail(list) \in Seq(Alarms) /\ Len(Tail(list)) = Len(list) - 1 /\ 0 < Len(list)
           /\ \A n \in 1 .. Len(list) : when[Head(list)] <= when[list[n]]
           /\ \A n \in 1 .. Len(list) - 1 : n + 1 \in 1 .. Len(list) /\ Tail(list)[n] = list[n + 1]
           /\ Sorted(Tail(list), when)
<1>1. Len(list) \in Nat /\ 0 < Len(list)
    OBVIOUS
<1>2. /\ Head(list) = list[1] /\ Head(list) \in Alarms
      /\ Tail(list) \in Seq(Alarms) /\ Len(Tail(list)) = Len(list) - 1
      /\ \A n \in 1 .. Len(list) - 1 : Tail(list)[n] = list[n + 1]
    BY HeadTailProperties
<1>3. 1 \in 1 .. Len(list) /\ \A n \in 1 .. Len(list) : 1 <= n
    BY <1>1
<1>4. \A n \in 1 .. Len(list) : when[Head(list)] <= when[list[n]]
    BY <1>2, <1>3 DEF Sorted
<1>5. \A n \in 1 .. Len(list) - 1 : n + 1 \in 1 .. Len(list)
    BY <1>1
<1>6. ASSUME NEW i \in 1 .. Len(list) - 1, NEW j \in 1 .. Len(list) - 1, i <= j
      PROVE  when[Tail(list)[i]] <= when[Tail(list)[j]]
    <2>1. i + 1 \in 1 .. Len(list) /\ j + 1 \in 1 .. Len(list) /\ i + 1 <= j + 1
        BY <1>1, <1>6
    <2> QED BY <1>2, <2>1 DEF Sorted
<1>7. Sorted(Tail(list), when)
    BY <1>2, <1>6 DEF Sorted
<1> QED BY <1>1, <1>2, <1>4, <1>5, <1>7

(* alarm_insert adds its alarm to the list. *)
LEMMA InsertedListed ==
    ASSUME alarm_list \in Seq(Alarms), NEW a \in Alarms, NEW when,
           alarm_list' = Inserted(alarm_list, a, when)
    PROVE  Listed' = Listed \cup {a}
<1> DEFINE new == alarm_list'
           I == DOMAIN alarm_list
           J == DOMAIN new
<1>1. new \in Seq(Alarms)
    BY InsertedIs
<1>2. I = 1 .. Len(alarm_list) /\ J = 1 .. Len(new)
    BY <1>1
<1>3. \A i \in 1 .. Len(alarm_list) : \E j \in 1 .. Len(new) : new[j] = alarm_list[i]
    BY InsertedHas
<1>4. \E j \in 1 .. Len(new) : new[j] = a
    BY InsertedHas
<1>5. \A j \in 1 .. Len(new) : new[j] = a \/ \E i \in 1 .. Len(alarm_list) : new[j] = alarm_list[i]
    BY InsertedHas
<1>6. Listed' = {new[n] : n \in J} /\ Listed = {alarm_list[n] : n \in I}
    BY DEF Listed
<1> HIDE DEF new, I, J
<1>7. \A i \in I : \E j \in J : new[j] = alarm_list[i]
    BY <1>2, <1>3
<1>8. \E j \in J : new[j] = a
    BY <1>2, <1>4
<1>9. \A j \in J : new[j] = a \/ \E i \in I : new[j] = alarm_list[i]
    BY <1>2, <1>5
<1>10. {new[n] : n \in J} = {alarm_list[n] : n \in I} \cup {a}
    BY <1>7, <1>8, <1>9
<1> QED BY <1>6, <1>10

(* The initial state satisfies the invariant. *)
LEMMA InitIInv == Init => IInv
<1> SUFFICES ASSUME Init PROVE IInv
    OBVIOUS
<1> USE DEF Init
<1>1. TypeOK
    <2>1. now \in Start .. MaxTime
        BY AlarmAssumption
    <2>2. time \in [Alarms -> Times \cup {0}] /\ alarm_list \in Seq(Alarms) /\ rung \in Seq(Alarms)
        OBVIOUS
    <2>3. expired \in BOOLEAN /\ exited \in BOOLEAN
        BY Zenon
    <2> QED BY <2>1, <2>2, <2>3 DEF TypeOK
<1>2. EachAlarmOnce
    <2>1. Listed = {} /\ Rung = {}
        BY DEF Listed, Rung
    <2>2. {alarm} \ {NULL} = {} /\ Cardinality({alarm} \ {NULL}) = 0
        BY WaitingCounts
    <2>3. Cardinality(entered) = 0 /\ Len(alarm_list) = 0 /\ Len(rung) = 0
        BY FS_EmptySet
    <2> QED BY <1>1, <2>1, <2>2, <2>3 DEF EachAlarmOnce
<1>3. ListInv
    BY FS_EmptySet DEF ListInv, Sorted
<1>4. CurrentInv
    BY DEF CurrentInv
<1>5. DueInv
    BY DEF DueInv
<1> QED BY <1>2, <1>3, <1>4, <1>5 DEF IInv

(* main enters an alarm. *)
LEMMA EnterIInv == ASSUME NEW a \in Alarms PROVE IInv /\ Enter(a) => IInv'
<1> SUFFICES ASSUME IInv, Enter(a) PROVE IInv'
    OBVIOUS
<1>0. /\ TypeOK /\ a \notin entered /\ tpc # "top"
      /\ alarm_list' = Inserted(alarm_list, a, time')
      /\ entered' = entered \cup {a}
      /\ overdue' = IF time'[a] < now THEN overdue \cup {a} ELSE overdue
      /\ UNCHANGED <<now, tpc, alarm, expired, exited, rung>>
    BY Types DEF Enter, alarm_insert, threadVars, MutexFree
<1>1. PICK s \in Seconds : now + s <= MaxTime /\ time' = [time EXCEPT ![a] = now + s]
    BY DEF Enter, TimeOf
<1>2. now + s \in Times /\ now + s \in Int /\ now + s > 0
    <2>1. now \in Start .. MaxTime /\ s \in Int /\ Start + s > 0 /\ Start \in Nat /\ MaxTime \in Nat
        BY <1>0, AlarmAssumption DEF TypeOK
    <2> QED BY <1>1, <2>1 DEF Times
<1>3. /\ time' \in [Alarms -> Times \cup {0}] /\ time' \in [Alarms -> Int]
      /\ time'[a] = now + s /\ \A x \in Alarms \ {a} : time'[x] = time[x]
    BY <1>0, <1>1, <1>2, Types DEF TypeOK
<1>4. \A n \in 1 .. Len(alarm_list) : time'[alarm_list[n]] = time[alarm_list[n]] /\ alarm_list[n] # a
    BY <1>0, <1>3, Types
<1>5. /\ alarm_list' \in Seq(Alarms) /\ Len(alarm_list') = Len(alarm_list) + 1
      /\ alarm_list' # <<>>
    <2>1. alarm_list \in Seq(Alarms) /\ Len(alarm_list) \in Nat
        BY Types
    <2>2. alarm_list' \in Seq(Alarms) /\ Len(alarm_list') = Len(alarm_list) + 1
        BY <1>0, <2>1, InsertedIs
    <2> QED BY <2>1, <2>2
<1>6. Sorted(alarm_list, time')
    BY <1>4 DEF IInv, ListInv, Sorted
<1>7. Sorted(alarm_list', time')
    BY <1>0, <1>3, <1>6, Types, InsertedSorted
<1>7a. alarm_list \in Seq(Alarms)
    BY Types
<1>8. \A j \in 1 .. Len(alarm_list') :
         alarm_list'[j] = a \/ \E i \in 1 .. Len(alarm_list) : alarm_list'[j] = alarm_list[i]
    BY <1>0, <1>7a, InsertedHas
<1>9. \E j \in 1 .. Len(alarm_list') : alarm_list'[j] = a
    BY <1>0, <1>7a, InsertedHas
<1>10. \A x \in entered' : x \in Alarms /\ time'[x] > 0
    BY <1>0, <1>2, <1>3 DEF IInv, ListInv, TypeOK
<1>11. ListInv'
    BY <1>0, <1>7, <1>10, FS_AddElement DEF IInv, ListInv
<1>12. /\ Head(alarm_list') \in Alarms /\ Head(alarm_list') = alarm_list'[1]
       /\ \A n \in 1 .. Len(alarm_list') : time'[Head(alarm_list')] <= time'[alarm_list'[n]]
    BY <1>5, <1>7, HeadIsEarliest
<1>13. Head(alarm_list') \in entered'
    <2>1. 1 \in 1 .. Len(alarm_list')
        BY <1>5, Types
    <2> QED BY <1>0, <1>8, <1>12, <2>1, Types
<1>14. \/ /\ MustTell(time'[a]) /\ current_alarm' = time'[Head(alarm_list')]
          /\ cv' = {}
       \/ ~MustTell(time'[a]) /\ current_alarm' = current_alarm /\ cv' = cv
    BY <1>0, SignalWakes DEF Enter, alarm_insert
<1>15. TypeOK'
    <2>1. current_alarm' \in Times \cup {0} /\ cv' \in SUBSET {Thread}
        BY <1>0, <1>3, <1>12, <1>14 DEF TypeOK
    <2>2. entered' \in SUBSET Alarms /\ overdue' \in SUBSET entered'
        BY <1>0 DEF TypeOK
    <2> QED BY <1>0, <1>3, <1>5, <2>1, <2>2 DEF TypeOK
<1>16. EachAlarmOnce'
    <2>1. Listed' = Listed \cup {a}
        BY <1>0, <1>7a, InsertedListed
    <2>2. Rung' = Rung
        BY <1>0 DEF Rung
    <2>3. Cardinality(entered') = Cardinality(entered) + 1
        BY <1>0, Types, FS_AddElement
    <2>4. Cardinality({alarm} \ {NULL}) \in Nat
        BY WaitingCounts
    <2>5. Len(alarm_list') + Len(rung) + Cardinality({alarm} \ {NULL}) = Cardinality(entered')
        BY <1>5, <2>3, <2>4, Types DEF IInv, EachAlarmOnce
    <2>6. Listed' \cup Rung' \cup ({alarm} \ {NULL}) = entered'
        BY <1>0, <2>1, <2>2 DEF IInv, EachAlarmOnce
    <2> QED BY <1>0, <1>15, <2>5, <2>6 DEF EachAlarmOnce
<1>17. CurrentInv'
    <2>1. ASSUME alarm # NULL
          PROVE  /\ 0 < current_alarm' /\ current_alarm' <= time'[alarm]
                 /\ \A n \in 1 .. Len(alarm_list') : current_alarm' <= time'[alarm_list'[n]]
                 /\ Thread \in cv' => current_alarm' = time'[alarm]
        <3>1. /\ alarm \in Alarms /\ time'[alarm] = time[alarm]
              /\ 0 < current_alarm /\ current_alarm <= time[alarm]
              /\ \A n \in 1 .. Len(alarm_list) : current_alarm <= time[alarm_list[n]]
              /\ Thread \in cv => current_alarm = time[alarm]
            BY <1>0, <1>3, <2>1, Types DEF IInv, CurrentInv
        <3>2. CASE MustTell(time'[a])
            <4>1. current_alarm' = time'[Head(alarm_list')] /\ cv' = {}
                BY <1>14, <3>2
            <4>2. time'[a] < current_alarm
                BY <3>1, <3>2, Types DEF MustTell
            <4>3. current_alarm' <= time'[a]
                BY <1>9, <1>12, <4>1
            <4>4. current_alarm' \in Int /\ time'[a] \in Int /\ time[alarm] \in Int /\ current_alarm \in Int
                BY <1>3, <1>12, <3>1, <4>1, Types
            <4>5. 0 < current_alarm'
                BY <1>10, <1>13, <4>1
            <4>6. current_alarm' <= time'[alarm]
                BY <3>1, <4>2, <4>3, <4>4
            <4> QED BY <1>12, <4>1, <4>5, <4>6
        <3>3. CASE ~MustTell(time'[a])
            <4>1. current_alarm' = current_alarm /\ cv' = cv
                BY <1>14, <3>3
            <4>2. current_alarm <= time'[a]
                BY <1>2, <1>3, <3>3, Types DEF MustTell
            <4>3. \A n \in 1 .. Len(alarm_list') : current_alarm <= time'[alarm_list'[n]]
                BY <1>4, <1>8, <3>1, <4>2
            <4> QED BY <3>1, <4>1, <4>3
        <3> QED BY <3>2, <3>3
    <2>2. Thread \in cv' => Thread \in cv /\ ~MustTell(time'[a])
        BY <1>14
    <2>3. ~(tpc = "wait" /\ Thread \in cv')
        BY <2>2 DEF IInv, CurrentInv, MustTell
    <2> QED BY <1>0, <1>5, <2>1, <2>2, <2>3 DEF IInv, CurrentInv
<1>18. DueInv'
    <2> SUFFICES ASSUME tpc = "timedout"
                 PROVE  /\ time'[alarm] <= now
                        /\ \A n \in 1 .. Len(alarm_list') :
                              time'[alarm] <= time'[alarm_list'[n]] \/ alarm_list'[n] \in overdue'
        BY <1>0 DEF DueInv
    <2>1. alarm # NULL
        BY DEF IInv, CurrentInv
    <2>2. alarm \in Alarms /\ time'[alarm] = time[alarm] /\ time[alarm] <= now /\ time[alarm] \in Int
        BY <1>0, <1>3, <2>1, Types DEF IInv, DueInv
    <2>3. time[alarm] <= time'[a] \/ a \in overdue'
        <3>1. time'[a] \in Int /\ now \in Int
            BY <1>2, <1>3, Types
        <3>2. CASE time'[a] < now
            BY <1>0, <3>2
        <3>3. CASE ~(time'[a] < now)
            BY <2>2, <3>1, <3>3
        <3> QED BY <3>2, <3>3
    <2>4. \A n \in 1 .. Len(alarm_list) :
             time[alarm] <= time'[alarm_list[n]] \/ alarm_list[n] \in overdue'
        BY <1>0, <1>4 DEF IInv, DueInv
    <2> QED BY <1>8, <2>2, <2>3, <2>4
<1> QED BY <1>11, <1>16, <1>17, <1>18 DEF IInv

(* A step that touches neither the list nor what is entered or rung. *)
LEMMA SameAlarms ==
    ASSUME IInv, TypeOK', UNCHANGED <<time, alarm_list, alarm, entered, rung>>
    PROVE  EachAlarmOnce' /\ ListInv'
<1>1. Listed' = Listed /\ Rung' = Rung
    BY DEF Listed, Rung
<1>2. EachAlarmOnce'
    BY <1>1 DEF IInv, EachAlarmOnce
<1>3. ListInv'
    BY DEF IInv, ListInv, Sorted
<1> QED BY <1>2, <1>3

(* The end of the input, the clock and the thread's start. *)
LEMMA OutsideIInv == IInv /\ (EndOfInput \/ Tick \/ Begin) => IInv'
<1> SUFFICES ASSUME IInv, EndOfInput \/ Tick \/ Begin PROVE IInv'
    OBVIOUS
<1>0. TypeOK /\ now \in Int /\ time \in [Alarms -> Int]
    BY Types
<1>1. UNCHANGED <<time, alarm_list, cv, alarm, entered, overdue, rung>>
    BY DEF EndOfInput, Tick, Begin, threadVars
<1>2. now' \in Start .. MaxTime /\ (now' = now \/ now' = now + 1)
    <2>1. now \in Start .. MaxTime /\ Start \in Nat /\ MaxTime \in Nat
        BY <1>0, AlarmAssumption DEF TypeOK
    <2> QED BY <2>1 DEF EndOfInput, Tick, Begin
<1>3. expired' \in BOOLEAN /\ exited' \in BOOLEAN
    BY <1>0, Zenon DEF TypeOK, EndOfInput, Tick, Begin, threadVars
<1>4. /\ \/ tpc' = tpc /\ current_alarm' = current_alarm
         \/ tpc = "start" /\ tpc' = "top" /\ current_alarm' = 0
    BY DEF EndOfInput, Tick, Begin, threadVars
<1>5. TypeOK'
    BY <1>0, <1>1, <1>2, <1>3, <1>4 DEF TypeOK
<1>6. EachAlarmOnce' /\ ListInv'
    BY <1>1, <1>5, SameAlarms
<1>7. CurrentInv'
    BY <1>0, <1>1, <1>4 DEF IInv, CurrentInv, TypeOK
<1>8. DueInv'
    <2> SUFFICES ASSUME tpc' = "timedout"
                 PROVE  /\ time[alarm] <= now'
                        /\ \A n \in 1 .. Len(alarm_list) :
                              time[alarm] <= time[alarm_list[n]] \/ alarm_list[n] \in overdue
        BY <1>1 DEF DueInv
    <2>1. tpc = "timedout"
        BY <1>4
    <2>2. time[alarm] <= now /\ alarm \in Alarms
        BY <2>1, Types DEF IInv, DueInv, CurrentInv
    <2>3. time[alarm] <= now'
        BY <1>0, <1>2, <2>2
    <2> QED BY <2>1, <2>3 DEF IInv, DueInv
<1> QED BY <1>6, <1>7, <1>8 DEF IInv

(* The thread waits for any alarm, is woken for nothing, or times out. *)
LEMMA WaitingIInv == IInv /\ (WaitForAny \/ SpuriousWakeup \/ TimeOut) => IInv'
<1> SUFFICES ASSUME IInv, WaitForAny \/ SpuriousWakeup \/ TimeOut PROVE IInv'
    OBVIOUS
<1>0. TypeOK
    BY Types
<1>1. UNCHANGED <<now, time, alarm_list, current_alarm, alarm, exited, entered, overdue, rung>>
    BY DEF WaitForAny, SpuriousWakeup, TimeOut, threadVars
<1>2. expired' \in BOOLEAN /\ exited' \in BOOLEAN
    BY <1>0, Zenon DEF TypeOK, WaitForAny, SpuriousWakeup, TimeOut, threadVars
<1>3. TypeOK'
    BY <1>0, <1>1, <1>2 DEF TypeOK, WaitForAny, SpuriousWakeup, TimeOut, threadVars, CondWait, CondLeave
<1>4. EachAlarmOnce' /\ ListInv'
    BY <1>1, <1>3, SameAlarms
<1>5. CASE WaitForAny
    <2>1. /\ tpc = "top" \/ tpc = "wait"
          /\ alarm_list = <<>> /\ tpc' = "wait"
        BY <1>5 DEF WaitForAny
    <2>2. CurrentInv'
        BY <1>1, <2>1 DEF IInv, CurrentInv
    <2>3. DueInv'
        BY <2>1 DEF DueInv
    <2> QED BY <1>4, <2>2, <2>3 DEF IInv
<1>6. CASE SpuriousWakeup
    <2>1. tpc' = tpc /\ Thread \notin cv'
        BY <1>6 DEF SpuriousWakeup, threadVars, CondLeave
    <2>2. CurrentInv'
        BY <1>1, <2>1 DEF IInv, CurrentInv
    <2>3. DueInv'
        BY <1>1, <2>1 DEF IInv, DueInv
    <2> QED BY <1>4, <2>2, <2>3 DEF IInv
<1>7. CASE TimeOut
    <2>1. tpc = "timedwait" /\ tpc' = "timedout" /\ Thread \in cv /\ Thread \notin cv' /\ time[alarm] <= now
        BY <1>7 DEF TimeOut, CondLeave
    <2>2. CurrentInv'
        BY <1>1, <2>1 DEF IInv, CurrentInv
    <2>3. alarm # NULL
        BY <2>1 DEF IInv, CurrentInv
    <2>4. \A n \in 1 .. Len(alarm_list) : time[alarm] <= time[alarm_list[n]]
        BY <2>1, <2>3 DEF IInv, CurrentInv
    <2>5. DueInv'
        BY <1>1, <2>1, <2>4 DEF DueInv
    <2> QED BY <1>4, <2>2, <2>5 DEF IInv
<1> QED BY <1>5, <1>6, <1>7

(* What is printed is added to what has rung. *)
LEMMA RingAdds ==
    ASSUME rung \in Seq(Alarms), NEW a \in Alarms, Ring(a)
    PROVE  /\ rung' \in Seq(Alarms) /\ Len(rung') = Len(rung) + 1 /\ rung'[Len(rung')] = a
           /\ Rung' = Rung \cup {a}
<1> DEFINE new == rung'
<1>1. /\ new \in Seq(Alarms) /\ Len(new) = Len(rung) + 1 /\ Len(rung) \in Nat
      /\ \A i \in 1 .. Len(rung) : new[i] = rung[i]
      /\ new[Len(rung) + 1] = a
    BY AppendProperties DEF Ring
<1> DEFINE I == DOMAIN rung
           J == DOMAIN new
<1>2. Rung' = {new[n] : n \in J} /\ Rung = {rung[n] : n \in I}
    BY DEF Rung
<1>3. I = 1 .. Len(rung) /\ J = 1 .. Len(rung) + 1
    BY <1>1
<1>4. Len(rung) + 1 \in J /\ (\A i \in I : i \in J) /\ \A j \in J : j \in I \/ j = Len(rung) + 1
    BY <1>1, <1>3
<1> HIDE DEF new, I, J
<1>5. \A i \in I : \E j \in J : new[j] = rung[i]
    BY <1>1, <1>3, <1>4
<1>6. \E j \in J : new[j] = a
    BY <1>1, <1>4
<1>7. \A j \in J : new[j] = a \/ \E i \in I : new[j] = rung[i]
    BY <1>1, <1>3, <1>4
<1>8. {new[n] : n \in J} = {rung[n] : n \in I} \cup {a}
    BY <1>5, <1>6, <1>7
<1> QED BY <1>1, <1>2, <1>8 DEF new

(* The alarms of a list without its first one. *)
LEMMA TailHas ==
    ASSUME NEW list \in Seq(Alarms), list # <<>>, NEW new, new = Tail(list)
    PROVE  /\ new \in Seq(Alarms)
           /\ \A i \in 1 .. Len(new) : \E j \in 1 .. Len(list) : list[j] = new[i]
           /\ \E j \in 1 .. Len(list) : list[j] = Head(list)
           /\ \A j \in 1 .. Len(list) :
                 list[j] = Head(list) \/ \E i \in 1 .. Len(new) : list[j] = new[i]
<1> DEFINE L == Len(list)
<1>1. L \in Nat /\ 0 < L
    OBVIOUS
<1>2. /\ new \in Seq(Alarms) /\ Len(new) = L - 1 /\ Head(list) = list[1]
      /\ \A n \in 1 .. L - 1 : new[n] = list[n + 1]
    BY HeadTailProperties
<1>3. \A i \in 1 .. Len(new) : i + 1 \in 1 .. L /\ list[i + 1] = new[i]
    BY <1>1, <1>2
<1>4. 1 \in 1 .. L /\ list[1] = Head(list)
    BY <1>1, <1>2
<1>5. ASSUME NEW j \in 1 .. L
      PROVE  list[j] = Head(list) \/ \E i \in 1 .. Len(new) : list[j] = new[i]
    <2>1. CASE j = 1
        BY <1>4, <2>1
    <2>2. CASE j > 1
        <3>1. j - 1 \in 1 .. Len(new) /\ (j - 1) + 1 = j
            BY <1>1, <1>2, <2>2
        <3>2. list[j] = new[j - 1]
            BY <1>3, <3>1
        <3> QED BY <3>1, <3>2
    <2> QED BY <1>1, <2>1, <2>2
<1> QED BY <1>2, <1>3, <1>4, <1>5

(* The first alarm leaves the list. *)
LEMMA TailListed ==
    ASSUME alarm_list \in Seq(Alarms), alarm_list # <<>>, alarm_list' = Tail(alarm_list)
    PROVE  Listed = Listed' \cup {Head(alarm_list)}
<1> DEFINE new == alarm_list'
           h == Head(alarm_list)
           I == DOMAIN new
           J == DOMAIN alarm_list
<1>1. new \in Seq(Alarms)
    BY TailHas
<1>2. I = 1 .. Len(new) /\ J = 1 .. Len(alarm_list)
    BY <1>1
<1>3. \A i \in 1 .. Len(new) : \E j \in 1 .. Len(alarm_list) : alarm_list[j] = new[i]
    BY TailHas
<1>4. \E j \in 1 .. Len(alarm_list) : alarm_list[j] = h
    BY TailHas
<1>5. \A j \in 1 .. Len(alarm_list) : alarm_list[j] = h \/ \E i \in 1 .. Len(new) : alarm_list[j] = new[i]
    BY TailHas
<1>6. Listed' = {new[n] : n \in I} /\ Listed = {alarm_list[n] : n \in J}
    BY DEF Listed
<1> HIDE DEF new, h, I, J
<1>7. \A i \in I : \E j \in J : alarm_list[j] = new[i]
    BY <1>2, <1>3
<1>8. \E j \in J : alarm_list[j] = h
    BY <1>2, <1>4
<1>9. \A j \in J : alarm_list[j] = h \/ \E i \in I : alarm_list[j] = new[i]
    BY <1>2, <1>5
<1>10. {alarm_list[n] : n \in J} = {new[n] : n \in I} \cup {h}
    BY <1>7, <1>8, <1>9
<1> QED BY <1>6, <1>10 DEF h

(* The thread takes the first alarm out of the list. *)
LEMMA TakeFirstIInv == IInv /\ TakeFirst => IInv'
<1> SUFFICES ASSUME IInv, TakeFirst PROVE IInv'
    OBVIOUS
<1> DEFINE h == Head(alarm_list)
<1>0. /\ TypeOK /\ tpc \in {"top", "wait"} /\ Thread \notin cv /\ alarm = NULL
      /\ alarm_list # <<>> /\ alarm_list' = Tail(alarm_list)
      /\ UNCHANGED <<now, time, exited, entered, overdue>> /\ expired' = FALSE
    BY Types DEF TakeFirst, IInv, CurrentInv
<1>1. alarm_list \in Seq(Alarms) /\ Sorted(alarm_list, time)
    BY Types DEF IInv, ListInv
<1>2. /\ h = alarm_list[1] /\ h \in Alarms /\ 0 < Len(alarm_list)
      /\ alarm_list' \in Seq(Alarms) /\ Len(alarm_list') = Len(alarm_list) - 1
      /\ \A n \in 1 .. Len(alarm_list) : time[h] <= time[alarm_list[n]]
      /\ \A n \in 1 .. Len(alarm_list) - 1 :
             n + 1 \in 1 .. Len(alarm_list) /\ alarm_list'[n] = alarm_list[n + 1]
      /\ Sorted(alarm_list', time)
    BY <1>0, <1>1, HeadIsEarliest
<1>3. \A n \in 1 .. Len(alarm_list') : time[h] <= time[alarm_list'[n]]
    BY <1>2
<1>4. Listed = Listed' \cup {h} /\ h \in entered
    <2>1. Listed = Listed' \cup {h}
        BY <1>0, <1>1, TailListed
    <2>2. 1 \in 1 .. Len(alarm_list)
        BY <1>2, Types
    <2> QED BY <1>2, <2>1, <2>2, Types
<1>5. ListInv'
    BY <1>0, <1>2 DEF IInv, ListInv
<1>6. expired' \in BOOLEAN
    BY <1>0, Zenon
<1>7. Len(alarm_list') + 1 = Len(alarm_list) /\ Len(alarm_list) \in Nat /\ Len(alarm_list') \in Nat
    BY <1>2, Types
<1>8. /\ Listed \cup Rung = entered
      /\ Len(alarm_list) + Len(rung) = Cardinality(entered) /\ Len(rung) \in Nat
    <2>1. {alarm} \ {NULL} = {} /\ Cardinality({alarm} \ {NULL}) = 0
        BY <1>0, WaitingCounts
    <2> QED BY <2>1, <1>7, Types DEF IInv, EachAlarmOnce
<1>9. CASE IsDue(h)
    <2>1. /\ Ring(h) /\ current_alarm' = 0 /\ tpc' = "top" /\ cv' = cv /\ alarm' = NULL
        BY <1>0, <1>9 DEF TakeFirst
    <2>2. rung' \in Seq(Alarms) /\ Len(rung') = Len(rung) + 1 /\ Rung' = Rung \cup {h}
        BY <1>0, <1>2, <2>1, RingAdds DEF TypeOK
    <2>3. TypeOK'
        BY <1>0, <1>2, <1>6, <2>1, <2>2 DEF TypeOK
    <2>4. {alarm'} \ {NULL} = {} /\ Cardinality({alarm'} \ {NULL}) = 0
        BY <2>1, WaitingCounts
    <2>5. Len(alarm_list') + Len(rung') + 0 = Cardinality(entered')
        BY <1>0, <1>7, <1>8, <2>2
    <2>6. Listed' \cup Rung' \cup {} = entered'
        BY <1>0, <1>4, <1>8, <2>2
    <2>7. EachAlarmOnce'
        BY <2>3, <2>4, <2>5, <2>6 DEF EachAlarmOnce
    <2>8. CurrentInv'
        BY <1>0, <2>1 DEF CurrentInv
    <2>9. DueInv'
        BY <2>1 DEF DueInv
    <2> QED BY <1>5, <2>7, <2>8, <2>9 DEF IInv
<1>10. CASE ~IsDue(h)
    <2>1. /\ alarm' = h /\ current_alarm' = time[h] /\ cv' = cv \cup {Thread}
          /\ tpc' = "timedwait" /\ rung' = rung
        BY <1>0, <1>10 DEF TakeFirst, CondWait
    <2>2. TypeOK'
        BY <1>0, <1>2, <1>6, <2>1 DEF TypeOK
    <2>3. h # NULL /\ 0 < time[h] /\ time[h] \in Int
        BY <1>2, <1>4, AlarmAssumption, Types DEF IInv, ListInv
    <2>4. {alarm'} \ {NULL} = {h} /\ Cardinality({alarm'} \ {NULL}) = 1
        BY <2>1, <2>3, WaitingCounts
    <2>5. Len(alarm_list') + Len(rung') + 1 = Cardinality(entered')
        BY <1>0, <1>7, <1>8, <2>1
    <2>6. Listed' \cup Rung' \cup {h} = entered'
        BY <1>0, <1>4, <1>8, <2>1 DEF Rung
    <2>7. EachAlarmOnce'
        BY <2>2, <2>4, <2>5, <2>6 DEF EachAlarmOnce
    <2>8. CurrentInv'
        BY <1>0, <1>3, <2>1, <2>3 DEF CurrentInv
    <2>9. DueInv'
        BY <2>1 DEF DueInv
    <2> QED BY <1>5, <2>7, <2>8, <2>9 DEF IInv
<1> QED BY <1>9, <1>10

(* The thread prints the alarm it waited for. *)
LEMMA RingExpiredIInv == IInv /\ RingExpired => IInv'
<1> SUFFICES ASSUME IInv, RingExpired PROVE IInv'
    OBVIOUS
<1>0. /\ TypeOK /\ tpc = "timedout" /\ Thread \notin cv /\ alarm # NULL /\ alarm \in Alarms
      /\ Ring(alarm) /\ alarm' = NULL /\ current_alarm' = 0 /\ tpc' = "top"
      /\ UNCHANGED <<now, time, alarm_list, cv, expired, exited, entered, overdue>>
    BY Types DEF RingExpired, IInv, CurrentInv
<1>1. rung' \in Seq(Alarms) /\ Len(rung') = Len(rung) + 1 /\ Rung' = Rung \cup {alarm}
    BY <1>0, RingAdds DEF TypeOK
<1>2. TypeOK'
    BY <1>0, <1>1 DEF TypeOK
<1>3. {alarm} \ {NULL} = {alarm} /\ Cardinality({alarm} \ {NULL}) = 1
    BY <1>0, WaitingCounts
<1>4. {alarm'} \ {NULL} = {} /\ Cardinality({alarm'} \ {NULL}) = 0
    BY <1>0, WaitingCounts
<1>5. Len(alarm_list) + Len(rung) + 1 = Cardinality(entered) /\ Listed \cup Rung \cup {alarm} = entered
    BY <1>3 DEF IInv, EachAlarmOnce
<1>6. Len(alarm_list') + Len(rung') + 0 = Cardinality(entered')
    BY <1>0, <1>1, <1>5, Types
<1>7. Listed' \cup Rung' \cup {} = entered'
    BY <1>0, <1>1, <1>5 DEF Listed
<1>8. EachAlarmOnce'
    BY <1>2, <1>4, <1>6, <1>7 DEF EachAlarmOnce
<1>9. ListInv'
    BY <1>0 DEF IInv, ListInv, Sorted
<1>10. CurrentInv' /\ DueInv'
    BY <1>0 DEF CurrentInv, DueInv
<1> QED BY <1>8, <1>9, <1>10 DEF IInv

(* The thread is woken before its time. *)
LEMMA WakeUpIInv == IInv /\ WakeUp => IInv'
<1> SUFFICES ASSUME IInv, WakeUp PROVE IInv'
    OBVIOUS
<1>0. /\ TypeOK /\ tpc = "timedwait" /\ Thread \notin cv /\ alarm # NULL /\ alarm \in Alarms
      /\ UNCHANGED <<now, time, expired, exited, entered, overdue, rung>>
    BY Types DEF WakeUp, IInv, CurrentInv
<1>1. CASE Interrupted
    <2>1. /\ alarm_list' = Inserted(alarm_list, alarm, time)
          /\ alarm' = NULL /\ current_alarm' = 0 /\ tpc' = "top"
          /\ cv' = cv
        <3>1. cv = {}
            BY <1>0 DEF TypeOK
        <3> QED BY <1>1, <3>1 DEF WakeUp, PutBack, CondSignal
    <2>2. alarm_list \in Seq(Alarms) /\ time \in [Alarms -> Int] /\ Sorted(alarm_list, time)
        BY Types DEF IInv, ListInv
    <2>3. alarm_list' \in Seq(Alarms) /\ Len(alarm_list') = Len(alarm_list) + 1
        BY <1>0, <2>1, <2>2, InsertedIs
    <2>4. Sorted(alarm_list', time)
        BY <1>0, <2>1, <2>2, InsertedSorted
    <2>5. Listed' = Listed \cup {alarm}
        BY <1>0, <2>1, <2>2, InsertedListed
    <2>6. TypeOK'
        BY <1>0, <2>1, <2>3 DEF TypeOK
    <2>7. {alarm} \ {NULL} = {alarm} /\ Cardinality({alarm} \ {NULL}) = 1
        BY <1>0, WaitingCounts
    <2>8. {alarm'} \ {NULL} = {} /\ Cardinality({alarm'} \ {NULL}) = 0
        BY <2>1, WaitingCounts
    <2>9. Len(alarm_list) + Len(rung) + 1 = Cardinality(entered) /\ Listed \cup Rung \cup {alarm} = entered
        BY <2>7 DEF IInv, EachAlarmOnce
    <2>10. Len(alarm_list') + Len(rung') + 0 = Cardinality(entered')
        BY <1>0, <2>3, <2>9, Types
    <2>11. Listed' \cup Rung' \cup {} = entered'
        BY <1>0, <2>5, <2>9 DEF Rung
    <2>12. EachAlarmOnce'
        BY <2>6, <2>8, <2>10, <2>11 DEF EachAlarmOnce
    <2>13. ListInv'
        BY <1>0, <2>4 DEF IInv, ListInv
    <2>14. CurrentInv' /\ DueInv'
        BY <1>0, <2>1 DEF CurrentInv, DueInv
    <2> QED BY <2>12, <2>13, <2>14 DEF IInv
<1>2. CASE ~Interrupted
    <2>1. /\ cv' = cv \cup {Thread} /\ UNCHANGED <<alarm_list, current_alarm, alarm, tpc>>
          /\ current_alarm = time[alarm]
        BY <1>2 DEF WakeUp, CondWait, Interrupted
    <2>2. TypeOK'
        BY <1>0, <2>1 DEF TypeOK
    <2>3. EachAlarmOnce' /\ ListInv'
        BY <1>0, <2>1, <2>2, SameAlarms
    <2>4. CurrentInv'
        BY <1>0, <2>1 DEF IInv, CurrentInv
    <2>5. DueInv'
        BY <1>0, <2>1 DEF DueInv
    <2> QED BY <2>3, <2>4, <2>5 DEF IInv
<1> QED BY <1>1, <1>2

-------------------------------------------------------------------------------
(* The invariant is inductive. *)
LEMMA NextIInv == IInv /\ [Next]_vars => IInv'
<1> SUFFICES ASSUME IInv, [Next]_vars PROVE IInv'
    OBVIOUS
<1>1. ASSUME NEW a \in Alarms, Enter(a) PROVE IInv'
    BY <1>1, EnterIInv
<1>2. CASE EndOfInput \/ Tick \/ Begin
    BY <1>2, OutsideIInv
<1>3. CASE WaitForAny \/ SpuriousWakeup \/ TimeOut
    BY <1>3, WaitingIInv
<1>4. CASE TakeFirst
    BY <1>4, TakeFirstIInv
<1>5. CASE RingExpired
    BY <1>5, RingExpiredIInv
<1>6. CASE WakeUp
    BY <1>6, WakeUpIInv
<1>7. CASE UNCHANGED vars
    <2> USE <1>7 DEF vars, threadVars
    <2>1. TypeOK'
        BY Types DEF TypeOK
    <2>2. EachAlarmOnce' /\ ListInv'
        BY <2>1, SameAlarms
    <2>3. CurrentInv' /\ DueInv'
        BY DEF IInv, CurrentInv, DueInv
    <2> QED BY <2>2, <2>3 DEF IInv
<1> QED BY <1>1, <1>2, <1>3, <1>4, <1>5, <1>6, <1>7 DEF Next, AlarmThread

(* The invariant holds in every reachable state. *)
THEOREM InvariantHolds == Spec => []IInv
BY InitIInv, NextIInv, PTL DEF Spec

(* However waits are interrupted, no alarm is lost, and none is listed or  *)
(* rung twice.                                                             *)
THEOREM NoAlarmLost == Spec => []EachAlarmOnce
<1>1. IInv => EachAlarmOnce
    BY DEF IInv
<1> QED BY <1>1, InvariantHolds, PTL

(* alarm_insert's test of current_alarm is enough: the thread never sleeps *)
(* past an earlier alarm.                                                  *)
THEOREM NeverOversleeps == Spec => []SleepsForEarliest
<1>1. IInv => SleepsForEarliest
    <2> SUFFICES ASSUME IInv, Thread \in cv, NEW n \in 1 .. Len(alarm_list)
                 PROVE  alarm # NULL /\ time[alarm] <= time[alarm_list[n]]
        BY Types DEF SleepsForEarliest
    <2>1. tpc # "wait"
        BY Types DEF IInv, CurrentInv
    <2>2. alarm # NULL
        BY <2>1 DEF IInv, CurrentInv
    <2> QED BY <2>2 DEF IInv, CurrentInv
<1> QED BY <1>1, InvariantHolds, PTL

(* Alarms ring neither early nor out of order. *)
THEOREM OrderOfRinging == Spec => RingsInOrder
<1> DEFINE Ordered ==
       rung' # rung =>
         LET t == time[rung'[Len(rung')]] IN
         /\ t <= now
         /\ \A n \in DOMAIN alarm_list' :
               t <= time[alarm_list'[n]] \/ alarm_list'[n] \in overdue
<1>1. IInv /\ [Next]_vars => [Ordered]_vars
    <2> SUFFICES ASSUME IInv, Next, rung' # rung
                 PROVE  /\ time[rung'[Len(rung')]] <= now
                        /\ \A n \in DOMAIN alarm_list' :
                              \/ time[rung'[Len(rung')]] <= time[alarm_list'[n]]
                              \/ alarm_list'[n] \in overdue
        OBVIOUS
    <2>1. CASE TakeFirst
        <3> DEFINE h == Head(alarm_list)
        <3>1. Ring(h) /\ time[h] <= now /\ alarm_list # <<>> /\ alarm_list' = Tail(alarm_list)
            BY <2>1 DEF TakeFirst, IsDue
        <3>2. alarm_list \in Seq(Alarms) /\ Sorted(alarm_list, time)
            BY Types DEF IInv, ListInv
        <3>3. /\ h \in Alarms
              /\ alarm_list' \in Seq(Alarms) /\ Len(alarm_list') = Len(alarm_list) - 1
              /\ \A n \in 1 .. Len(alarm_list) : time[h] <= time[alarm_list[n]]
              /\ \A n \in 1 .. Len(alarm_list) - 1 :
                     n + 1 \in 1 .. Len(alarm_list) /\ alarm_list'[n] = alarm_list[n + 1]
            BY <3>1, <3>2, HeadIsEarliest
        <3>4. \A n \in DOMAIN alarm_list' : time[h] <= time[alarm_list'[n]]
            BY <3>3
        <3>5. rung'[Len(rung')] = h
            BY <3>1, <3>3, RingAdds, Types
        <3> QED BY <3>1, <3>4, <3>5
    <2>2. CASE RingExpired
        <3>1. /\ Ring(alarm) /\ alarm_list' = alarm_list /\ tpc = "timedout"
            BY <2>2 DEF RingExpired
        <3>2. alarm \in Alarms
            BY <3>1, Types DEF IInv, CurrentInv
        <3>3. rung'[Len(rung')] = alarm
            BY <3>1, <3>2, RingAdds, Types
        <3> QED BY <3>1, <3>3, Types DEF IInv, DueInv
    <2> QED BY <2>1, <2>2 DEF Next, AlarmThread, Enter, EndOfInput, Begin, WaitForAny, TimeOut,
            WakeUp, SpuriousWakeup, Tick
<1> QED BY <1>1, InvariantHolds, PTL DEF Spec, RingsInOrder
===============================================================================
