-------------------------- MODULE AdmissionProofs ---------------------------
(***************************************************************************)
(* Theorems about Admission, for every set of callers and keys and all     *)
(* limits.                                                                 *)
(***************************************************************************)
EXTENDS Admission, FiniteSetTheorems, SequenceTheorems, TLAPS

-----------------------------------------------------------------------------
(* The inductive invariant.                                                *)

\* A ticket is queued once.
OneTicket == \A i, j \in 1..Len(queue) : queue[i] = queue[j] => i = j

\* Whoever waits, was woken or gives up still has its ticket.
WaitersQueued ==
    \A c \in Callers : pc[c] \in {"park", "wait", "loop", "drop"} => Queued(c)

\* The counters, the limits and the tickets, without the wake-ups.
Accounted ==
    /\ AdmissionTypeOK
    /\ CountsMatch
    /\ WithinLimits
    /\ OneTicket
    /\ WaitersQueued

-----------------------------------------------------------------------------
(* The queue.                                                              *)

\* The callers in the queue are finitely many callers.
LEMMA RangeOfQueue ==
    ASSUME NEW q \in Seq(Callers)
    PROVE  /\ Range(q) = {q[i] : i \in 1..Len(q)}
           /\ Range(q) \in SUBSET Callers
           /\ IsFiniteSet(Range(q))
  <1>1. DOMAIN q = 1..Len(q) /\ \A i \in 1..Len(q) : q[i] \in Callers
    BY LenProperties, ElementOfSeq
  <1>2. Range(q) = {q[i] : i \in 1..Len(q)}
    BY <1>1 DEF Range
  <1>3. Range(q) \in SUBSET Callers
    BY <1>1, <1>2
  <1> QED BY <1>2, <1>3, AdmissionAssumption, FS_Subset

\* A ticket at the back of the queue.
LEMMA Appended ==
    ASSUME queue \in Seq(Callers), OneTicket, NEW c \in Callers, ~Queued(c)
    PROVE  LET q == Append(queue, c)
           IN  /\ q \in Seq(Callers) /\ Len(q) = Len(queue) + 1
               /\ Range(q) = Range(queue) \cup {c}
               /\ \A i, j \in 1..Len(q) : q[i] = q[j] => i = j
               /\ \A i \in 1..Len(queue) : q[i] = queue[i]
               /\ q[Len(q)] = c
  <1> DEFINE q == Append(queue, c)
  <1>1. /\ q \in Seq(Callers) /\ Len(q) = Len(queue) + 1
        /\ \A i \in 1..Len(queue) : q[i] = queue[i]
        /\ q[Len(q)] = c
    OBVIOUS
  <1>2. \A i \in 1..Len(queue) : queue[i] # c
    BY RangeOfQueue DEF Queued
  <1>3. \A i \in 1..Len(q) : i \in 1..Len(queue) \/ i = Len(q)
    BY <1>1
  <1>4. \A i, j \in 1..Len(q) : q[i] = q[j] => i = j
    BY <1>1, <1>2, <1>3 DEF OneTicket
  <1>5. Range(q) = Range(queue) \cup {c}
    <2>1. Range(q) = {q[i] : i \in 1..Len(q)} /\ Range(queue) = {queue[i] : i \in 1..Len(queue)}
      BY <1>1, RangeOfQueue
    <2>2. 1..Len(q) = 1..Len(queue) \cup {Len(q)}
      BY <1>1
    <2> QED BY <1>1, <2>1, <2>2
  <1> QED BY <1>1, <1>4, <1>5

\* A ticket that leaves the queue, wherever it stands.
LEMMA Removed ==
    ASSUME queue \in Seq(Callers), OneTicket, NEW c \in Callers, Queued(c)
    PROVE  /\ Without(c) \in Seq(Callers) /\ Len(Without(c)) = Len(queue) - 1
           /\ Range(Without(c)) = Range(queue) \ {c}
           /\ \A i, j \in 1..Len(Without(c)) :
                 Without(c)[i] = Without(c)[j] => i = j
  <1> DEFINE p == CHOOSE i \in 1..Len(queue) : queue[i] = c
             front == SubSeq(queue, 1, p - 1)
             back == SubSeq(queue, p + 1, Len(queue))
             q == Without(c)
             from(i) == IF i < p THEN i ELSE i + 1
  <1>1. p \in 1..Len(queue) /\ queue[p] = c
    BY RangeOfQueue DEF Queued
  <1>2. q = front \o back
    BY DEF Without, RemoveAt
  <1>0. Len(queue) \in Nat /\ \A i \in 1..Len(queue) : queue[i] \in Callers
    BY LenProperties, ElementOfSeq
  <1> HIDE DEF p
  <1>3. /\ front \in Seq(Callers) /\ Len(front) = p - 1
        /\ \A i \in 1..(p - 1) : front[i] = queue[i]
    <2>1. \A i \in 1..(p - 1) : queue[i] \in Callers
      BY <1>0, <1>1
    <2> QED BY <1>0, <1>1, <2>1, SubSeqProperties
  <1>4. /\ back \in Seq(Callers) /\ Len(back) = Len(queue) - p
        /\ \A i \in 1..(Len(queue) - p) : back[i] = queue[p + i]
    <2>1. \A i \in (p + 1)..Len(queue) : queue[i] \in Callers
      BY <1>0, <1>1
    <2> QED BY <1>0, <1>1, <2>1, SubSeqProperties
  <1> HIDE DEF front, back
  <1>5. /\ q \in Seq(Callers) /\ Len(q) = Len(queue) - 1
        /\ \A i \in 1..Len(q) : q[i] = IF i <= Len(front) THEN front[i] ELSE back[i - Len(front)]
    <2>1. /\ front \o back \in Seq(Callers)
          /\ Len(front \o back) = Len(front) + Len(back)
          /\ \A i \in 1..(Len(front) + Len(back)) : (front \o back)[i] =
                IF i <= Len(front) THEN front[i] ELSE back[i - Len(front)]
      BY <1>3, <1>4, ConcatProperties
    <2>2. Len(front) + Len(back) = Len(queue) - 1
      BY <1>0, <1>1, <1>3, <1>4
    <2> HIDE DEF q
    <2> QED BY <1>2, <2>1, <2>2
  <1>6. \A i \in 1..Len(q) : from(i) \in 1..Len(queue) /\ from(i) # p /\ q[i] = queue[from(i)]
    BY <1>0, <1>1, <1>3, <1>4, <1>5
  <1>7. \A i \in 1..Len(queue) : i # p => \E j \in 1..Len(q) : from(j) = i
    <2> TAKE i \in 1..Len(queue)
    <2>1. CASE i < p
      BY <1>0, <1>1, <1>5, <2>1
    <2>2. CASE i > p
      <3>1. i - 1 \in 1..Len(q) /\ from(i - 1) = i
        BY <1>0, <1>1, <1>5, <2>2
      <3> QED BY <3>1
    <2> QED BY <1>0, <1>1, <2>1, <2>2
  <1> HIDE DEF q
  <1>8. \A i, j \in 1..Len(q) : q[i] = q[j] => i = j
    <2>1. \A i, j \in 1..Len(q) : from(i) = from(j) => i = j
      BY <1>0, <1>1, <1>5
    <2> QED BY <1>6, <2>1 DEF OneTicket
  <1>9. Range(q) = Range(queue) \ {c}
    <2> HIDE DEF from
    <2>1. Range(q) = {q[i] : i \in 1..Len(q)} /\ Range(queue) = {queue[i] : i \in 1..Len(queue)}
      BY <1>5, RangeOfQueue
    <2>2. \A i \in 1..Len(queue) : queue[i] = c => i = p
      BY <1>1 DEF OneTicket
    <2>3. ASSUME NEW x \in Range(q) PROVE x \in Range(queue) /\ x # c
      <3>1. PICK i \in 1..Len(q) : x = q[i]
        BY <2>1
      <3> QED BY <1>6, <2>1, <2>2, <3>1
    <2>4. ASSUME NEW x \in Range(queue), x # c PROVE x \in Range(q)
      <3>1. PICK i \in 1..Len(queue) : x = queue[i]
        BY <2>1
      <3>2. PICK j \in 1..Len(q) : from(j) = i
        BY <1>1, <1>7, <2>4, <3>1
      <3> QED BY <1>6, <2>1, <3>1, <3>2
    <2> QED BY <2>3, <2>4
  <1> QED BY <1>5, <1>8, <1>9 DEF q

-----------------------------------------------------------------------------
(* The counters.                                                           *)

\* One caller more or less changes the count of its own key by one.
LEMMA CountOf ==
    ASSUME NEW S, IsFiniteSet(S), NEW c, NEW k
    PROVE  /\ IsFiniteSet(Of(S, k)) /\ Cardinality(Of(S, k)) \in Nat
           /\ Cardinality(Of(S \cup {c}, k)) =
                 Cardinality(Of(S, k)) + IF Key[c] = k /\ c \notin S THEN 1 ELSE 0
           /\ Cardinality(Of(S \ {c}, k)) =
                 Cardinality(Of(S, k)) - IF Key[c] = k /\ c \in S THEN 1 ELSE 0
  <1>1. Of(S, k) \in SUBSET S
    BY DEF Of
  <1>2. IsFiniteSet(Of(S, k)) /\ Cardinality(Of(S, k)) \in Nat
    BY <1>1, FS_Subset, FS_CardinalityType
  <1>3. CASE Key[c] = k
    <2>1. /\ Of(S \cup {c}, k) = Of(S, k) \cup {c}
          /\ Of(S \ {c}, k) = Of(S, k) \ {c}
          /\ c \in Of(S, k) <=> c \in S
      BY <1>3 DEF Of
    <2>2. /\ Cardinality(Of(S \cup {c}, k)) =
                IF c \in Of(S, k) THEN Cardinality(Of(S, k)) ELSE Cardinality(Of(S, k)) + 1
          /\ Cardinality(Of(S \ {c}, k)) =
                IF c \in Of(S, k) THEN Cardinality(Of(S, k)) - 1 ELSE Cardinality(Of(S, k))
      <3>1. /\ Cardinality(Of(S, k) \cup {c}) =
                  IF c \in Of(S, k) THEN Cardinality(Of(S, k)) ELSE Cardinality(Of(S, k)) + 1
            /\ Cardinality(Of(S, k) \ {c}) =
                  IF c \in Of(S, k) THEN Cardinality(Of(S, k)) - 1 ELSE Cardinality(Of(S, k))
        BY <1>2, FS_AddElement, FS_RemoveElement
      <3> QED BY <2>1, <3>1, Zenon
    <2> DEFINE n == Cardinality(Of(S, k))
               more == Cardinality(Of(S \cup {c}, k))
               less == Cardinality(Of(S \ {c}, k))
    <2>3. /\ more = IF c \in S THEN n ELSE n + 1
          /\ less = IF c \in S THEN n - 1 ELSE n
      BY <2>1, <2>2, Zenon
    <2>4. n \in Nat
      BY <1>2
    <2> HIDE DEF n, more, less
    <2>5. /\ more = n + IF Key[c] = k /\ c \notin S THEN 1 ELSE 0
          /\ less = n - IF Key[c] = k /\ c \in S THEN 1 ELSE 0
      BY <1>3, <2>3, <2>4
    <2> QED BY <1>2, <2>5 DEF n, more, less
  <1>4. CASE Key[c] # k
    <2>1. Of(S \cup {c}, k) = Of(S, k) /\ Of(S \ {c}, k) = Of(S, k)
      BY <1>4 DEF Of
    <2>2. /\ (IF Key[c] = k /\ c \notin S THEN 1 ELSE 0) = 0
          /\ (IF Key[c] = k /\ c \in S THEN 1 ELSE 0) = 0
      BY <1>4
    <2>3. Cardinality(Of(S, k)) + 0 = Cardinality(Of(S, k)) /\ Cardinality(Of(S, k)) - 0 = Cardinality(Of(S, k))
      BY <1>2
    <2> QED BY <1>2, <2>1, <2>2, <2>3, Zenon
  <1> QED BY <1>2, <1>3, <1>4

\* One caller more.
LEMMA CountOneMore ==
    ASSUME NEW S, IsFiniteSet(S), NEW c, NEW k, NEW T, T = S \cup {c}, c \notin S
    PROVE  /\ Cardinality(Of(S, k)) \in Nat
           /\ Cardinality(Of(T, k)) =
                 Cardinality(Of(S, k)) + IF Key[c] = k THEN 1 ELSE 0
  <1>1. /\ Cardinality(Of(S, k)) \in Nat
        /\ Cardinality(Of(S \cup {c}, k)) =
              Cardinality(Of(S, k)) + IF Key[c] = k /\ c \notin S THEN 1 ELSE 0
    BY CountOf
  <1> QED BY <1>1, Zenon

\* One caller less.
LEMMA CountOneLess ==
    ASSUME NEW S, IsFiniteSet(S), NEW c, NEW T, T = S \ {c}
    PROVE  Cardinality(Of(T, Key[c])) =
               Cardinality(Of(S, Key[c])) - IF c \in S THEN 1 ELSE 0
  <1>1. Cardinality(Of(S \ {c}, Key[c])) =
            Cardinality(Of(S, Key[c])) - IF Key[c] = Key[c] /\ c \in S THEN 1 ELSE 0
    BY CountOf
  <1> QED BY <1>1, Zenon

\* The same for all callers, whatever their key.
LEMMA CountAll ==
    ASSUME NEW S, IsFiniteSet(S), NEW c
    PROVE  /\ Cardinality(S) \in Nat
           /\ Cardinality(S \cup {c}) = Cardinality(S) + IF c \notin S THEN 1 ELSE 0
           /\ Cardinality(S \ {c}) = Cardinality(S) - IF c \in S THEN 1 ELSE 0
  <1>1. Cardinality(S) \in Nat
    BY FS_CardinalityType
  <1>2. /\ Cardinality(S \cup {c}) = IF c \in S THEN Cardinality(S) ELSE Cardinality(S) + 1
        /\ Cardinality(S \ {c}) = IF c \in S THEN Cardinality(S) - 1 ELSE Cardinality(S)
    BY FS_AddElement, FS_RemoveElement
  <1> QED BY <1>1, <1>2

\* What is read from an entry is what was put into it.
LEMMA EntryRead ==
    ASSUME NEW a \in Nat, NEW q \in Nat
    PROVE  /\ Entry(a, q) \in Counts \cup {None}
           /\ (IF Entry(a, q) = None THEN 0 ELSE Entry(a, q).active) = a
           /\ (IF Entry(a, q) = None THEN 0 ELSE Entry(a, q).queued) = q
  <1>1. [active |-> a, queued |-> q] # None
    BY AdmissionAssumption
  <1> QED BY <1>1 DEF Entry, Counts

\* The entry of a key counts its holders and its tickets.
LEMMA CountsRead ==
    ASSUME AdmissionTypeOK, CountsMatch, NEW k \in Keys
    PROVE  /\ IsFiniteSet(Holders) /\ IsFiniteSet(Range(queue))
           /\ ActiveOf(k) = Cardinality(Of(Holders, k)) /\ ActiveOf(k) \in Nat
           /\ QueuedOf(k) = Cardinality(Of(Range(queue), k)) /\ QueuedOf(k) \in Nat
  <1>1. IsFiniteSet(Holders) /\ IsFiniteSet(Range(queue))
    <2>1. Holders \in SUBSET Callers
      BY DEF Holders
    <2> QED BY <2>1, FS_Subset, AdmissionAssumption, RangeOfQueue DEF AdmissionTypeOK
  <1>2. Cardinality(Of(Holders, k)) \in Nat /\ Cardinality(Of(Range(queue), k)) \in Nat
    BY <1>1, CountOf
  <1>3. keys[k] = Entry(Cardinality(Of(Holders, k)), Cardinality(Of(Range(queue), k)))
    BY DEF CountsMatch
  <1> QED BY <1>1, <1>2, <1>3, EntryRead DEF ActiveOf, QueuedOf

\* A caller counts for a key that has an entry.
LEMMA KeyOfCaller == \A c \in Callers : Key[c] \in Keys
  BY DEF Keys

-----------------------------------------------------------------------------
(* Initially.                                                              *)

\* A new controller is open, empty and unused.
LEMMA AdmissionInitially == AdmissionInit => Accounted /\ NoLostWakeup
  <1> SUFFICES ASSUME AdmissionInit PROVE Accounted /\ NoLostWakeup
    OBVIOUS
  <1>1. AdmissionTypeOK
    <2>1. <<>> \in Seq(Callers)
      BY EmptySeq
    <2>2. keys \in [Keys -> Counts \cup {None}]
      BY DEF AdmissionInit
    <2> QED BY <2>1, <2>2 DEF AdmissionInit, AdmissionTypeOK
  <1>2. Len(queue) = 0 /\ Range(queue) = {} /\ Holders = {}
    BY DEF AdmissionInit, Range, Holders
  <1>3. \A k : Of({}, k) = {}
    BY DEF Of
  <1>4. CountsMatch
    BY <1>2, <1>3, FS_EmptySet DEF AdmissionInit, CountsMatch, Entry
  <1>5. WithinLimits
    BY <1>2, AdmissionAssumption DEF AdmissionInit, WithinLimits, ActiveOf, QueuedOf
  <1>6. NoLostWakeup /\ OneTicket /\ WaitersQueued
    BY <1>2 DEF AdmissionInit, NoLostWakeup, OneTicket, WaitersQueued
  <1> QED BY <1>1, <1>4, <1>5, <1>6 DEF Accounted

-----------------------------------------------------------------------------
(* The steps, one lemma per kind of step.                                  *)

\* Where a caller may be, and where it may be with a ticket in the queue.
Labels == {"idle", "inspect", "park", "wait", "loop", "drop", "granted", "hold", "left"}
QueuedLabels == {"inspect", "park", "wait", "loop", "drop"}

\* A step that leaves the shared state alone and gives no permit away.
LEMMA QuietStep ==
    ASSUME Accounted, AdmissionTypeOK', UNCHANGED stateVars,
           NEW c \in Callers, NEW l \in Labels, Goto(c, l),
           pc[c] \in {"granted", "hold"} <=> l \in {"granted", "hold"},
           Queued(c) => l \in QueuedLabels,
           l \in {"park", "wait", "loop", "drop"} => Queued(c)
    PROVE  Accounted'
  <1> USE DEF stateVars, Accounted
  <1>1. /\ pc \in [Callers -> Labels]
        /\ pc' = [pc EXCEPT ![c] = l]
    BY DEF AdmissionTypeOK, Goto, Labels
  <1>2. /\ pc'[c] = l
        /\ \A d \in Callers : d # c => pc'[d] = pc[d]
    BY <1>1
  <1>3. Holders' = Holders
    BY <1>2 DEF Holders
  <1>4. Range(queue)' = Range(queue) /\ (\A d : Queued(d)' = Queued(d)) /\ Range(queue) \subseteq Callers
    BY RangeOfQueue DEF Queued, AdmissionTypeOK
  <1>5. \A d \in Range(queue) : pc'[d] \in QueuedLabels
    BY <1>2, <1>4 DEF CountsMatch, Queued, QueuedLabels
  <1>6. CountsMatch'
    BY <1>3, <1>4, <1>5 DEF CountsMatch, QueuedLabels
  <1>7. WithinLimits'
    BY DEF WithinLimits, ActiveOf, QueuedOf
  <1>8. OneTicket'
    BY DEF OneTicket
  <1>9. WaitersQueued'
    BY <1>2, <1>4 DEF WaitersQueued
  <1> QED BY <1>6, <1>7, <1>8, <1>9

\* What every step knows of the caller, its key and the sets that are counted.
LEMMA Standing ==
    ASSUME Accounted, NEW c \in Callers
    PROVE  /\ pc \in [Callers -> Labels] /\ pc[c] \in Labels
           /\ Key[c] \in Keys
           /\ IsFiniteSet(Holders) /\ IsFiniteSet(Range(queue))
           /\ Range(queue) \subseteq Callers
           /\ ActiveOf(Key[c]) \in Nat /\ QueuedOf(Key[c]) \in Nat
           /\ ActiveOf(Key[c]) = Cardinality(Of(Holders, Key[c]))
           /\ QueuedOf(Key[c]) = Cardinality(Of(Range(queue), Key[c]))
           /\ active = Cardinality(Holders) /\ active \in Nat
           /\ Len(queue) = Cardinality(Range(queue)) /\ Len(queue) \in Nat
           /\ \A k \in Keys : /\ ActiveOf(k) <= PerKey /\ QueuedOf(k) <= QueuePerKey
                              /\ ActiveOf(k) \in Nat /\ QueuedOf(k) \in Nat
           /\ Queued(c) => 1 <= QueuedOf(Key[c])
           /\ c \in Holders => 1 <= ActiveOf(Key[c]) /\ 1 <= active
  <1> USE DEF Accounted
  <1>1. Key[c] \in Keys
    BY KeyOfCaller
  <1>2. /\ pc \in [Callers -> Labels] /\ pc[c] \in Labels
        /\ active \in Nat /\ queue \in Seq(Callers)
    BY DEF AdmissionTypeOK, Labels
  <1>3. Len(queue) \in Nat /\ Range(queue) \subseteq Callers
    BY <1>2, LenProperties, RangeOfQueue
  <1>4. \A k \in Keys : /\ IsFiniteSet(Holders) /\ IsFiniteSet(Range(queue))
                         /\ ActiveOf(k) = Cardinality(Of(Holders, k)) /\ ActiveOf(k) \in Nat
                         /\ QueuedOf(k) = Cardinality(Of(Range(queue), k)) /\ QueuedOf(k) \in Nat
    BY CountsRead
  <1>5. active = Cardinality(Holders) /\ Len(queue) = Cardinality(Range(queue))
    BY DEF CountsMatch
  <1>6. \A k \in Keys : ActiveOf(k) <= PerKey /\ QueuedOf(k) <= QueuePerKey
    BY DEF WithinLimits
  <1>7. ASSUME NEW S, IsFiniteSet(S), c \in S
        PROVE  1 <= Cardinality(Of(S, Key[c])) /\ 1 <= Cardinality(S)
    <2>1. Cardinality(Of(S \ {c}, Key[c])) \in Nat
      BY <1>7, CountOf, FS_RemoveElement
    <2>2. Cardinality(Of(S \ {c}, Key[c])) = Cardinality(Of(S, Key[c])) - 1 /\ Cardinality(Of(S, Key[c])) \in Nat
      BY <1>7, CountOf
    <2>3. Cardinality(S \ {c}) \in Nat /\ Cardinality(S \ {c}) = Cardinality(S) - 1 /\ Cardinality(S) \in Nat
      BY <1>7, FS_RemoveElement, FS_CardinalityType
    <2> QED BY <2>1, <2>2, <2>3
  <1> QED BY <1>1, <1>2, <1>3, <1>4, <1>5, <1>6, <1>7 DEF Queued

\* A step of one caller that writes what is now counted for its key.
LEMMA CountingStep ==
    ASSUME Accounted, NEW c \in Callers, NEW l \in Labels, Goto(c, l),
           UNCHANGED <<closed, notified, expired>>, closing' \in BOOLEAN,
           queue' \in Seq(Callers), OneTicket',
           Range(queue') \ {c} = Range(queue) \ {c},
           c \in Range(queue') => l \in QueuedLabels,
           l \in {"park", "wait", "loop", "drop"} => c \in Range(queue'),
           active' = Cardinality(Holders'), active' <= Total,
           Len(queue') = Cardinality(Range(queue')), Len(queue') <= QueueLimit,
           keys' = [keys EXCEPT ![Key[c]] =
               Entry(Cardinality(Of(Holders', Key[c])),
                     Cardinality(Of(Range(queue'), Key[c])))],
           Cardinality(Of(Holders', Key[c])) <= PerKey,
           Cardinality(Of(Range(queue'), Key[c])) <= QueuePerKey
    PROVE  Accounted'
  <1> USE DEF Accounted
  <1> DEFINE a == Cardinality(Of(Holders', Key[c]))
             q == Cardinality(Of(Range(queue'), Key[c]))
  <1>1. /\ pc'[c] = l /\ \A d \in Callers : d # c => pc'[d] = pc[d]
        /\ pc' \in [Callers -> Labels]
    BY Standing DEF Goto
  <1>2. /\ Holders' \in SUBSET Callers /\ Holders' \ {c} = Holders \ {c}
        /\ IsFiniteSet(Holders') /\ IsFiniteSet(Range(queue'))
        /\ Range(queue') \in SUBSET Callers
    <2>1. Holders' \in SUBSET Callers /\ Holders' \ {c} = Holders \ {c}
      BY <1>1 DEF Holders
    <2> QED BY <2>1, AdmissionAssumption, FS_Subset, RangeOfQueue
  <1>3. a \in Nat /\ q \in Nat /\ active' \in Nat
    BY <1>2, CountOf, FS_CardinalityType
  <1>4. /\ keys \in [Keys -> Counts \cup {None}] /\ Key[c] \in Keys
        /\ Entry(a, q) \in Counts \cup {None}
    BY <1>3, KeyOfCaller, EntryRead DEF AdmissionTypeOK
  <1> HIDE DEF a, q
  <1>5. /\ keys' = [keys EXCEPT ![Key[c]] = Entry(a, q)]
        /\ a <= PerKey /\ q <= QueuePerKey
    BY DEF a, q
  <1>6. /\ keys' \in [Keys -> Counts \cup {None}]
        /\ keys'[Key[c]] = Entry(a, q)
        /\ \A k \in Keys : k # Key[c] => keys'[k] = keys[k]
    BY <1>4, <1>5
  <1>7. \A k \in Keys : k # Key[c] => /\ Of(Holders', k) = Of(Holders, k)
                                       /\ Of(Range(queue'), k) = Of(Range(queue), k)
    BY <1>2 DEF Of
  <1>8. \A k \in Keys : keys'[k] = Entry(Cardinality(Of(Holders', k)),
                                          Cardinality(Of(Range(queue'), k)))
    <2> TAKE k \in Keys
    <2>1. CASE k = Key[c]
      BY <1>6, <2>1 DEF a, q
    <2>2. CASE k # Key[c]
      <3>1. keys[k] = Entry(Cardinality(Of(Holders, k)), Cardinality(Of(Range(queue), k)))
        BY DEF CountsMatch
      <3> QED BY <1>6, <1>7, <2>2, <3>1, Zenon
    <2> QED BY <2>1, <2>2
  <1>9. \A d \in Range(queue') : pc'[d] \in QueuedLabels
    <2> TAKE d \in Range(queue')
    <2>1. CASE d # c
      BY <1>1, <1>2, <2>1 DEF CountsMatch, QueuedLabels
    <2> QED BY <1>1, <2>1
  <1>10. CountsMatch'
    BY <1>8, <1>9 DEF CountsMatch, QueuedLabels
  <1>11. \A k \in Keys : ActiveOf(k)' <= PerKey /\ QueuedOf(k)' <= QueuePerKey
    <2> TAKE k \in Keys
    <2>1. CASE k = Key[c]
      BY <1>3, <1>5, <1>6, <2>1, EntryRead DEF ActiveOf, QueuedOf
    <2>2. CASE k # Key[c]
      BY <1>6, <2>2 DEF ActiveOf, QueuedOf, WithinLimits
    <2> QED BY <2>1, <2>2
  <1>12. WithinLimits'
    BY <1>11 DEF WithinLimits
  <1>13. WaitersQueued'
    BY <1>1, <1>2 DEF WaitersQueued, Queued
  <1>14. AdmissionTypeOK'
    BY <1>1, <1>3, <1>6 DEF AdmissionTypeOK, Labels
  <1> QED BY <1>10, <1>12, <1>13, <1>14

\* A permit is granted.
LEMMA GrantAccounted ==
    ASSUME Accounted, NEW c \in Callers, Grant(c)
    PROVE  Accounted'
  <1>0. /\ pc[c] = "inspect" /\ Eligible(Key[c]) /\ active' = active + 1
        /\ keys' = [keys EXCEPT ![Key[c]] =
               Entry(ActiveOf(Key[c]) + 1,
                     QueuedOf(Key[c]) - IF Queued(c) THEN 1 ELSE 0)]
        /\ queue' = IF Queued(c) THEN Without(c) ELSE queue
        /\ Goto(c, "granted")
        /\ UNCHANGED <<closed, closing, notified, expired>>
    BY DEF Grant, MayEnter
  <1>1. Holders' = Holders \cup {c} /\ c \notin Holders
    BY <1>0, Standing DEF Holders, Goto
  <1>2. /\ queue' \in Seq(Callers) /\ Range(queue') = Range(queue) \ {c}
        /\ Len(queue') = Len(queue) - IF Queued(c) THEN 1 ELSE 0
        /\ OneTicket'
    <2>1. queue \in Seq(Callers) /\ OneTicket /\ Len(queue) \in Nat
      BY LenProperties DEF Accounted, AdmissionTypeOK
    <2>2. CASE Queued(c)
      BY <1>0, <2>1, <2>2, Removed DEF OneTicket
    <2>3. CASE ~Queued(c)
      BY <1>0, <2>1, <2>3 DEF OneTicket, Queued
    <2> QED BY <2>2, <2>3
  <1>3. /\ IsFiniteSet(Holders) /\ active = Cardinality(Holders)
        /\ IsFiniteSet(Range(queue)) /\ Len(queue) = Cardinality(Range(queue))
        /\ ActiveOf(Key[c]) = Cardinality(Of(Holders, Key[c]))
        /\ QueuedOf(Key[c]) = Cardinality(Of(Range(queue), Key[c]))
    BY Standing
  <1>4. /\ Cardinality(Of(Holders', Key[c])) = ActiveOf(Key[c]) + 1
        /\ Cardinality(Of(Range(queue'), Key[c])) =
              QueuedOf(Key[c]) - IF Queued(c) THEN 1 ELSE 0
    <2>1. Cardinality(Of(Holders', Key[c])) = Cardinality(Of(Holders, Key[c])) + 1
      BY <1>1, <1>3, CountOneMore
    <2>2. Cardinality(Of(Range(queue'), Key[c])) =
              Cardinality(Of(Range(queue), Key[c])) - IF c \in Range(queue) THEN 1 ELSE 0
      <3>1. CASE c \in Range(queue)
        BY <1>2, <1>3, <3>1, CountOneLess
      <3>2. CASE c \notin Range(queue)
        <4>1. Range(queue') = Range(queue) /\ Cardinality(Of(Range(queue), Key[c])) \in Nat
          BY <1>2, <1>3, <3>2, CountOf
        <4> QED BY <3>2, <4>1
      <3> QED BY <3>1, <3>2
    <2> QED BY <1>2, <1>3, <2>1, <2>2, Zenon DEF Queued
  <1>5. /\ active' = Cardinality(Holders')
        /\ Len(queue') = Cardinality(Range(queue'))
    <2>1. Cardinality(Holders \cup {c}) = Cardinality(Holders) + 1
      BY <1>1, <1>3, CountAll
    <2>2. Cardinality(Range(queue) \ {c}) =
              Cardinality(Range(queue)) - IF Queued(c) THEN 1 ELSE 0
      BY <1>3, CountAll DEF Queued
    <2> QED BY <1>0, <1>1, <1>2, <1>3, <2>1, <2>2, Zenon
  <1>6. keys' = [keys EXCEPT ![Key[c]] =
            Entry(Cardinality(Of(Holders', Key[c])), Cardinality(Of(Range(queue'), Key[c])))]
    BY <1>0, <1>4, Zenon
  <1>7. /\ active' <= Total /\ Len(queue') <= QueueLimit
        /\ ActiveOf(Key[c]) + 1 <= PerKey
        /\ QueuedOf(Key[c]) - (IF Queued(c) THEN 1 ELSE 0) <= QueuePerKey
    BY <1>0, <1>2, Standing, AdmissionAssumption DEF Eligible, Accounted, WithinLimits
  <1>8. closing' \in BOOLEAN
    BY <1>0 DEF Accounted, AdmissionTypeOK
  <1>9. Range(queue') \ {c} = Range(queue) \ {c} /\ c \notin Range(queue')
    BY <1>2
  <1> QED
    BY <1>0, <1>2, <1>4, <1>5, <1>6, <1>7, <1>8, <1>9, CountingStep DEF Labels

\* A caller joins the queue.
LEMMA EnqueueAccounted ==
    ASSUME Accounted, NEW c \in Callers, Enqueue(c)
    PROVE  Accounted'
  <1>0. /\ pc[c] = "inspect" /\ ~Queued(c) /\ RoomToQueue(c)
        /\ keys' = [keys EXCEPT ![Key[c]] =
               Entry(ActiveOf(Key[c]), QueuedOf(Key[c]) + 1)]
        /\ queue' = Append(queue, c)
        /\ Goto(c, "park")
        /\ UNCHANGED <<closed, closing, active, notified, expired>>
    BY DEF Enqueue
  <1>1. Holders' = Holders
    BY <1>0, Standing DEF Holders, Goto
  <1>2. /\ queue' \in Seq(Callers) /\ Range(queue') = Range(queue) \cup {c}
        /\ Len(queue') = Len(queue) + 1
        /\ OneTicket' /\ c \notin Range(queue)
    <2>1. queue \in Seq(Callers) /\ OneTicket
      BY DEF Accounted, AdmissionTypeOK
    <2> QED BY <1>0, <2>1, Appended DEF OneTicket, Queued
  <1>3. /\ active = Cardinality(Holders)
        /\ IsFiniteSet(Range(queue)) /\ Len(queue) = Cardinality(Range(queue))
        /\ ActiveOf(Key[c]) = Cardinality(Of(Holders, Key[c]))
        /\ QueuedOf(Key[c]) = Cardinality(Of(Range(queue), Key[c]))
    BY Standing
  <1>4. /\ Cardinality(Of(Holders', Key[c])) = ActiveOf(Key[c])
        /\ Cardinality(Of(Range(queue'), Key[c])) = QueuedOf(Key[c]) + 1
    <2>1. Cardinality(Of(Range(queue'), Key[c])) = Cardinality(Of(Range(queue), Key[c])) + 1
      BY <1>2, <1>3, CountOneMore
    <2> QED BY <1>1, <1>3, <2>1
  <1>5. active' = Cardinality(Holders') /\ Len(queue') = Cardinality(Range(queue'))
    <2>1. Cardinality(Range(queue) \cup {c}) = Cardinality(Range(queue)) + 1
      BY <1>2, <1>3, CountAll
    <2> QED BY <1>0, <1>1, <1>2, <1>3, <2>1, Zenon
  <1>6. keys' = [keys EXCEPT ![Key[c]] =
            Entry(Cardinality(Of(Holders', Key[c])), Cardinality(Of(Range(queue'), Key[c])))]
    BY <1>0, <1>4, Zenon
  <1>7. /\ active' <= Total /\ Len(queue') <= QueueLimit
        /\ ActiveOf(Key[c]) <= PerKey /\ QueuedOf(Key[c]) + 1 <= QueuePerKey
    BY <1>0, <1>2, Standing, AdmissionAssumption DEF RoomToQueue, Accounted, WithinLimits
  <1>8. closing' \in BOOLEAN
    BY <1>0 DEF Accounted, AdmissionTypeOK
  <1>9. Range(queue') \ {c} = Range(queue) \ {c} /\ c \in Range(queue')
    BY <1>2
  <1> QED
    BY <1>0, <1>2, <1>4, <1>5, <1>6, <1>7, <1>8, <1>9, CountingStep
    DEF Labels, QueuedLabels

\* A ticket is dropped.
LEMMA DropAccounted ==
    ASSUME Accounted, NEW c \in Callers, DropTicket(c)
    PROVE  Accounted'
  <1>0. /\ pc[c] = "drop"
        /\ keys' = [keys EXCEPT ![Key[c]] =
               Entry(ActiveOf(Key[c]), QueuedOf(Key[c]) - 1)]
        /\ queue' = Without(c)
        /\ Goto(c, "left")
        /\ UNCHANGED <<closed, closing, active, notified, expired>>
    BY DEF DropTicket
  <1>1. Holders' = Holders
    BY <1>0, Standing DEF Holders, Goto
  <1>2. /\ queue' \in Seq(Callers) /\ Range(queue') = Range(queue) \ {c}
        /\ Len(queue') = Len(queue) - 1
        /\ OneTicket' /\ c \in Range(queue)
    <2>1. queue \in Seq(Callers) /\ OneTicket
      BY DEF Accounted, AdmissionTypeOK
    <2>2. Queued(c)
      BY <1>0 DEF Accounted, WaitersQueued
    <2> QED BY <1>0, <2>1, <2>2, Removed DEF OneTicket, Queued
  <1>3. /\ active = Cardinality(Holders)
        /\ IsFiniteSet(Range(queue)) /\ Len(queue) = Cardinality(Range(queue))
        /\ ActiveOf(Key[c]) = Cardinality(Of(Holders, Key[c]))
        /\ QueuedOf(Key[c]) = Cardinality(Of(Range(queue), Key[c]))
    BY Standing
  <1>4. /\ Cardinality(Of(Holders', Key[c])) = ActiveOf(Key[c])
        /\ Cardinality(Of(Range(queue'), Key[c])) = QueuedOf(Key[c]) - 1
    <2>1. Cardinality(Of(Range(queue'), Key[c])) = Cardinality(Of(Range(queue), Key[c])) - 1
      BY <1>2, <1>3, CountOneLess
    <2> QED BY <1>1, <1>3, <2>1
  <1>5. active' = Cardinality(Holders') /\ Len(queue') = Cardinality(Range(queue'))
    <2>1. Cardinality(Range(queue) \ {c}) = Cardinality(Range(queue)) - 1
      BY <1>2, <1>3, CountAll
    <2> QED BY <1>0, <1>1, <1>2, <1>3, <2>1, Zenon
  <1>6. keys' = [keys EXCEPT ![Key[c]] =
            Entry(Cardinality(Of(Holders', Key[c])), Cardinality(Of(Range(queue'), Key[c])))]
    BY <1>0, <1>4, Zenon
  <1>7. /\ active' <= Total /\ Len(queue') <= QueueLimit
        /\ ActiveOf(Key[c]) <= PerKey /\ QueuedOf(Key[c]) - 1 <= QueuePerKey
    BY <1>0, <1>2, Standing, AdmissionAssumption DEF Accounted, WithinLimits
  <1>8. closing' \in BOOLEAN
    BY <1>0 DEF Accounted, AdmissionTypeOK
  <1>9. Range(queue') \ {c} = Range(queue) \ {c} /\ c \notin Range(queue')
    BY <1>2
  <1> QED
    BY <1>0, <1>2, <1>4, <1>5, <1>6, <1>7, <1>8, <1>9, CountingStep DEF Labels

\* A permit is given back.
LEMMA ReleaseAccounted ==
    ASSUME Accounted, NEW c \in Callers, Release(c)
    PROVE  Accounted'
  <1>0. /\ pc[c] = "hold" /\ active' = active - 1
        /\ keys' = [keys EXCEPT ![Key[c]] =
               Entry(ActiveOf(Key[c]) - 1, QueuedOf(Key[c]))]
        /\ Goto(c, "left")
        /\ UNCHANGED <<closed, closing, queue, notified, expired>>
    BY DEF Release
  <1>1. Holders' = Holders \ {c} /\ c \in Holders
    BY <1>0, Standing DEF Holders, Goto
  <1>2. /\ queue' \in Seq(Callers) /\ OneTicket' /\ c \notin Range(queue)
    BY <1>0 DEF Accounted, AdmissionTypeOK, CountsMatch, OneTicket
  <1>3. /\ IsFiniteSet(Holders) /\ active = Cardinality(Holders)
        /\ Len(queue) = Cardinality(Range(queue))
        /\ ActiveOf(Key[c]) = Cardinality(Of(Holders, Key[c]))
        /\ QueuedOf(Key[c]) = Cardinality(Of(Range(queue), Key[c]))
    BY Standing
  <1>4. /\ Cardinality(Of(Holders', Key[c])) = ActiveOf(Key[c]) - 1
        /\ Cardinality(Of(Range(queue'), Key[c])) = QueuedOf(Key[c])
    <2>1. Cardinality(Of(Holders', Key[c])) = Cardinality(Of(Holders, Key[c])) - 1
      BY <1>1, <1>3, CountOneLess
    <2> QED BY <1>0, <1>3, <2>1
  <1>5. active' = Cardinality(Holders') /\ Len(queue') = Cardinality(Range(queue'))
    <2>1. Cardinality(Holders \ {c}) = Cardinality(Holders) - 1
      BY <1>1, <1>3, CountAll
    <2> QED BY <1>0, <1>1, <1>3, <2>1, Zenon
  <1>6. keys' = [keys EXCEPT ![Key[c]] =
            Entry(Cardinality(Of(Holders', Key[c])), Cardinality(Of(Range(queue'), Key[c])))]
    BY <1>0, <1>4, Zenon
  <1>7. /\ active' <= Total /\ Len(queue') <= QueueLimit
        /\ ActiveOf(Key[c]) - 1 <= PerKey /\ QueuedOf(Key[c]) <= QueuePerKey
    BY <1>0, Standing, AdmissionAssumption DEF Accounted, WithinLimits
  <1>8. closing' \in BOOLEAN
    BY <1>0 DEF Accounted, AdmissionTypeOK
  <1>9. Range(queue') \ {c} = Range(queue) \ {c} /\ c \notin Range(queue')
    BY <1>0, <1>2
  <1> QED
    BY <1>0, <1>2, <1>4, <1>5, <1>6, <1>7, <1>8, <1>9, CountingStep DEF Labels

\* Every step keeps the accounts.
LEMMA AccountedStep ==
    Accounted /\ [AdmissionNext]_admissionVars => Accounted'
  <1> SUFFICES ASSUME Accounted, [AdmissionNext]_admissionVars PROVE Accounted'
    OBVIOUS
  <1> USE DEF stateVars
  <1>t. AdmissionTypeOK /\ pc \in [Callers -> Labels]
    BY DEF Accounted, AdmissionTypeOK, Labels
  <1>1. ASSUME NEW c \in Callers, Register(c) PROVE Accounted'
    <2>1. AdmissionTypeOK'
      BY <1>1, <1>t DEF Register, Goto, AdmissionTypeOK
    <2>2. pc[c] = "idle" => ~Queued(c)
      BY DEF Accounted, CountsMatch, Queued
    <2> QED BY <1>1, <2>1, <2>2, QuietStep DEF Register, Labels, QueuedLabels
  <1>2. ASSUME NEW c \in Callers, WaitOn(c) PROVE Accounted'
    <2>1. AdmissionTypeOK'
      BY <1>2, <1>t DEF WaitOn, Goto, AdmissionTypeOK
    <2> QED BY <1>2, <2>1, QuietStep DEF WaitOn, Labels, QueuedLabels
  <1>3. ASSUME NEW c \in Callers, Refuse(c) PROVE Accounted'
    <2>1. AdmissionTypeOK'
      BY <1>3, <1>t DEF Refuse, Goto, AdmissionTypeOK
    <2>2. CASE Queued(c)
      BY <1>3, <2>1, <2>2, QuietStep DEF Refuse, Labels, QueuedLabels
    <2>3. CASE ~Queued(c)
      BY <1>3, <2>1, <2>3, QuietStep DEF Refuse, Labels, QueuedLabels
    <2> QED BY <2>2, <2>3
  <1>4. ASSUME NEW c \in Callers, Park(c) PROVE Accounted'
    <2>1. AdmissionTypeOK'
      BY <1>4, <1>t DEF Park, Goto, AdmissionTypeOK
    <2>2. Queued(c)
      BY <1>4 DEF Park, Accounted, WaitersQueued
    <2> QED BY <1>4, <2>1, <2>2, QuietStep DEF Park, Labels, QueuedLabels
  <1>5. ASSUME NEW c \in Callers, Wake(c) PROVE Accounted'
    <2>1. AdmissionTypeOK'
      BY <1>5, <1>t DEF Wake, Goto, AdmissionTypeOK
    <2>2. Queued(c)
      BY <1>5 DEF Wake, Accounted, WaitersQueued
    <2> QED BY <1>5, <2>1, <2>2, QuietStep DEF Wake, Labels, QueuedLabels
  <1>6. ASSUME NEW c \in Callers, TimeOut(c) \/ Cancel(c) PROVE Accounted'
    <2>1. AdmissionTypeOK'
      BY <1>6, <1>t DEF TimeOut, Cancel, Goto, AdmissionTypeOK
    <2>2. Queued(c)
      BY <1>6 DEF TimeOut, Cancel, Accounted, WaitersQueued
    <2> QED BY <1>6, <2>1, <2>2, QuietStep DEF TimeOut, Cancel, Labels, QueuedLabels
  <1>7. ASSUME NEW c \in Callers, Notify(c) PROVE Accounted'
    <2>1. AdmissionTypeOK'
      BY <1>7, <1>t DEF Notify, NotifyWaiters, Goto, AdmissionTypeOK
    <2>2. ~Queued(c)
      BY <1>7 DEF Notify, Accounted, CountsMatch, Queued
    <2>3. CASE pc[c] = "granted"
      BY <1>7, <2>1, <2>2, <2>3, QuietStep DEF Notify, Labels
    <2>4. CASE pc[c] = "left"
      BY <1>7, <2>1, <2>2, <2>4, QuietStep DEF Notify, Labels
    <2> QED BY <1>7, <2>3, <2>4 DEF Notify
  <1>8. ASSUME \/ \E c \in Callers : DeadlinePasses(c)
               \/ Close \/ NotifyClosed \/ UNCHANGED admissionVars
        PROVE  Accounted'
    <2>1. UNCHANGED <<active, keys, queue, pc>>
      BY <1>8 DEF DeadlinePasses, Close, NotifyClosed, admissionVars
    <2>2. AdmissionTypeOK'
      BY <1>8, <1>t DEF DeadlinePasses, Close, NotifyClosed, NotifyWaiters,
         admissionVars, AdmissionTypeOK
    <2> QED
      BY <2>1, <2>2 DEF Accounted, CountsMatch, Holders, WithinLimits, ActiveOf,
         QueuedOf, OneTicket, WaitersQueued, Queued
  <1> QED
    BY <1>1, <1>2, <1>3, <1>4, <1>5, <1>6, <1>7, <1>8, GrantAccounted,
       EnqueueAccounted, DropAccounted, ReleaseAccounted DEF AdmissionNext

-----------------------------------------------------------------------------
(* Wake-ups.                                                               *)

\* No step loses a wake-up.
LEMMA WakeupStep ==
    Accounted /\ NoLostWakeup /\ [AdmissionNext]_admissionVars => NoLostWakeup'
  <1> SUFFICES ASSUME Accounted, NoLostWakeup, [AdmissionNext]_admissionVars
               PROVE  NoLostWakeup'
    OBVIOUS
  <1> USE DEF stateVars
  <1>t. AdmissionTypeOK /\ pc \in [Callers -> Labels]
    BY DEF Accounted, AdmissionTypeOK, Labels
  <1>1. ASSUME UNCHANGED <<closed, closing, active, keys, queue>>,
               NEW c \in Callers, NEW l \in Labels, Goto(c, l),
               pc[c] \notin {"granted", "left"},
               \A d \in Callers : d # c => notified'[d] = notified[d],
               \/ l \notin {"park", "wait"}
               \/ pc[c] \in {"park", "wait"} /\ notified'[c] = notified[c]
               \/ ~closed /\ ~IsFirstEligible(c)
        PROVE  NoLostWakeup'
    <2>1. /\ pc'[c] = l
          /\ \A d \in Callers : d # c => pc'[d] = pc[d]
      BY <1>1, <1>t DEF Goto
    <2>2. \A d : IsFirstEligible(d)' = IsFirstEligible(d)
      BY <1>1 DEF IsFirstEligible, Eligible, ActiveOf
    <2>3. Notifying => Notifying'
      BY <1>1, <2>1 DEF Notifying
    <2> QED BY <1>1, <2>1, <2>2, <2>3 DEF NoLostWakeup
  <1>2. ASSUME NEW c \in Callers, Goto(c, "granted") \/ Goto(c, "left")
        PROVE  NoLostWakeup'
    <2>1. pc'[c] \in {"granted", "left"}
      BY <1>2, <1>t DEF Goto
    <2> QED BY <2>1 DEF NoLostWakeup, Notifying
  <1>3. ASSUME NotifyWaiters, \A c \in Callers : pc'[c] \in {"park", "wait"} => pc'[c] = pc[c]
        PROVE  NoLostWakeup'
    BY <1>3 DEF NotifyWaiters, NoLostWakeup
  <1>4. ASSUME NEW c \in Callers, Enqueue(c) PROVE NoLostWakeup'
    <2>0. /\ ~closed /\ ~MayEnter(c) /\ ~Queued(c) /\ queue' = Append(queue, c)
          /\ keys' = [keys EXCEPT ![Key[c]] =
                 Entry(ActiveOf(Key[c]), QueuedOf(Key[c]) + 1)]
          /\ Goto(c, "park") /\ pc[c] = "inspect"
          /\ UNCHANGED <<closed, closing, active, notified, expired>>
      BY <1>4 DEF Enqueue
    <2>1. /\ queue \in Seq(Callers) /\ Len(queue) \in Nat /\ Len(queue') = Len(queue) + 1
          /\ \A i \in 1..Len(queue) : queue'[i] = queue[i] /\ queue[i] \in Callers
          /\ queue'[Len(queue')] = c
          /\ \A i \in 1..Len(queue) : queue[i] # c
      BY <2>0, <1>t, Appended, LenProperties, ElementOfSeq, RangeOfQueue
      DEF AdmissionTypeOK, Accounted, Queued
    <2>2. \A k \in Keys : Eligible(k)' = Eligible(k)
      <3>1. /\ keys \in [Keys -> Counts \cup {None}] /\ Key[c] \in Keys
            /\ ActiveOf(Key[c]) \in Nat /\ QueuedOf(Key[c]) + 1 \in Nat
        BY <1>t, Standing DEF AdmissionTypeOK
      <3>2. ActiveOf(Key[c])' = ActiveOf(Key[c])
        <4>1. keys'[Key[c]] = Entry(ActiveOf(Key[c]), QueuedOf(Key[c]) + 1)
          BY <2>0, <3>1
        <4>2. ActiveOf(Key[c])' = IF keys'[Key[c]] = None THEN 0 ELSE keys'[Key[c]].active
          BY DEF ActiveOf
        <4> QED BY <3>1, <4>1, <4>2, EntryRead
      <3>3. \A k \in Keys : k # Key[c] => ActiveOf(k)' = ActiveOf(k)
        BY <2>0, <3>1 DEF ActiveOf
      <3>4. \A k \in Keys : ActiveOf(k)' = ActiveOf(k)
        BY <3>2, <3>3
      <3> QED BY <2>0, <3>4 DEF Eligible
    <2>3. \A i \in 1..Len(queue) : Key[queue[i]] \in Keys
      BY <2>1, KeyOfCaller
    <2>4. ASSUME NEW d \in Callers, d # c, IsFirstEligible(d)' PROVE IsFirstEligible(d)
      <3>1. PICK i \in 1..Len(queue') :
                /\ queue'[i] = d /\ Eligible(Key[d])'
                /\ \A j \in 1..(i - 1) : ~Eligible(Key[queue[j]])'
        BY <2>4 DEF IsFirstEligible
      <3>2. i \in 1..Len(queue)
        BY <2>1, <2>4, <3>1
      <3>3. \A j \in 1..(i - 1) : ~Eligible(Key[queue[j]])
        <4> TAKE j \in 1..(i - 1)
        <4>1. j \in 1..Len(queue) /\ queue'[j] = queue[j]
          BY <2>1, <3>2
        <4>2. Eligible(Key[queue[j]])' = Eligible(Key[queue[j]])
          <5>1. PICK k \in Keys : k = Key[queue[j]]
            BY <2>3, <4>1
          <5>2. Eligible(k)' = Eligible(k)
            BY <2>2
          <5> QED BY <4>1, <5>1, <5>2 DEF Eligible, ActiveOf
        <4> QED BY <3>1, <4>2
      <3>4. Eligible(Key[d])
        BY <2>2, <3>1, KeyOfCaller
      <3> QED BY <2>1, <3>1, <3>2, <3>3, <3>4 DEF IsFirstEligible
    <2>5. ~IsFirstEligible(c)'
      <3> SUFFICES ASSUME IsFirstEligible(c)' PROVE FALSE
        OBVIOUS
      <3>1. PICK i \in 1..Len(queue') :
                /\ queue'[i] = c /\ Eligible(Key[c])'
                /\ \A j \in 1..(i - 1) : ~Eligible(Key[queue[j]])'
        BY DEF IsFirstEligible
      <3>2. i = Len(queue) + 1
        BY <2>1, <3>1
      <3>3. NoneEligible
        <4> SUFFICES ASSUME NEW j \in 1..Len(queue) PROVE ~Eligible(Key[queue[j]])
          BY DEF NoneEligible
        <4>1. j \in 1..(i - 1) /\ queue'[j] = queue[j]
          BY <2>1, <3>2
        <4>2. Eligible(Key[queue[j]])' = Eligible(Key[queue[j]])
          <5>1. PICK k \in Keys : k = Key[queue[j]]
            BY <2>3
          <5>2. Eligible(k)' = Eligible(k)
            BY <2>2
          <5> QED BY <4>1, <5>1, <5>2 DEF Eligible, ActiveOf
        <4> QED BY <3>1, <4>1, <4>2
      <3>4. Eligible(Key[c])
        BY <2>2, <3>1, KeyOfCaller
      <3> QED BY <2>0, <3>3, <3>4 DEF MayEnter
    <2>6. /\ \A d \in Callers : d # c => pc'[d] = pc[d]
          /\ Notifying => Notifying'
      BY <1>t, <2>0 DEF Goto, Notifying
    <2> QED BY <2>0, <2>4, <2>5, <2>6 DEF NoLostWakeup
  <1>5. ASSUME NEW c \in Callers, Register(c) PROVE NoLostWakeup'
    BY <1>1, <1>5, <1>t DEF Register, Labels, AdmissionTypeOK
  <1>6. ASSUME NEW c \in Callers, WaitOn(c) PROVE NoLostWakeup'
    <2>1. ~IsFirstEligible(c)
      BY <1>6 DEF WaitOn, MayEnter, IsFirstEligible
    <2> QED BY <1>1, <1>6, <2>1 DEF WaitOn, Labels
  <1>7. ASSUME NEW c \in Callers, Refuse(c) PROVE NoLostWakeup'
    <2>1. CASE Queued(c)
      BY <1>1, <1>7, <2>1 DEF Refuse, Labels
    <2>2. CASE ~Queued(c)
      BY <1>1, <1>7, <2>2 DEF Refuse, Labels
    <2> QED BY <2>1, <2>2
  <1>8. ASSUME NEW c \in Callers, Park(c) \/ Wake(c) \/ TimeOut(c) \/ Cancel(c)
        PROVE  NoLostWakeup'
    BY <1>1, <1>8 DEF Park, Wake, TimeOut, Cancel, Labels
  <1>9. ASSUME NEW c \in Callers, Grant(c) \/ DropTicket(c) \/ Release(c)
        PROVE  NoLostWakeup'
    BY <1>2, <1>9 DEF Grant, DropTicket, Release
  <1>10. ASSUME NEW c \in Callers, Notify(c) PROVE NoLostWakeup'
    <2>1. \A d \in Callers : pc'[d] \in {"park", "wait"} => pc'[d] = pc[d]
      BY <1>10, <1>t DEF Notify, Goto
    <2> QED BY <1>3, <1>10, <2>1 DEF Notify
  <1>11. ASSUME NotifyClosed PROVE NoLostWakeup'
    BY <1>3, <1>11 DEF NotifyClosed
  <1>12. ASSUME Close PROVE NoLostWakeup'
    BY <1>12 DEF Close, NoLostWakeup, Notifying
  <1>13. ASSUME (\E c \in Callers : DeadlinePasses(c)) \/ UNCHANGED admissionVars
         PROVE  NoLostWakeup'
    BY <1>13 DEF DeadlinePasses, admissionVars, NoLostWakeup, Notifying,
       IsFirstEligible, Eligible, ActiveOf
  <1> QED
    BY <1>4, <1>5, <1>6, <1>7, <1>8, <1>9, <1>10, <1>11, <1>12, <1>13
    DEF AdmissionNext

-----------------------------------------------------------------------------

\* BoundedAdmission counts exactly the live permits and tickets, never exceeds a
\* limit, and never leaves the ticket whose turn it is, or any waiter of a closed
\* controller, asleep with nobody about to call notify_waiters: whatever the
\* callers, keys and limits, and however acquire, Drop and close interleave.
THEOREM AdmissionSafe == AdmissionSpec => []AdmissionInvariant
  <1>1. Accounted /\ NoLostWakeup /\ [AdmissionNext]_admissionVars
        => (Accounted /\ NoLostWakeup)'
    BY AccountedStep, WakeupStep
  <1>2. Accounted /\ NoLostWakeup => AdmissionInvariant
    BY DEF Accounted, AdmissionInvariant
  <1> QED BY <1>1, <1>2, AdmissionInitially, PTL DEF AdmissionSpec
=============================================================================
