------------------------ MODULE ProviderHealthProofs ------------------------
(***************************************************************************)
(* Proofs about ProviderHealth.tla, for any number of replicas, requests,  *)
(* probes, resets, configuration changes, faults and clock readings: a     *)
(* reset is final for the results of requests, the queues keep their       *)
(* bound, and a probe is stored once.                                      *)
(*                                                                         *)
(* A mirror, a queued event and a row that was read earlier never have a   *)
(* later generation than the row while no probe runs; one of the row's own *)
(* generation is of after the last reset.  And whoever has counted the     *)
(* result of a probe still on its way has passed the probe's generation.   *)
(***************************************************************************)
EXTENDS ProviderHealth, SequenceTheorems, WellFoundedInduction, TLAPS

-----------------------------------------------------------------------------
(* The inductive invariant *)

\* The events of a queue.
Elems(q) == {q[n] : n \in 1..Len(q)}

\* The event of a probe that is about to be written directly.
Saving(i) ==
    IF probe[i] # None /\ probe[i].step = "save" THEN {probe[i].event} ELSE {}

\* The events of replica i on their way to the row.
Flight(i) == Elems(pending[i]) \cup Saving(i)

\* The probes on their way to the row.
Probing == {e \in UNION {Flight(i) : i \in Replicas} : IsProbe(e)}

\* The row as the holder of the replica's lock read it.
Found(i) == IF job[i].step \in {"reconcile", "fence"} THEN job[i].found ELSE None

\* Types, and configurations that the row has had.
HealthTypes ==
    /\ row \in Healths \cup {None}
    /\ row # None => row.config \in 1..(used["configs"] + 1)
    /\ now \in 0..MaxTime
    /\ local \in [Replicas -> Healths \cup {None}]
    /\ tracked \in [Replicas -> BOOLEAN]
    /\ pending \in [Replicas -> Seq(Events)]
    /\ \A i \in Replicas : Len(pending[i]) <= MaxPending
    /\ nextId \in [Replicas -> Nat]
    /\ loaded \in [Replicas -> Healths \cup {None}]
    /\ \A i \in Replicas : loaded[i] # None => loaded[i].config \in Configs
    /\ routed \in [Replicas -> SUBSET Configs]
    /\ job \in [Replicas -> Jobs]
    /\ probe \in [Replicas -> Probes]
    /\ deleter \in Replicas \cup {None}
    /\ resetAt \in 0..MaxTime
    /\ used \in [DOMAIN Bounds -> Nat]
    /\ \A b \in DOMAIN Bounds : used[b] <= Bounds[b]

\* A snapshot of the row is no newer than the row, and of after the reset if it
\* is of the row's generation.
SeenOK(f) ==
    f # None => f.gen <= row.gen /\ (f.gen = row.gen => f.updated >= resetAt)

\* An event of before the reset belongs to an earlier generation.
QueuedOK(e) ==
    /\ ~IsProbe(e) /\ e.gen <= row.gen
    /\ e.result.at < resetAt => e.gen < row.gen

\* Why a reset is final while nothing is probed.
ResetOK ==
    used["probes"] = 0 =>
        /\ resetAt <= now
        /\ \A i \in Replicas : probe[i] = None
        /\ row # None =>
              /\ resetAt <= row.updated
              /\ \A x \in row.counts : x.at >= resetAt
              /\ \A i \in Replicas :
                    /\ local[i] # None => local[i].gen <= row.gen
                    /\ SeenOK(loaded[i]) /\ SeenOK(Found(i))
                    /\ \A e \in Elems(pending[i]) : QueuedOK(e)

\* Two events with one id are of the same kind and time.
Alike(d, e) ==
    d.result.id = e.result.id =>
        (IsProbe(d) <=> IsProbe(e)) /\ d.result.at = e.result.at

\* The events of a replica bear ids that it has given out.
FlightOK(i) ==
    /\ \A e \in Flight(i) :
          /\ e.result.by = i /\ e.result.id < nextId[i]
          /\ IsProbe(e) => /\ e.snapshot.gen = e.gen + 1
                           /\ e.result \in e.snapshot.counts
    /\ \A d, e \in Flight(i) : Alike(d, e)

\* The event that is being reconciled is a runtime event.
JobOK(i) ==
    job[i].step \in {"reload", "reconcile"} =>
        /\ ~IsProbe(job[i].event) /\ job[i].event.result.id < nextId[i]
        /\ \A e \in Flight(i) : Alike(e, job[i].event)

\* A snapshot counts results that have happened, and has passed the generation
\* of each probe of P that it counts.
Clean(h, ids, P) ==
    h # None =>
        \A x \in h.counts :
            /\ x.id < ids[x.by]
            /\ \A e \in P : e.result = x => h.gen > e.gen

CleanOK ==
    /\ Clean(row, nextId, Probing)
    /\ \A i \in Replicas :
          /\ Clean(local[i], nextId, Probing)
          /\ Clean(loaded[i], nextId, Probing)
          /\ Clean(Found(i), nextId, Probing)
    /\ \A e \in Probing : Clean(e.snapshot, nextId, Probing)

\* Together: the inductive invariant.
HealthInductive ==
    /\ HealthTypes
    /\ ResetOK
    /\ \A i \in Replicas : FlightOK(i) /\ JobOK(i)
    /\ CleanOK
-----------------------------------------------------------------------------
(* The queue *)

\* Every non-empty set of natural numbers has a least element.
LEMMA LeastNat ==
    ASSUME NEW T \in SUBSET Nat, T # {}
    PROVE  \E n \in T : \A m \in T : n <= m
  <1>1. PICK n \in T : \A m \in T : ~(<<m, n>> \in OpToRel(<, Nat))
    BY NatLessThanWellFounded, WFMin, Zenon
  <1>2. \A m \in T : ~(m < n)
    BY <1>1 DEF OpToRel
  <1> QED BY <1>2

\* q2 holds nothing that q does not hold.
Fewer(q2, q) ==
    q2 \in Seq(Events) /\ Len(q2) <= Len(q) /\ Elems(q2) \subseteq Elems(q)

LEMMA Members ==
    ASSUME NEW q \in Seq(Events)
    PROVE  Len(q) \in Nat /\ Elems(q) \subseteq Events
  <1>1. Len(q) \in Nat /\ \A n \in 1..Len(q) : q[n] \in Events
    BY LenProperties, ElementOfSeq
  <1> QED BY <1>1 DEF Elems

LEMMA EmptyFewer ==
    ASSUME NEW q \in Seq(Events)
    PROVE  Fewer(<<>>, q)
  <1>1. <<>> \in Seq(Events) /\ Len(<<>>) = 0 /\ Len(q) \in Nat
    BY EmptySeq, Members
  <1> QED BY <1>1 DEF Fewer, Elems

LEMMA Appended ==
    ASSUME NEW q \in Seq(Events), NEW e \in Events
    PROVE  /\ Append(q, e) \in Seq(Events) /\ Len(Append(q, e)) = Len(q) + 1
           /\ Elems(Append(q, e)) \subseteq Elems(q) \cup {e}
  <1> DEFINE a == Append(q, e)
  <1>1. /\ a \in Seq(Events) /\ Len(a) = Len(q) + 1 /\ Len(q) \in Nat
        /\ \A n \in 1..Len(q) : a[n] = q[n]
        /\ a[Len(q) + 1] = e
    BY AppendProperties, Members
  <1> HIDE DEF a
  <1>2. ASSUME NEW n \in 1..Len(a) PROVE a[n] \in Elems(q) \cup {e}
    <2>1. CASE n \in 1..Len(q)
      BY <1>1, <2>1 DEF Elems
    <2>2. CASE n = Len(q) + 1
      BY <1>1, <2>2
    <2> QED BY <1>1, <2>1, <2>2
  <1>3. Elems(a) \subseteq Elems(q) \cup {e}
    BY <1>2 DEF Elems
  <1> QED BY <1>1, <1>3 DEF a

\* The first event, and what follows it.
LEMMA FrontEvent ==
    ASSUME NEW q \in Seq(Events), q # <<>>
    PROVE  /\ Head(q) = q[1] /\ Head(q) \in Elems(q) /\ Head(q) \in Events
           /\ 1 \in 1..Len(q)
           /\ Fewer(Tail(q), q)
  <1>1. /\ Tail(q) \in Seq(Events) /\ Len(Tail(q)) = Len(q) - 1
        /\ \A n \in 1..(Len(q) - 1) : Tail(q)[n] = q[n + 1]
        /\ Head(q) = q[1] /\ Len(q) \in Nat /\ Len(q) >= 1
    <2>1. Len(q) \in Nat /\ Len(q) # 0
      BY Members, EmptySeq
    <2>2. Tail(q) \in Seq(Events) /\ Len(Tail(q)) = Len(q) - 1
      BY HeadTailProperties
    <2>3. Head(q) = q[1] /\ \A n \in 1..(Len(q) - 1) : Tail(q)[n] = q[n + 1]
      BY <2>1
    <2> QED BY <2>1, <2>2, <2>3
  <1>2. q[1] \in Elems(q) /\ 1 \in 1..Len(q)
    BY <1>1 DEF Elems
  <1>3. \A n \in 1..Len(Tail(q)) : Tail(q)[n] \in Elems(q)
    <2> SUFFICES ASSUME NEW n \in 1..Len(Tail(q)) PROVE Tail(q)[n] \in Elems(q)
      OBVIOUS
    <2>1. n \in 1..(Len(q) - 1) /\ n + 1 \in 1..Len(q)
      BY <1>1
    <2>2. Tail(q)[n] = q[n + 1]
      BY <1>1, <2>1
    <2> QED BY <2>1, <2>2 DEF Elems
  <1>4. Elems(Tail(q)) \subseteq Elems(q)
    BY <1>3 DEF Elems
  <1>5. q[1] \in Events
    BY <1>2, Members
  <1>6. Fewer(Tail(q), q)
    BY <1>1, <1>4 DEF Fewer
  <1> QED BY <1>1, <1>2, <1>5, <1>6

LEMMA RemovedAt ==
    ASSUME NEW q \in Seq(Events), NEW p \in 1..Len(q)
    PROVE  Fewer(RemoveAt(q, p), q) /\ Len(RemoveAt(q, p)) = Len(q) - 1
  <1> DEFINE front == SubSeq(q, 1, p - 1)
             back == SubSeq(q, p + 1, Len(q))
             r == RemoveAt(q, p)
  <1>0. Len(q) \in Nat /\ \A n \in 1..Len(q) : q[n] \in Events /\ q[n] \in Elems(q)
    BY Members DEF Elems
  <1>1. r = front \o back
    BY DEF RemoveAt
  <1>2. /\ front \in Seq(Events) /\ Len(front) = p - 1
        /\ \A n \in 1..(p - 1) : front[n] = q[n]
    <2>1. \A n \in 1..(p - 1) : q[n] \in Events
      BY <1>0
    <2> QED BY <1>0, <2>1, SubSeqProperties
  <1>3. /\ back \in Seq(Events) /\ Len(back) = Len(q) - p
        /\ \A n \in 1..(Len(q) - p) : back[n] = q[p + n]
    <2>1. \A n \in (p + 1)..Len(q) : q[n] \in Events
      BY <1>0
    <2> QED BY <1>0, <2>1, SubSeqProperties
  <1> HIDE DEF front, back
  <1>4. /\ front \o back \in Seq(Events)
        /\ Len(front \o back) = Len(front) + Len(back)
        /\ \A n \in 1..(Len(front) + Len(back)) : (front \o back)[n] =
              IF n <= Len(front) THEN front[n] ELSE back[n - Len(front)]
    BY <1>2, <1>3, ConcatProperties
  <1>5. Len(front) + Len(back) = Len(q) - 1
    BY <1>0, <1>2, <1>3
  <1> HIDE DEF r
  <1>6. ASSUME NEW n \in 1..Len(r) PROVE r[n] \in Elems(q)
    <2>1. n \in 1..(Len(front) + Len(back))
      BY <1>1, <1>4
    <2>2. CASE n <= Len(front)
      <3>1. r[n] = front[n] /\ n \in 1..(p - 1) /\ n \in 1..Len(q)
        BY <1>0, <1>1, <1>2, <1>4, <2>1, <2>2
      <3> QED BY <1>0, <1>2, <3>1
    <2>3. CASE ~(n <= Len(front))
      <3>1. /\ r[n] = back[n - Len(front)]
            /\ n - Len(front) \in 1..(Len(q) - p)
            /\ p + (n - Len(front)) \in 1..Len(q)
        BY <1>0, <1>1, <1>2, <1>3, <1>4, <2>1, <2>3
      <3>2. r[n] = q[p + (n - Len(front))]
        BY <1>3, <3>1
      <3> QED BY <1>0, <3>1, <3>2
    <2> QED BY <2>2, <2>3
  <1>7. Elems(r) \subseteq Elems(q)
    BY <1>6 DEF Elems
  <1>8. r \in Seq(Events) /\ Len(r) = Len(q) - 1
    BY <1>1, <1>4, <1>5
  <1> QED BY <1>0, <1>7, <1>8 DEF r, Fewer

\* A queue takes one event more and keeps its bound.
LEMMA Enqueued ==
    ASSUME NEW q \in Seq(Events), Len(q) <= MaxPending, NEW e \in Events
    PROVE  /\ Enqueue(q, e) \in Seq(Events) /\ Len(Enqueue(q, e)) <= MaxPending
           /\ Elems(Enqueue(q, e)) \subseteq Elems(q) \cup {e}
  <1> DEFINE runtime == {n \in DOMAIN q : ~IsProbe(q[n])}
             first == CHOOSE n \in runtime : \A m \in runtime : n <= m
             r == RemoveAt(q, first)
  <1>0. Len(q) \in Nat /\ MaxPending \in Nat /\ DOMAIN q = 1..Len(q)
    BY Members, LenProperties, HealthAssumption
  <1>1. CASE Len(q) < MaxPending
    <2>1. Enqueue(q, e) = Append(q, e)
      BY <1>1 DEF Enqueue
    <2> QED BY <1>0, <1>1, <2>1, Appended
  <1>2. CASE ~(Len(q) < MaxPending) /\ runtime = {}
    <2>1. Enqueue(q, e) = q
      BY <1>2 DEF Enqueue
    <2> QED BY <1>0, <2>1
  <1>3. CASE ~(Len(q) < MaxPending) /\ runtime # {}
    <2>1. Enqueue(q, e) = Append(r, e)
      BY <1>3 DEF Enqueue
    <2>2. first \in 1..Len(q)
      <3>1. runtime \in SUBSET Nat
        BY <1>0
      <3> HIDE DEF runtime
      <3>2. \E n \in runtime : \A m \in runtime : n <= m
        BY <1>3, <3>1, LeastNat
      <3>3. first \in runtime
        BY <3>2
      <3> QED BY <1>0, <3>3 DEF runtime
    <2> HIDE DEF first
    <2>3. Fewer(r, q) /\ Len(r) = Len(q) - 1
      BY <2>2, RemovedAt
    <2> HIDE DEF r
    <2>4. /\ Append(r, e) \in Seq(Events) /\ Len(Append(r, e)) = Len(r) + 1
          /\ Elems(Append(r, e)) \subseteq Elems(r) \cup {e}
      BY <2>3, Appended DEF Fewer
    <2>5. Len(Append(r, e)) <= MaxPending
      BY <1>0, <2>3, <2>4
    <2>6. Elems(Append(r, e)) \subseteq Elems(q) \cup {e}
      BY <2>3, <2>4 DEF Fewer
    <2> QED BY <2>1, <2>4, <2>5, <2>6
  <1> QED BY <1>1, <1>2, <1>3

LEMMA WithoutFrontFewer ==
    ASSUME NEW q \in Seq(Events), NEW e \in Events
    PROVE  Fewer(WithoutFront(q, e), q)
  <1>1. Len(q) \in Nat
    BY Members
  <1>2. CASE InFront(q, e)
    BY <1>2, FrontEvent DEF WithoutFront, InFront
  <1>3. CASE ~InFront(q, e)
    BY <1>1, <1>3 DEF WithoutFront, Fewer
  <1> QED BY <1>2, <1>3

\* An event moved to another generation.
AtGen(e, gen) == [e EXCEPT !.gen = gen]

\* Rebasing changes the generation of the first event if it has the id of e.
LEMMA RebasedEvents ==
    ASSUME NEW q \in Seq(Events), NEW e \in Events, NEW gen \in Nat
    PROVE  /\ Rebased(q, e, gen) \in Seq(Events) /\ Len(Rebased(q, e, gen)) = Len(q)
           /\ \A d \in Elems(Rebased(q, e, gen)) :
                 \/ d \in Elems(q)
                 \/ \E c \in Elems(q) :
                       c.result.id = e.result.id /\ d = AtGen(c, gen)
  <1> DEFINE r == [q EXCEPT ![1].gen = gen]
             d1 == AtGen(q[1], gen)
  <1>1. Len(q) \in Nat
    BY Members
  <1>2. CASE ~InFront(q, e)
    BY <1>1, <1>2 DEF Rebased
  <1>3. CASE InFront(q, e)
    <2>1. /\ q # <<>> /\ Head(q) = q[1] /\ q[1] \in Elems(q) /\ q[1] \in Events
          /\ 1 \in 1..Len(q) /\ q[1].result.id = e.result.id
      BY <1>3, FrontEvent DEF InFront
    <2>2. Rebased(q, e, gen) = r
      BY <1>3 DEF Rebased
    <2>3. d1 \in Events
      BY <2>1 DEF Events, AtGen
    <2>4. r = [q EXCEPT ![1] = d1]
      BY DEF AtGen
    <2> HIDE DEF d1, r
    <2>5. /\ r \in Seq(Events) /\ Len(r) = Len(q) /\ r[1] = d1
          /\ \A n \in 1..Len(q) : n # 1 => r[n] = q[n]
      <3>1. /\ q \in [1..Len(q) -> Events] /\ DOMAIN q = 1..Len(q)
        BY LenProperties
      <3>2. r \in [1..Len(q) -> Events]
        BY <2>1, <2>3, <2>4, <3>1
      <3>3. r \in Seq(Events)
        BY <1>1, <3>2, SeqDef
      <3>4. DOMAIN r = 1..Len(q)
        BY <3>2
      <3>5. Len(r) = Len(q)
        BY <1>1, <3>3, <3>4, LenProperties
      <3> QED BY <2>1, <2>4, <3>1, <3>3, <3>5
    <2>6. ASSUME NEW n \in 1..Len(q)
          PROVE  r[n] \in Elems(q) \/ r[n] = d1
      BY <2>5 DEF Elems
    <2>7. \A d \in Elems(r) : d \in Elems(q) \/ d = d1
      BY <2>5, <2>6 DEF Elems
    <2> QED BY <2>1, <2>2, <2>5, <2>7 DEF d1
  <1> QED BY <1>2, <1>3
\* Append, for proofs that need not know what it does.
Add(s, e) == Append(s, e)

\* g is the table of what is kept of the first events of queue.
Table(queue, boundary, cutoff, n, g) ==
    g = [m \in 0..n |->
            IF m = 0 THEN <<>>
            ELSE IF queue[m].result.id >= boundary /\ queue[m].result.at >= cutoff
                THEN Add(g[m - 1], queue[m])
            ELSE g[m - 1]]

\* There is such a table, by the least length without one.
LEMMA TableExists ==
    ASSUME NEW queue, NEW boundary, NEW cutoff, NEW n \in Nat
    PROVE  \E g : Table(queue, boundary, cutoff, n, g)
  <1> DEFINE Kept(m) == queue[m].result.id >= boundary /\ queue[m].result.at >= cutoff
             Entry(g, m) == IF m = 0 THEN <<>>
                            ELSE IF Kept(m) THEN Add(g[m - 1], queue[m])
                            ELSE g[m - 1]
             Bad == {k \in Nat : ~\E g : Table(queue, boundary, cutoff, k, g)}
  <1> HIDE DEF Kept
  <1>0. ASSUME NEW k \in Nat, NEW g
        PROVE  Table(queue, boundary, cutoff, k, g) <=> g = [m \in 0..k |-> Entry(g, m)]
    BY Zenon DEF Table, Kept
  <1> SUFFICES ASSUME Bad # {} PROVE FALSE
    OBVIOUS
  <1>1. PICK k \in Bad : \A j \in Bad : k <= j
    BY LeastNat
  <1>2. k # 0
    <2> DEFINE g == [m \in 0..0 |-> <<>>]
    <2>1. g = [m \in 0..0 |-> Entry(g, m)]
      OBVIOUS
    <2> HIDE DEF g, Entry
    <2>2. Table(queue, boundary, cutoff, 0, g)
      BY <1>0, <2>1
    <2> QED BY <1>1, <2>2
  <1>3. k \in Nat /\ k - 1 \in Nat /\ k - 1 \notin Bad
    BY <1>1, <1>2
  <1>4. PICK g : Table(queue, boundary, cutoff, k - 1, g)
    BY <1>3
  <1> DEFINE h == [m \in 0..k |-> IF m = k THEN Entry(g, k) ELSE g[m]]
  <1> HIDE DEF Bad
  <1>5. ASSUME NEW m \in 0..(k - 1) PROVE h[m] = g[m] /\ g[m] = Entry(g, m)
    <2>1. g = [j \in 0..(k - 1) |-> Entry(g, j)]
      BY <1>0, <1>3, <1>4
    <2>2. m \in 0..k /\ m # k
      BY <1>3
    <2> HIDE DEF Entry
    <2> QED BY <2>1, <2>2
  <1>6. ASSUME NEW m \in 0..k PROVE h[m] = Entry(h, m)
    <2>1. CASE m = 0
      <3>1. m \in 0..(k - 1)
        BY <1>2, <1>3, <2>1
      <3> HIDE DEF h
      <3> QED BY <1>5, <2>1, <3>1
    <2>2. CASE m # 0
      <3>1. h[m - 1] = g[m - 1]
        <4>1. m - 1 \in 0..(k - 1)
          BY <1>3, <2>2
        <4> HIDE DEF h
        <4> QED BY <1>5, <4>1
      <3>2. h[m] = Entry(g, m)
        <4>1. CASE m = k
          <5> HIDE DEF Entry
          <5> QED BY <1>3, <4>1
        <4>2. CASE m # k
          <5>1. m \in 0..(k - 1)
            BY <1>3, <4>2
          <5> HIDE DEF h
          <5> QED BY <1>5, <5>1
        <4> QED BY <4>1, <4>2
      <3> HIDE DEF h
      <3> QED BY <2>2, <3>1, <3>2
    <2> QED BY <2>1, <2>2
  <1>7. h = [m \in 0..k |-> Entry(h, m)]
    <2>1. h = [m \in 0..k |-> h[m]]
      OBVIOUS
    <2> HIDE DEF h, Entry
    <2> QED BY <1>6, <2>1
  <1> HIDE DEF h
  <1>8. Table(queue, boundary, cutoff, k, h)
    BY <1>0, <1>3, <1>7
  <1> QED BY <1>1, <1>8 DEF Bad

\* Fencing keeps some of the events.
LEMMA FencedFewer ==
    ASSUME NEW q \in Seq(Events), NEW boundary, NEW cutoff
    PROVE  Fewer(Fenced(q, boundary, cutoff), q)
  <1> DEFINE Kept(e) == e.result.id >= boundary /\ e.result.at >= cutoff
             g == CHOOSE first : first = [n \in 0..Len(q) |->
                      IF n = 0 THEN <<>>
                      ELSE IF Kept(q[n]) THEN Append(first[n - 1], q[n])
                      ELSE first[n - 1]]
             Good(n) == g[n] \in Seq(Events) /\ Len(g[n]) <= n
                        /\ Elems(g[n]) \subseteq Elems(q)
             Bad == {n \in 0..Len(q) : ~Good(n)}
  <1>1. Len(q) \in Nat /\ \A n \in 1..Len(q) : q[n] \in Elems(q) /\ q[n] \in Events
    BY Members DEF Elems
  <1>2. Table(q, boundary, cutoff, Len(q), g)
    <2>1. \E h : Table(q, boundary, cutoff, Len(q), h)
      BY <1>1, TableExists
    <2> QED BY <2>1, Zenon DEF Table, Add
  <1>3. Fenced(q, boundary, cutoff) = g[Len(q)]
    BY DEF Fenced
  <1> HIDE DEF g
  <1>4. ASSUME Bad # {} PROVE FALSE
    <2>1. Bad \in SUBSET Nat
      BY <1>1
    <2>2. PICK n \in Bad : \A k \in Bad : n <= k
      <3> HIDE DEF Bad
      <3> QED BY <1>4, <2>1, LeastNat
    <2>3. n \in 0..Len(q) /\ n \in Nat /\ ~Good(n)
      BY <1>1, <2>2
    <2>4. n # 0
      <3>1. g[0] = <<>>
        BY <1>1, <1>2 DEF Table
      <3>2. Good(0)
        BY <1>1, <3>1, EmptyFewer, EmptySeq DEF Fewer
      <3> HIDE DEF Good
      <3> QED BY <2>3, <3>2
    <2>5. n - 1 \in 0..Len(q) /\ Good(n - 1) /\ n \in 1..Len(q)
      <3>1. n - 1 \in 0..Len(q) /\ n \in 1..Len(q) /\ n - 1 < n
        BY <1>1, <2>3, <2>4
      <3>2. n - 1 \notin Bad
        BY <1>1, <2>1, <2>2, <3>1
      <3> HIDE DEF Good
      <3> QED BY <3>1, <3>2
    <2>6. g[n] = Add(g[n - 1], q[n]) \/ g[n] = g[n - 1]
      BY <1>1, <1>2, <2>3, <2>4 DEF Table
    <2>7. CASE g[n] = g[n - 1]
      <3>1. Len(g[n - 1]) \in Nat
        BY <2>5, Members
      <3> QED BY <2>3, <2>5, <2>7, <3>1
    <2>8. CASE g[n] = Add(g[n - 1], q[n])
      <3>1. /\ g[n] \in Seq(Events) /\ Len(g[n]) = Len(g[n - 1]) + 1
            /\ Elems(g[n]) \subseteq Elems(g[n - 1]) \cup {q[n]}
        BY <1>1, <2>5, <2>8, Appended DEF Add
      <3>2. Len(g[n - 1]) \in Nat
        BY <2>5, Members
      <3>3. Len(g[n]) <= n
        BY <2>3, <2>5, <3>1, <3>2
      <3>4. Elems(g[n]) \subseteq Elems(q)
        BY <1>1, <2>5, <3>1
      <3> QED BY <2>3, <3>1, <3>3, <3>4
    <2> QED BY <2>6, <2>7, <2>8
  <1>5. Good(Len(q))
    <2>1. Len(q) \in 0..Len(q)
      BY <1>1
    <2> HIDE DEF Good
    <2> QED BY <1>4, <2>1
  <1> QED BY <1>3, <1>5 DEF Fewer
-----------------------------------------------------------------------------
(* One snapshot *)

LEMMA Fields ==
    ASSUME NEW h \in Healths
    PROVE  /\ h.status \in Statuses /\ h.fails \in Nat /\ h.updated \in Nat
           /\ h.gen \in Nat /\ h.config \in {0} \cup Configs
           /\ h.counts \in SUBSET Results
           /\ h # None
  BY HealthAssumption DEF Healths

LEMMA EventFields ==
    ASSUME NEW e \in Events
    PROVE  /\ e.result \in Results /\ e.verdict \in Verdicts
           /\ e.config \in {0} \cup Configs /\ e.gen \in Nat /\ e.expected \in Nat
           /\ e.snapshot \in Healths \cup {None}
           /\ e.result.by \in Replicas /\ e.result.id \in Nat
           /\ e.result.at \in Nat /\ e.result.at \in 0..MaxTime
  <1>1. /\ e.result \in Results /\ e.verdict \in Verdicts
        /\ e.config \in {0} \cup Configs /\ e.gen \in Nat /\ e.expected \in Nat
        /\ e.snapshot \in Healths \cup {None}
    BY DEF Events
  <1>2. /\ e.result.by \in Replicas /\ e.result.id \in Nat
        /\ e.result.at \in 0..MaxTime
    BY <1>1 DEF Results
  <1> QED BY <1>1, <1>2, HealthAssumption

LEMMA LaterOf ==
    ASSUME NEW a \in Nat, NEW b \in Nat
    PROVE  Later(a, b) \in Nat /\ Later(a, b) >= a /\ Later(a, b) >= b
           /\ Later(a, b) \in {a, b}
  BY DEF Later

\* mark_success_at and mark_failure_at count one result more.
LEMMA MarkedOf ==
    ASSUME NEW h \in Healths, NEW v \in Verdicts, NEW x \in Results
    PROVE  /\ Marked(h, v, x) \in Healths
           /\ Marked(h, v, x).updated = h.updated /\ Marked(h, v, x).gen = h.gen
           /\ Marked(h, v, x).config = h.config
           /\ Marked(h, v, x).counts = h.counts \cup {x}
  <1> DEFINE fails == IF v = "success" THEN 0 ELSE h.fails + 1
             status == CASE v = "success" -> "healthy"
                         [] v = "hard" \/ fails >= QuarantineAfter -> "unhealthy"
                         [] OTHER -> "degraded"
             m == [status |-> status, fails |-> fails, updated |-> h.updated,
                   gen |-> h.gen, config |-> h.config, counts |-> h.counts \cup {x}]
  <1>0. /\ h.status \in Statuses /\ h.fails \in Nat /\ h.updated \in Nat
        /\ h.gen \in Nat /\ h.config \in {0} \cup Configs
        /\ h.counts \in SUBSET Results
    BY Fields
  <1>1. fails \in Nat
    BY <1>0
  <1> HIDE DEF fails
  <1>2. status \in Statuses
    BY DEF Statuses
  <1> HIDE DEF status
  <1>3. Marked(h, v, x) =
            [h EXCEPT !.fails = fails, !.status = status, !.counts = @ \cup {x}]
    BY DEF Marked, fails, status
  <1>4. Marked(h, v, x) = m
    BY <1>3 DEF Healths
  <1>5. m \in Healths
    BY <1>0, <1>1, <1>2 DEF Healths
  <1> QED BY <1>4, <1>5

LEMMA MergedOf ==
    ASSUME NEW h \in Healths, NEW v \in Verdicts, NEW x \in Results
    PROVE  /\ Merged(h, v, x) \in Healths
           /\ Merged(h, v, x).updated > h.updated /\ Merged(h, v, x).gen = h.gen
           /\ Merged(h, v, x).config = h.config
           /\ Merged(h, v, x).counts = h.counts \cup {x}
  <1> DEFINE m == Marked(h, v, x)
             u == Later(m.updated, x.at) + 1
             r == [status |-> m.status, fails |-> m.fails, updated |-> u,
                   gen |-> m.gen, config |-> m.config, counts |-> m.counts]
  <1>1. /\ m \in Healths /\ m.updated = h.updated /\ m.gen = h.gen
        /\ m.config = h.config /\ m.counts = h.counts \cup {x}
    BY MarkedOf
  <1>2. x.at \in Nat
    BY HealthAssumption DEF Results
  <1> HIDE DEF m
  <1>3. h.updated \in Nat /\ m.updated \in Nat
    BY <1>1, Fields
  <1>4. u \in Nat /\ u > h.updated
    <2>1. /\ Later(m.updated, x.at) \in Nat
          /\ Later(m.updated, x.at) >= m.updated
      BY <1>2, <1>3, LaterOf
    <2> QED BY <1>1, <1>3, <2>1
  <1>5. Merged(h, v, x) = [m EXCEPT !.updated = u]
    BY DEF Merged, m
  <1> HIDE DEF u
  <1>6. Merged(h, v, x) = r
    BY <1>1, <1>5 DEF Healths
  <1>7. r \in Healths
    <2>1. /\ m.status \in Statuses /\ m.fails \in Nat /\ m.gen \in Nat
          /\ m.config \in {0} \cup Configs /\ m.counts \in SUBSET Results
      BY <1>1, Fields
    <2> QED BY <1>4, <2>1 DEF Healths
  <1> QED BY <1>1, <1>4, <1>6, <1>7

LEMMA ProbedOf ==
    ASSUME NEW h \in Healths, NEW v \in Verdicts, NEW x \in Results
    PROVE  /\ Probed(h, v, x) \in Healths
           /\ Probed(h, v, x).gen = h.gen + 1
           /\ Probed(h, v, x).config = h.config
           /\ Probed(h, v, x).counts = h.counts \cup {x}
  <1> DEFINE m == Marked(h, v, x)
             u == Later(m.updated, x.at)
             r == [status |-> m.status, fails |-> m.fails, updated |-> u,
                   gen |-> m.gen + 1, config |-> m.config, counts |-> m.counts]
  <1>1. /\ m \in Healths /\ m.updated = h.updated /\ m.gen = h.gen
        /\ m.config = h.config /\ m.counts = h.counts \cup {x}
    BY MarkedOf
  <1>2. x.at \in Nat
    BY HealthAssumption DEF Results
  <1> HIDE DEF m
  <1>3. m.updated \in Nat
    BY <1>1, Fields
  <1>4. u \in Nat
    BY <1>2, <1>3, LaterOf
  <1>5. Probed(h, v, x) = [m EXCEPT !.updated = u, !.gen = @ + 1]
    BY DEF Probed, m
  <1> HIDE DEF u
  <1>6. Probed(h, v, x) = r
    BY <1>1, <1>5 DEF Healths
  <1>7. r \in Healths
    <2>1. /\ m.status \in Statuses /\ m.fails \in Nat /\ m.gen \in Nat
          /\ m.config \in {0} \cup Configs /\ m.counts \in SUBSET Results
      BY <1>1, Fields
    <2> QED BY <1>4, <2>1 DEF Healths
  <1> QED BY <1>1, <1>6, <1>7

\* A mirror that starts without the row.
LEMMA NewOf ==
    ASSUME NEW c \in {0} \cup Configs, NEW at \in Nat
    PROVE  /\ New(c, at) \in Healths /\ New(c, at).gen = 0
           /\ New(c, at).config = c /\ New(c, at).counts = {}
           /\ New(c, at).updated = at
  BY DEF New, Healths, Statuses

\* h2 counts no more than h and is of the same generation or a later one.
Follows(h2, h) ==
    h2 = None \/ (h # None /\ h2.counts \subseteq h.counts /\ h2.gen >= h.gen)

\* Raising the generation of a mirror.
LEMMA AtLeastGenOf ==
    ASSUME NEW h \in Healths \cup {None}, NEW gen \in Nat
    PROVE  /\ AtLeastGen(h, gen) \in Healths \cup {None}
           /\ Follows(AtLeastGen(h, gen), h)
           /\ AtLeastGen(h, gen) # None =>
                 AtLeastGen(h, gen).gen = gen \/ AtLeastGen(h, gen).gen = h.gen
  <1>1. CASE h = None
    BY <1>1 DEF AtLeastGen, Follows
  <1>2. CASE h # None
    <2> DEFINE u == Later(h.gen, gen)
               r == [status |-> h.status, fails |-> h.fails, updated |-> h.updated,
                     gen |-> u, config |-> h.config, counts |-> h.counts]
    <2>0. h \in Healths
      BY <1>2
    <2>1. /\ h.status \in Statuses /\ h.fails \in Nat /\ h.updated \in Nat
          /\ h.gen \in Nat /\ h.config \in {0} \cup Configs
          /\ h.counts \in SUBSET Results
      BY <2>0, Fields
    <2>2. u \in Nat /\ u >= h.gen /\ u \in {h.gen, gen}
      BY <2>1, LaterOf
    <2>3. AtLeastGen(h, gen) = [h EXCEPT !.gen = u]
      BY <1>2 DEF AtLeastGen
    <2> HIDE DEF u
    <2>4. AtLeastGen(h, gen) = r
      BY <2>0, <2>3 DEF Healths
    <2>5. r \in Healths
      BY <2>1, <2>2 DEF Healths
    <2> QED BY <1>2, <2>2, <2>4, <2>5 DEF Follows
  <1> QED BY <1>1, <1>2

LEMMA ReconciledStaleOf ==
    ASSUME NEW h \in Healths \cup {None}, NEW f \in Healths
    PROVE  /\ ReconciledStale(h, f) \in Healths \cup {None}
           /\ Follows(ReconciledStale(h, f), h)
           /\ ReconciledStale(h, f) # None =>
                 ReconciledStale(h, f).gen = f.gen \/ ReconciledStale(h, f).gen = h.gen
  <1>1. ReconciledStale(h, f) = None \/ ReconciledStale(h, f) = AtLeastGen(h, f.gen)
    BY DEF ReconciledStale
  <1>2. f.gen \in Nat
    BY Fields
  <1>3. CASE ReconciledStale(h, f) = None
    BY <1>3 DEF Follows
  <1>4. CASE ReconciledStale(h, f) = AtLeastGen(h, f.gen)
    BY <1>2, <1>4, AtLeastGenOf
  <1> QED BY <1>1, <1>3, <1>4
-----------------------------------------------------------------------------
(* The row *)

\* What the statement for an event leaves in the row.
LEMMA StoredOf ==
    ASSUME row \in Healths, NEW e \in Events
    PROVE  /\ Stored(e) \in Healths /\ Stored(e).config = row.config
           /\ ~IsProbe(e) => /\ Stored(e).gen = row.gen
                             /\ Stored(e).updated > row.updated
                             /\ Stored(e).counts = row.counts \cup {e.result}
           /\ IsProbe(e) => /\ Stored(e).gen = row.gen + 1
                            /\ Stored(e).counts = e.snapshot.counts
  <1>0. /\ e.result \in Results /\ e.verdict \in Verdicts /\ e.result.at \in Nat
        /\ e.snapshot \in Healths \cup {None}
    BY EventFields
  <1>1. CASE ~IsProbe(e)
    <2>1. Stored(e) = Merged(row, e.verdict, e.result)
      BY <1>1 DEF Stored
    <2> QED BY <1>0, <1>1, <2>1, MergedOf
  <1>2. CASE IsProbe(e)
    <2> DEFINE h == e.snapshot
               u == Later(row.updated, e.result.at)
               r == [status |-> h.status, fails |-> h.fails, updated |-> u,
                     gen |-> row.gen + 1, config |-> row.config,
                     counts |-> h.counts]
    <2>1. h \in Healths
      BY <1>0, <1>2 DEF IsProbe
    <2>2. row.updated \in Nat /\ row.gen \in Nat /\ row.config \in {0} \cup Configs
      BY Fields
    <2>3. u \in Nat
      BY <1>0, <2>2, LaterOf
    <2>4. Stored(e) = [h EXCEPT !.updated = u, !.gen = row.gen + 1,
                                !.config = row.config]
      BY <1>2 DEF Stored
    <2> HIDE DEF h, u
    <2>5. Stored(e) = r
      BY <2>1, <2>4 DEF Healths
    <2>6. h.status \in Statuses /\ h.fails \in Nat /\ h.counts \in SUBSET Results
      BY <2>1, Fields
    <2>7. r \in Healths
      BY <2>2, <2>3, <2>6 DEF Healths
    <2> QED BY <1>2, <2>5, <2>7 DEF h
  <1> QED BY <1>1, <1>2

LEMMA ResetRowOf ==
    ASSUME row \in Healths, now \in Nat
    PROVE  /\ ResetRow \in Healths /\ ResetRow.config = row.config
           /\ ResetRow.gen = row.gen + 1 /\ ResetRow.counts = {}
           /\ ResetRow.updated > now
  <1> DEFINE u == Later(row.updated, now) + 1
             r == [status |-> "unknown", fails |-> 0, updated |-> u,
                   gen |-> row.gen + 1, config |-> row.config, counts |-> {}]
  <1>1. row.updated \in Nat /\ row.gen \in Nat /\ row.config \in {0} \cup Configs
    BY Fields
  <1>2. u \in Nat /\ u > now
    <2>1. Later(row.updated, now) \in Nat /\ Later(row.updated, now) >= now
      BY <1>1, LaterOf
    <2> QED BY <2>1
  <1>3. ResetRow = [New(row.config, u) EXCEPT !.gen = row.gen + 1]
    BY DEF ResetRow
  <1> HIDE DEF u
  <1>4. ResetRow = r
    BY <1>3 DEF New
  <1>5. r \in Healths
    BY <1>1, <1>2 DEF Healths, Statuses
  <1> QED BY <1>2, <1>4, <1>5

\* Account::update moves the row to the next configuration and generation.
LEMMA ChangedRowOf ==
    ASSUME row \in Healths, now \in Nat, row.config + 1 \in Configs, ChangeConfig
    PROVE  /\ row' \in Healths /\ row'.config = row.config + 1
           /\ row'.gen = row.gen + 1 /\ row'.counts = row.counts
           /\ row'.updated > row.updated
  <1> DEFINE u == Later(row.updated, now) + 1
             r == [status |-> row.status, fails |-> row.fails, updated |-> u,
                   gen |-> row.gen + 1, config |-> row.config + 1,
                   counts |-> row.counts]
  <1>1. /\ row.status \in Statuses /\ row.fails \in Nat /\ row.updated \in Nat
        /\ row.gen \in Nat /\ row.counts \in SUBSET Results
    BY Fields
  <1>2. u \in Nat /\ u > row.updated
    <2>1. Later(row.updated, now) \in Nat /\ Later(row.updated, now) >= row.updated
      BY <1>1, LaterOf
    <2> QED BY <1>1, <2>1
  <1>3. row' = [row EXCEPT !.updated = u, !.gen = @ + 1, !.config = @ + 1]
    BY DEF ChangeConfig
  <1> HIDE DEF u
  <1>4. row' = r
    BY <1>3 DEF Healths
  <1>5. r \in Healths
    BY <1>1, <1>2 DEF Healths
  <1> QED BY <1>2, <1>4, <1>5

-----------------------------------------------------------------------------
(* Clean snapshots *)

\* A snapshot that follows a clean one is clean.
LEMMA CleanFollows ==
    ASSUME NEW ids, NEW P, \A e \in P : e.gen \in Nat,
           NEW h \in Healths \cup {None}, Clean(h, ids, P),
           NEW h2 \in Healths \cup {None}, Follows(h2, h)
    PROVE  Clean(h2, ids, P)
  <1> SUFFICES ASSUME h2 # None, NEW x \in h2.counts
               PROVE  /\ x.id < ids[x.by]
                      /\ \A e \in P : e.result = x => h2.gen > e.gen
    BY DEF Clean
  <1>1. h # None /\ x \in h.counts /\ h2.gen >= h.gen
    BY DEF Follows
  <1>2. h.gen \in Nat /\ h2.gen \in Nat
    BY <1>1, Fields
  <1> QED BY <1>1, <1>2 DEF Clean

\* Ids go on and probes end.
LEMMA CleanKeeps ==
    ASSUME NEW ids \in [Replicas -> Nat], NEW ids2 \in [Replicas -> Nat],
           \A i \in Replicas : ids[i] <= ids2[i],
           NEW P, NEW P2, P2 \subseteq P,
           NEW h \in Healths \cup {None}, Clean(h, ids, P)
    PROVE  Clean(h, ids2, P2)
  <1> SUFFICES ASSUME h # None, NEW x \in h.counts
               PROVE  /\ x.id < ids2[x.by]
                      /\ \A e \in P2 : e.result = x => h.gen > e.gen
    BY DEF Clean
  <1>1. x \in Results
    BY Fields
  <1>2. x.id \in Nat /\ x.by \in Replicas
    BY <1>1 DEF Results
  <1>3. x.id < ids[x.by] /\ \A e \in P : e.result = x => h.gen > e.gen
    BY DEF Clean
  <1>4. ids[x.by] \in Nat /\ ids2[x.by] \in Nat /\ ids[x.by] <= ids2[x.by]
    BY <1>2
  <1> QED BY <1>2, <1>3, <1>4

\* A probe that begins its way with an id nobody has counted.
LEMMA CleanWithNew ==
    ASSUME NEW ids, NEW P, NEW h \in Healths \cup {None}, Clean(h, ids, P),
           ids \in [Replicas -> Nat],
           NEW e \in Events, ids[e.result.by] <= e.result.id
    PROVE  Clean(h, ids, P \cup {e})
  <1> SUFFICES ASSUME h # None, NEW x \in h.counts, NEW d \in P \cup {e},
                      d.result = x
               PROVE  h.gen > d.gen
    BY DEF Clean
  <1>1. x.id < ids[x.by]
    BY DEF Clean
  <1>2. e.result.by \in Replicas /\ e.result.id \in Nat
    BY EventFields
  <1>3. ids[e.result.by] \in Nat
    BY <1>2
  <1>4. d # e
    BY <1>1, <1>2, <1>3
  <1> QED BY <1>4 DEF Clean

\* A snapshot that counts one result more, of no probe in P.
LEMMA CleanCounts ==
    ASSUME NEW ids, NEW P, NEW h \in Healths, Clean(h, ids, P), NEW x,
           x.id < ids[x.by], \A e \in P : e.result # x,
           NEW h2 \in Healths, h2.gen = h.gen, h2.counts = h.counts \cup {x}
    PROVE  Clean(h2, ids, P)
  <1>1. h # None
    BY Fields
  <1> QED BY <1>1 DEF Clean
-----------------------------------------------------------------------------
(* Types *)

LEMMA BoundsOf ==
    /\ DOMAIN Bounds = {"results", "probes", "resets", "configs", "faults"}
    /\ \A b \in DOMAIN Bounds : Bounds[b] \in Nat
    /\ Bounds["configs"] = MaxConfigs
  BY HealthAssumption DEF Bounds

LEMMA UsedOf ==
    ASSUME HealthTypes, NEW what \in DOMAIN Bounds, Use(what)
    PROVE  /\ used' \in [DOMAIN Bounds -> Nat]
           /\ \A b \in DOMAIN Bounds : used'[b] <= Bounds[b]
           /\ \A b \in DOMAIN Bounds :
                 used'[b] = IF b = what THEN used[b] + 1 ELSE used[b]
           /\ used[what] < Bounds[what]
  <1>1. /\ used \in [DOMAIN Bounds -> Nat] /\ used[what] < Bounds[what]
        /\ used' = [used EXCEPT ![what] = @ + 1]
        /\ \A b \in DOMAIN Bounds : used[b] <= Bounds[b]
    BY DEF HealthTypes, Use
  <1>2. used' \in [DOMAIN Bounds -> Nat]
    BY <1>1
  <1>3. \A b \in DOMAIN Bounds :
            used'[b] = IF b = what THEN used[b] + 1 ELSE used[b]
    BY <1>1
  <1>4. ASSUME NEW b \in DOMAIN Bounds PROVE used'[b] <= Bounds[b]
    <2>1. used[b] \in Nat /\ Bounds[b] \in Nat /\ used[b] <= Bounds[b]
      BY <1>1, BoundsOf
    <2> QED BY <1>1, <1>3, <2>1
  <1> QED BY <1>1, <1>2, <1>3, <1>4

LEMMA JobFields ==
    ASSUME NEW j \in Jobs
    PROVE  /\ j.step \in {"reload", "reconcile"} => j.event \in Events
           /\ j.step \in {"reconcile", "fence"} => j.found \in Healths \cup {None}
           /\ j.step \in {"reset", "fence"} => j.boundary \in Nat
  BY DEF Jobs, Idle

LEMMA JobMade ==
    /\ Idle \in Jobs /\ Idle.step = "idle"
    /\ \A e \in Events : [step |-> "reload", event |-> e] \in Jobs
    /\ \A e \in Events, f \in Healths \cup {None} :
          [step |-> "reconcile", event |-> e, found |-> f] \in Jobs
    /\ \A b \in Nat : [step |-> "reset", boundary |-> b] \in Jobs
    /\ \A b \in Nat, f \in Healths \cup {None} :
          [step |-> "fence", boundary |-> b, found |-> f] \in Jobs
  BY DEF Jobs, Idle

LEMMA ProbeFields ==
    ASSUME NEW p \in Probes, p # None
    PROVE  /\ p.step = "save" => p.event \in Events
           /\ p.step = "running" => /\ p.config \in Configs /\ p.updated \in Nat
                                    /\ p.gen \in Nat
  BY DEF Probes

LEMMA ProbeMade ==
    /\ None \in Probes
    /\ \A c \in Configs, u \in Nat, g \in Nat :
          [step |-> "running", config |-> c, updated |-> u, gen |-> g] \in Probes
    /\ \A e \in Events : [step |-> "save", event |-> e] \in Probes
  BY DEF Probes

\* Hydrating a mirror.
LEMMA Hydration ==
    ASSUME HealthTypes, NEW i \in Replicas, Hydrate(i)
    PROVE  /\ loaded[i] \in Healths /\ loaded[i].config \in Configs
           /\ local' \in [Replicas -> Healths \cup {None}]
           /\ local'[i] \in Healths /\ local'[i] \in {local[i], loaded[i]}
           /\ \A j \in Replicas : j # i => local'[j] = local[j]
           /\ tracked' \in [Replicas -> BOOLEAN]
           /\ loaded' \in [Replicas -> Healths \cup {None}]
           /\ loaded'[i] = None
           /\ \A j \in Replicas : j # i => loaded'[j] = loaded[j]
           /\ \A j \in Replicas : loaded'[j] # None => loaded'[j].config \in Configs
  <1>0. /\ local \in [Replicas -> Healths \cup {None}]
        /\ loaded \in [Replicas -> Healths \cup {None}]
        /\ tracked \in [Replicas -> BOOLEAN]
        /\ \A j \in Replicas : loaded[j] # None => loaded[j].config \in Configs
    BY DEF HealthTypes
  <1>1. /\ loaded[i] # None
        /\ local' = [local EXCEPT ![i] = Hydrated(local[i], loaded[i])]
        /\ tracked' = [tracked EXCEPT ![i] = TRUE]
        /\ loaded' = [loaded EXCEPT ![i] = None]
    BY DEF Hydrate
  <1>2. loaded[i] \in Healths /\ loaded[i].config \in Configs
    BY <1>0, <1>1
  <1>3. /\ Hydrated(local[i], loaded[i]) \in {local[i], loaded[i]}
        /\ Hydrated(local[i], loaded[i]) # None
    BY <1>1 DEF Hydrated
  <1>4. Hydrated(local[i], loaded[i]) \in Healths
    BY <1>0, <1>2, <1>3
  <1> QED BY <1>0, <1>1, <1>2, <1>3, <1>4
\* The queue of replica i becomes q.
LEMMA QueueSet ==
    ASSUME HealthTypes, NEW i \in Replicas, NEW q \in Seq(Events),
           Len(q) <= MaxPending, pending' = [pending EXCEPT ![i] = q]
    PROVE  /\ pending' \in [Replicas -> Seq(Events)] /\ pending'[i] = q
           /\ \A j \in Replicas : Len(pending'[j]) <= MaxPending
           /\ \A j \in Replicas : j # i => pending'[j] = pending[j]
  <1>1. /\ pending \in [Replicas -> Seq(Events)]
        /\ \A j \in Replicas : Len(pending[j]) <= MaxPending
    BY DEF HealthTypes
  <1>2. /\ pending' \in [Replicas -> Seq(Events)] /\ pending'[i] = q
        /\ \A j \in Replicas : j # i => pending'[j] = pending[j]
    BY <1>1
  <1> QED BY <1>1, <1>2

\* A queue that only loses events keeps its bound.
LEMMA QueueFewer ==
    ASSUME HealthTypes, NEW i \in Replicas, NEW q, Fewer(q, pending[i]),
           pending' = [pending EXCEPT ![i] = q]
    PROVE  /\ pending' \in [Replicas -> Seq(Events)] /\ pending'[i] = q
           /\ \A j \in Replicas : Len(pending'[j]) <= MaxPending
           /\ \A j \in Replicas : j # i => pending'[j] = pending[j]
           /\ \A j \in Replicas : Elems(pending'[j]) \subseteq Elems(pending[j])
  <1>1. pending[i] \in Seq(Events) /\ Len(pending[i]) <= MaxPending
    BY DEF HealthTypes
  <1>2. /\ q \in Seq(Events) /\ Len(q) <= Len(pending[i])
        /\ Elems(q) \subseteq Elems(pending[i])
    BY DEF Fewer
  <1>3. Len(q) <= MaxPending
    <2>1. Len(q) \in Nat /\ Len(pending[i]) \in Nat /\ MaxPending \in Nat
      BY <1>1, <1>2, Members, HealthAssumption
    <2> QED BY <1>1, <1>2, <2>1
  <1>4. /\ pending' \in [Replicas -> Seq(Events)] /\ pending'[i] = q
        /\ \A j \in Replicas : Len(pending'[j]) <= MaxPending
        /\ \A j \in Replicas : j # i => pending'[j] = pending[j]
    BY <1>2, <1>3, QueueSet
  <1>5. \A j \in Replicas : Elems(pending'[j]) \subseteq Elems(pending[j])
    BY <1>2, <1>4
  <1> QED BY <1>4, <1>5

\* Replica i records event e, the result of a request, on mirror m.
RecordedAs(i, m, e) ==
    /\ m = local[i] \/ (m.gen = 0 /\ m.counts = {})
    /\ ~IsProbe(e) /\ e.gen = m.gen
    /\ e.result.by = i /\ e.result.id = nextId[i] /\ e.result.at = now
    /\ local' \in [Replicas -> Healths \cup {None}]
    /\ local'[i] \in Healths /\ local'[i].gen = m.gen
    /\ local'[i].counts = m.counts \cup {e.result}
    /\ \A j \in Replicas : j # i => local'[j] = local[j]
    /\ pending' \in [Replicas -> Seq(Events)]
    /\ \A j \in Replicas : Len(pending'[j]) <= MaxPending
    /\ Elems(pending'[i]) \subseteq Elems(pending[i]) \cup {e}
    /\ \A j \in Replicas : j # i => pending'[j] = pending[j]

\* What recording the result of a request does.
LEMMA ResultRecorded ==
    ASSUME HealthTypes, NEW i \in Replicas, NEW c \in routed[i],
           NEW v \in Verdicts, RecordResult(i, c, v)
    PROVE  \E m \in Healths, e \in Events : RecordedAs(i, m, e)
  <1> DEFINE m == IF local[i] = None THEN New(0, now) ELSE local[i]
             x == [by |-> i, id |-> nextId[i], at |-> now, config |-> c]
             e == [result |-> x, verdict |-> v, config |-> m.config, gen |-> m.gen,
                   expected |-> 0, snapshot |-> None]
  <1>0. /\ local \in [Replicas -> Healths \cup {None}] /\ nextId[i] \in Nat
        /\ c \in Configs /\ now \in 0..MaxTime /\ now \in Nat
        /\ pending[i] \in Seq(Events) /\ Len(pending[i]) <= MaxPending
    BY HealthAssumption DEF HealthTypes
  <1>1. m \in Healths /\ (m = local[i] \/ (m.gen = 0 /\ m.counts = {}))
    <2>1. CASE local[i] = None
      BY <1>0, <2>1, NewOf
    <2>2. CASE local[i] # None
      BY <1>0, <2>2
    <2> QED BY <2>1, <2>2
  <1>2. x \in Results
    BY <1>0 DEF Results
  <1>3. /\ local' = [local EXCEPT ![i] = Merged(m, v, x)]
        /\ pending' = [pending EXCEPT ![i] = Enqueue(pending[i], e)]
    BY DEF RecordResult
  <1>4. x.by = i /\ x.id = nextId[i] /\ x.at = now
    OBVIOUS
  <1> HIDE DEF m, x
  <1>5. e \in Events
    <2>1. m.config \in {0} \cup Configs /\ m.gen \in Nat
      BY <1>1, Fields
    <2> QED BY <1>2, <2>1 DEF Events
  <1>6. /\ ~IsProbe(e) /\ e.gen = m.gen /\ e.result = x
    BY DEF IsProbe
  <1> HIDE DEF e
  <1>7. /\ Merged(m, v, x) \in Healths /\ Merged(m, v, x).gen = m.gen
        /\ Merged(m, v, x).counts = m.counts \cup {x}
    BY <1>1, <1>2, MergedOf
  <1>8. /\ local' \in [Replicas -> Healths \cup {None}]
        /\ local'[i] = Merged(m, v, x)
        /\ \A j \in Replicas : j # i => local'[j] = local[j]
    BY <1>0, <1>3, <1>7
  <1> DEFINE q == Enqueue(pending[i], e)
  <1>9. /\ q \in Seq(Events) /\ Len(q) <= MaxPending
        /\ Elems(q) \subseteq Elems(pending[i]) \cup {e}
    BY <1>0, <1>5, Enqueued
  <1>10. pending' = [pending EXCEPT ![i] = q]
    BY <1>3
  <1> HIDE DEF q
  <1>11. /\ pending' \in [Replicas -> Seq(Events)] /\ pending'[i] = q
         /\ \A j \in Replicas : Len(pending'[j]) <= MaxPending
         /\ \A j \in Replicas : j # i => pending'[j] = pending[j]
    BY <1>9, <1>10, QueueSet
  <1>12. RecordedAs(i, m, e)
    BY <1>1, <1>4, <1>6, <1>7, <1>8, <1>9, <1>11 DEF RecordedAs
  <1> QED BY <1>1, <1>5, <1>12

\* Replica i records event e, the result of a probe.
ProbedAs(i, e) ==
    /\ IsProbe(e) /\ e.gen = local[i].gen /\ local[i] \in Healths
    /\ e.result.by = i /\ e.result.id = nextId[i]
    /\ e.snapshot \in Healths /\ e.snapshot.gen = e.gen + 1
    /\ e.snapshot.counts = local[i].counts \cup {e.result}
    /\ local' \in [Replicas -> Healths \cup {None}]
    /\ local'[i] = e.snapshot
    /\ \A j \in Replicas : j # i => local'[j] = local[j]
    /\ pending' \in [Replicas -> Seq(Events)]
    /\ \A j \in Replicas : Len(pending'[j]) <= MaxPending
    /\ Elems(pending'[i]) \subseteq Elems(pending[i]) \cup {e}
    /\ \A j \in Replicas : j # i => pending'[j] = pending[j]
    /\ probe' \in [Replicas -> Probes]
    /\ probe'[i].event = e
    /\ \A j \in Replicas : j # i => probe'[j] = probe[j]

\* What recording the result of a probe does.
LEMMA ProbeRecorded ==
    ASSUME HealthTypes, NEW i \in Replicas, NEW v \in Verdicts, RecordProbe(i, v)
    PROVE  \E e \in Events : ProbedAs(i, e)
  <1> DEFINE p == probe[i]
             x == [by |-> i, id |-> nextId[i], at |-> now, config |-> p.config]
             s == Probed(local[i], v, x)
             e == [result |-> x, verdict |-> v, config |-> p.config,
                   gen |-> p.gen, expected |-> p.updated, snapshot |-> s]
  <1>0. /\ local \in [Replicas -> Healths \cup {None}] /\ nextId[i] \in Nat
        /\ probe \in [Replicas -> Probes] /\ now \in 0..MaxTime
        /\ pending[i] \in Seq(Events) /\ Len(pending[i]) <= MaxPending
    BY DEF HealthTypes
  <1>1. /\ p # None /\ p.step = "running" /\ local[i] # None
        /\ local[i].gen = p.gen
        /\ local' = [local EXCEPT ![i] = s]
        /\ pending' = [pending EXCEPT ![i] = Enqueue(pending[i], e)]
        /\ probe' = [probe EXCEPT ![i] = [step |-> "save", event |-> e]]
    BY DEF RecordProbe
  <1>2. p \in Probes /\ local[i] \in Healths
    BY <1>0, <1>1
  <1> HIDE DEF p
  <1>3. p.config \in Configs /\ p.updated \in Nat /\ p.gen \in Nat
    BY <1>1, <1>2, ProbeFields
  <1>4. x \in Results
    BY <1>0, <1>3 DEF Results
  <1>5. x.by = i /\ x.id = nextId[i]
    OBVIOUS
  <1> HIDE DEF x
  <1>6. s \in Healths /\ s.gen = local[i].gen + 1 /\ s.counts = local[i].counts \cup {x}
    BY <1>2, <1>4, ProbedOf
  <1>7. s # None
    BY <1>6, Fields
  <1> HIDE DEF s
  <1>8. e \in Events
    BY <1>3, <1>4, <1>6 DEF Events
  <1>9. IsProbe(e) /\ e.gen = p.gen /\ e.result = x /\ e.snapshot = s
    BY <1>7 DEF IsProbe
  <1> HIDE DEF e
  <1> DEFINE q == Enqueue(pending[i], e)
  <1>10. /\ q \in Seq(Events) /\ Len(q) <= MaxPending
         /\ Elems(q) \subseteq Elems(pending[i]) \cup {e}
    BY <1>0, <1>8, Enqueued
  <1>11. pending' = [pending EXCEPT ![i] = q]
    BY <1>1
  <1> HIDE DEF q
  <1>12. /\ pending' \in [Replicas -> Seq(Events)] /\ pending'[i] = q
         /\ \A j \in Replicas : Len(pending'[j]) <= MaxPending
         /\ \A j \in Replicas : j # i => pending'[j] = pending[j]
    BY <1>10, <1>11, QueueSet
  <1>13. [step |-> "save", event |-> e] \in Probes
    BY <1>8, ProbeMade
  <1>14. /\ probe' \in [Replicas -> Probes] /\ probe'[i].event = e
         /\ \A j \in Replicas : j # i => probe'[j] = probe[j]
    BY <1>0, <1>1, <1>13
  <1>15. /\ local' \in [Replicas -> Healths \cup {None}] /\ local'[i] = s
         /\ \A j \in Replicas : j # i => local'[j] = local[j]
    BY <1>0, <1>1, <1>6
  <1>16. ProbedAs(i, e)
    BY <1>1, <1>2, <1>5, <1>6, <1>9, <1>10, <1>12, <1>14, <1>15 DEF ProbedAs
  <1> QED BY <1>8, <1>16
\* What reconciling a runtime event with the row does.
LEMMA Reconciled ==
    ASSUME HealthTypes, NEW i \in Replicas, Reconcile(i)
    PROVE  /\ job[i].step = "reconcile" /\ job[i].event \in Events
           /\ job[i].found \in Healths
           /\ local' \in [Replicas -> Healths \cup {None}]
           /\ Follows(local'[i], job[i].found) \/ Follows(local'[i], local[i])
           /\ local'[i] # None =>
                 \/ local'[i].gen = job[i].found.gen
                 \/ local[i] # None /\ local'[i].gen = local[i].gen
           /\ \A j \in Replicas : j # i => local'[j] = local[j]
           /\ pending' \in [Replicas -> Seq(Events)]
           /\ \A j \in Replicas : Len(pending'[j]) <= MaxPending
           /\ \A d \in Elems(pending'[i]) :
                 \/ d \in Elems(pending[i])
                 \/ \E c \in Elems(pending[i]) :
                       /\ c.result.id = job[i].event.result.id
                       /\ job[i].event.result.at > job[i].found.updated
                       /\ d = AtGen(c, job[i].found.gen)
           /\ \A j \in Replicas : j # i => pending'[j] = pending[j]
  <1> DEFINE e == job[i].event
             f == job[i].found
             q == pending[i]
  <1>0. /\ local \in [Replicas -> Healths \cup {None}] /\ job[i] \in Jobs
        /\ q \in Seq(Events) /\ Len(q) <= MaxPending /\ local[i] \in Healths \cup {None}
    BY DEF HealthTypes
  <1>1. job[i].step = "reconcile" /\ f # None
    BY DEF Reconcile
  <1>2. e \in Events /\ f \in Healths
    <2> HIDE DEF e, f
    <2>1. job[i].event \in Events /\ job[i].found \in Healths \cup {None}
      BY <1>0, <1>1, JobFields
    <2> QED BY <1>1, <2>1 DEF e, f
  <1>3. f.gen \in Nat /\ f.updated \in Nat /\ e.result.at \in Nat
    BY <1>2, Fields, EventFields
  <1>4. CASE StaleConfig(e, f)
    <2>1. /\ local' = [local EXCEPT ![i] = f]
          /\ pending' = [pending EXCEPT ![i] = WithoutFront(q, e)]
      BY <1>4 DEF Reconcile
    <2>2. /\ local' \in [Replicas -> Healths \cup {None}] /\ local'[i] = f
          /\ \A j \in Replicas : j # i => local'[j] = local[j]
      BY <1>0, <1>2, <2>1
    <2>3. Follows(f, f)
      BY <1>1, <1>3 DEF Follows
    <2>4. Fewer(WithoutFront(q, e), q)
      BY <1>0, <1>2, WithoutFrontFewer
    <2>5. /\ pending' \in [Replicas -> Seq(Events)]
          /\ \A j \in Replicas : Len(pending'[j]) <= MaxPending
          /\ \A j \in Replicas : j # i => pending'[j] = pending[j]
          /\ \A j \in Replicas : Elems(pending'[j]) \subseteq Elems(pending[j])
      BY <2>1, <2>4, QueueFewer
    <2> QED BY <1>1, <1>2, <2>2, <2>3, <2>5
  <1>5. CASE ~StaleConfig(e, f) /\ StaleTime(e, f)
    <2>1. /\ local' = [local EXCEPT ![i] = ReconciledStale(local[i], f)]
          /\ pending' = [pending EXCEPT ![i] = WithoutFront(q, e)]
      BY <1>5 DEF Reconcile
    <2> DEFINE r == ReconciledStale(local[i], f)
    <2>2. /\ r \in Healths \cup {None} /\ Follows(r, local[i])
          /\ r # None => r.gen = f.gen \/ r.gen = local[i].gen
      BY <1>0, <1>2, ReconciledStaleOf
    <2>3. /\ local' \in [Replicas -> Healths \cup {None}] /\ local'[i] = r
          /\ \A j \in Replicas : j # i => local'[j] = local[j]
      BY <1>0, <2>1, <2>2
    <2>4. r # None => local[i] # None
      BY <2>2 DEF Follows
    <2> HIDE DEF r
    <2>5. Fewer(WithoutFront(q, e), q)
      BY <1>0, <1>2, WithoutFrontFewer
    <2>6. /\ pending' \in [Replicas -> Seq(Events)]
          /\ \A j \in Replicas : Len(pending'[j]) <= MaxPending
          /\ \A j \in Replicas : j # i => pending'[j] = pending[j]
          /\ \A j \in Replicas : Elems(pending'[j]) \subseteq Elems(pending[j])
      BY <2>1, <2>5, QueueFewer
    <2> QED BY <1>1, <1>2, <2>2, <2>3, <2>4, <2>6
  <1>6. CASE ~StaleConfig(e, f) /\ ~StaleTime(e, f)
    <2> DEFINE a == AtLeastGen(local[i], f.gen)
               r == Rebased(q, e, f.gen)
    <2>1. /\ pending' = [pending EXCEPT ![i] = r]
          /\ local' = IF InFront(q, e) THEN [local EXCEPT ![i] = a] ELSE local
      BY <1>6 DEF Reconcile
    <2>2. e.result.at > f.updated
      BY <1>3, <1>6 DEF StaleTime
    <2>3. /\ a \in Healths \cup {None} /\ Follows(a, local[i])
          /\ a # None => a.gen = f.gen \/ a.gen = local[i].gen
      BY <1>0, <1>3, AtLeastGenOf
    <2>4. a # None => local[i] # None
      BY <2>3 DEF Follows
    <2>5. Follows(local[i], local[i])
      <3>1. local[i] # None => local[i].gen \in Nat
        BY <1>0, Fields
      <3> QED BY <3>1 DEF Follows
    <2>6. /\ r \in Seq(Events) /\ Len(r) = Len(q)
          /\ \A d \in Elems(r) :
                \/ d \in Elems(q)
                \/ \E c \in Elems(q) :
                      c.result.id = e.result.id /\ d = AtGen(c, f.gen)
      <3> DEFINE g == f.gen
      <3>1. g \in Nat
        BY <1>3
      <3> HIDE DEF e, f, q, g
      <3>2. /\ Rebased(q, e, g) \in Seq(Events) /\ Len(Rebased(q, e, g)) = Len(q)
            /\ \A d \in Elems(Rebased(q, e, g)) :
                  \/ d \in Elems(q)
                  \/ \E c \in Elems(q) :
                        c.result.id = e.result.id /\ d = AtGen(c, g)
        BY <1>0, <1>2, <3>1, RebasedEvents, Zenon
      <3> QED BY <3>2, Zenon DEF g
    <2> HIDE DEF a, r
    <2>7. /\ local' \in [Replicas -> Healths \cup {None}]
          /\ local'[i] = a \/ local'[i] = local[i]
          /\ \A j \in Replicas : j # i => local'[j] = local[j]
      BY <1>0, <2>1, <2>3
    <2>8. Len(r) <= MaxPending
      BY <1>0, <2>6
    <2>9. /\ pending' \in [Replicas -> Seq(Events)] /\ pending'[i] = r
          /\ \A j \in Replicas : Len(pending'[j]) <= MaxPending
          /\ \A j \in Replicas : j # i => pending'[j] = pending[j]
      BY <2>1, <2>6, <2>8, QueueSet
    <2>10. /\ Follows(local'[i], local[i])
           /\ local'[i] # None =>
                 \/ local'[i].gen = f.gen
                 \/ local[i] # None /\ local'[i].gen = local[i].gen
      BY <2>3, <2>4, <2>5, <2>7
    <2> HIDE DEF e, f, q
    <2>11. \A d \in Elems(pending'[i]) :
              \/ d \in Elems(q)
              \/ \E c \in Elems(q) :
                    /\ c.result.id = e.result.id
                    /\ e.result.at > f.updated
                    /\ d = AtGen(c, f.gen)
      BY <2>2, <2>6, <2>9
    <2> QED BY <1>1, <1>2, <2>7, <2>9, <2>10, <2>11 DEF e, f, q
  <1> QED BY <1>4, <1>5, <1>6

\* What the end of a reset does on its replica.
LEMMA QueueFenced ==
    ASSUME HealthTypes, NEW i \in Replicas, FenceQueue(i)
    PROVE  /\ job[i].step = "fence" /\ job[i].found \in Healths \cup {None}
           /\ local' \in [Replicas -> Healths \cup {None}]
           /\ local'[i] = job[i].found
           /\ \A j \in Replicas : j # i => local'[j] = local[j]
           /\ pending' \in [Replicas -> Seq(Events)]
           /\ \A j \in Replicas : Len(pending'[j]) <= MaxPending
           /\ \A j \in Replicas : Elems(pending'[j]) \subseteq Elems(pending[j])
  <1> DEFINE f == job[i].found
             q == Fenced(pending[i], job[i].boundary,
                         IF f = None THEN resetAt ELSE f.updated)
  <1>0. /\ local \in [Replicas -> Healths \cup {None}] /\ job[i] \in Jobs
        /\ pending[i] \in Seq(Events)
    BY DEF HealthTypes
  <1>1. /\ job[i].step = "fence" /\ local' = [local EXCEPT ![i] = f]
        /\ pending' = [pending EXCEPT ![i] = q]
    BY DEF FenceQueue
  <1>2. f \in Healths \cup {None}
    BY <1>0, <1>1, JobFields
  <1>3. Fewer(q, pending[i])
    BY <1>0, FencedFewer
  <1> HIDE DEF f, q
  <1>4. /\ local' \in [Replicas -> Healths \cup {None}] /\ local'[i] = f
        /\ \A j \in Replicas : j # i => local'[j] = local[j]
    BY <1>0, <1>1, <1>2
  <1>5. /\ pending' \in [Replicas -> Seq(Events)]
        /\ \A j \in Replicas : Len(pending'[j]) <= MaxPending
        /\ \A j \in Replicas : Elems(pending'[j]) \subseteq Elems(pending[j])
    BY <1>1, <1>3, QueueFewer
  <1> QED BY <1>1, <1>2, <1>4, <1>5 DEF f

\* The row after a statement, or a failed one, for an event.
Written(e) == row' = row \/ (Applies(e) /\ row' = Stored(e))

\* The event a statement is for, and what the statement does to the row.
LEMMA Statement ==
    ASSUME HealthTypes, NEW i \in Replicas,
           \/ SaveProbe(i) \/ SaveProbeFails(i) \/ Persist(i) \/ PersistFails(i)
    PROVE  \E e \in Flight(i) : e \in Events /\ Written(e)
  <1>0. /\ probe[i] \in Probes /\ pending[i] \in Seq(Events)
    BY DEF HealthTypes
  <1>1. CASE SaveProbe(i) \/ SaveProbeFails(i)
    <2>1. probe[i] # None /\ probe[i].step = "save"
      BY <1>1 DEF SaveProbe, SaveProbeFails
    <2>2. probe[i].event \in Events /\ probe[i].event \in Flight(i)
      BY <1>0, <2>1, ProbeFields DEF Flight, Saving
    <2>3. Written(probe[i].event)
      BY <1>1 DEF SaveProbe, SaveProbeFails, Written
    <2> QED BY <2>2, <2>3
  <1>2. CASE Persist(i) \/ PersistFails(i)
    <2>1. pending[i] # <<>>
      BY <1>2 DEF Persist, PersistFails
    <2>2. Head(pending[i]) \in Events /\ Head(pending[i]) \in Flight(i)
      BY <1>0, <2>1, FrontEvent DEF Flight
    <2>3. Written(Head(pending[i]))
      BY <1>2 DEF Persist, PersistFails, Written
    <2> QED BY <2>2, <2>3
  <1> QED BY <1>1, <1>2

\* Such a statement leaves the row's type and configuration.
LEMMA WrittenRow ==
    ASSUME row \in Healths \cup {None}, NEW e \in Events, Written(e)
    PROVE  /\ row' \in Healths \cup {None}
           /\ row' # None => row # None /\ row'.config = row.config
  <1>1. CASE row' = row
    BY <1>1
  <1>2. CASE Applies(e) /\ row' = Stored(e)
    <2>1. row \in Healths /\ row # None
      BY <1>2 DEF Applies
    <2> QED BY <1>2, <2>1, StoredOf
  <1> QED BY <1>1, <1>2 DEF Written
\* The types are kept by every step.
LEMMA TypesStep ==
    ASSUME HealthTypes, [HealthNext]_healthVars
    PROVE  HealthTypes'
  <1> USE DEF HealthTypes
  <1>0. /\ \A b \in {"results", "probes", "resets", "configs", "faults"} :
              b \in DOMAIN Bounds
        /\ used["configs"] \in Nat /\ used["configs"] <= MaxConfigs
        /\ MaxConfigs \in Nat /\ MaxTime \in Nat /\ Tick \in Nat
    BY BoundsOf, HealthAssumption
  <1>1. CASE UNCHANGED healthVars
    BY <1>1 DEF healthVars
  <1>2. CASE PassTime
    BY <1>0, <1>2 DEF PassTime
  <1>3. CASE ChangeConfig
    <2>1. /\ used' \in [DOMAIN Bounds -> Nat]
          /\ \A b \in DOMAIN Bounds : used'[b] <= Bounds[b]
          /\ used'["configs"] = used["configs"] + 1
          /\ used["configs"] < MaxConfigs
      <3>1. Use("configs")
        BY <1>3 DEF ChangeConfig
      <3>2. "configs" \in DOMAIN Bounds
        BY <1>0
      <3> HIDE DEF HealthTypes
      <3>3. /\ used' \in [DOMAIN Bounds -> Nat]
            /\ \A b \in DOMAIN Bounds : used'[b] <= Bounds[b]
            /\ \A b \in DOMAIN Bounds :
                  used'[b] = IF b = "configs" THEN used[b] + 1 ELSE used[b]
            /\ used["configs"] < Bounds["configs"]
        BY <3>1, <3>2, UsedOf
      <3>4. Bounds["configs"] = MaxConfigs
        BY BoundsOf
      <3> QED BY <3>2, <3>3, <3>4
    <2>2. row \in Healths /\ row.config \in 1..(used["configs"] + 1) /\ now \in Nat
      BY <1>0, <1>3 DEF ChangeConfig
    <2>3. row.config + 1 \in Configs /\ row.config + 1 \in 1..(used'["configs"] + 1)
      <3> HIDE DEF HealthTypes
      <3>1. /\ used["configs"] \in Nat /\ used["configs"] < MaxConfigs
            /\ MaxConfigs \in Nat
            /\ row.config \in 1..(used["configs"] + 1)
            /\ used'["configs"] = used["configs"] + 1
        BY <1>0, <2>1, <2>2
      <3>2. \A u, c \in Nat, m \in Nat : c \in 1..(u + 1) /\ u < m
              => c + 1 \in 1..(m + 1) /\ c + 1 \in 1..((u + 1) + 1)
        OBVIOUS
      <3>3. row.config \in Nat
        BY <3>1
      <3> QED BY <3>1, <3>2, <3>3 DEF Configs
    <2>4. row' \in Healths /\ row'.config = row.config + 1
      BY <1>3, <2>2, <2>3, ChangedRowOf
    <2> QED BY <1>3, <2>1, <2>3, <2>4 DEF ChangeConfig
  <1> SUFFICES ASSUME NEW i \in Replicas PROVE
        (\/ Load(i) \/ Route(i)
         \/ \E c \in routed[i], v \in Verdicts : RecordResult(i, c, v)
         \/ StartProbe(i) \/ DiscardProbe(i) \/ SaveProbe(i)
         \/ SaveProbeFails(i)
         \/ \E v \in Verdicts : RecordProbe(i, v)
         \/ WorkerStep(i)
         \/ PersistFails(i) \/ ReloadFails(i)
         \/ StartReset(i) \/ ResetFails(i)
         \/ Delete(i) \/ Forget(i) \/ Crash(i)) => HealthTypes'
    BY <1>1, <1>2, <1>3 DEF HealthNext
  <1>4. CASE Load(i)
    <2>1. row \in Healths /\ row.config \in Configs
      BY <1>0, <1>4 DEF Load, Configs
    <2> QED BY <1>4, <2>1 DEF Load
  <1>5. CASE Route(i)
    <2>1. Hydrate(i)
      BY <1>5 DEF Route
    <2> QED BY <1>5, <2>1, Hydration DEF Route
  <1>6. ASSUME NEW c \in routed[i], NEW v \in Verdicts, RecordResult(i, c, v)
        PROVE  HealthTypes'
    <2>1. /\ local' \in [Replicas -> Healths \cup {None}]
          /\ pending' \in [Replicas -> Seq(Events)]
          /\ \A j \in Replicas : Len(pending'[j]) <= MaxPending
      BY <1>6, ResultRecorded DEF RecordedAs
    <2>2. /\ used' \in [DOMAIN Bounds -> Nat]
          /\ \A b \in DOMAIN Bounds : used'[b] <= Bounds[b]
          /\ used'["configs"] = used["configs"]
      BY <1>0, <1>6, UsedOf DEF RecordResult
    <2>3. nextId' \in [Replicas -> Nat]
      BY <1>6 DEF RecordResult
    <2> QED BY <1>6, <2>1, <2>2, <2>3 DEF RecordResult
  <1>7. CASE StartProbe(i)
    <2>1. Hydrate(i) /\ Use("probes")
      BY <1>7 DEF StartProbe
    <2>2. /\ loaded[i].config \in Configs /\ local'[i] \in Healths
          /\ local' \in [Replicas -> Healths \cup {None}]
          /\ tracked' \in [Replicas -> BOOLEAN]
          /\ loaded' \in [Replicas -> Healths \cup {None}]
          /\ \A j \in Replicas : loaded'[j] # None => loaded'[j].config \in Configs
      BY <2>1, Hydration
    <2>3. local'[i].updated \in Nat /\ local'[i].gen \in Nat
      BY <2>2, Fields
    <2>4. probe' \in [Replicas -> Probes]
      BY <1>7, <2>2, <2>3, ProbeMade DEF StartProbe
    <2>5. /\ used' \in [DOMAIN Bounds -> Nat]
          /\ \A b \in DOMAIN Bounds : used'[b] <= Bounds[b]
          /\ used'["configs"] = used["configs"]
      BY <1>0, <2>1, UsedOf
    <2> QED BY <1>7, <2>2, <2>4, <2>5 DEF StartProbe
  <1>8. CASE DiscardProbe(i)
    BY <1>8, ProbeMade DEF DiscardProbe
  <1>9. ASSUME SaveProbe(i) \/ SaveProbeFails(i) \/ Persist(i) \/ PersistFails(i)
        PROVE  row' \in Healths \cup {None}
               /\ (row' # None => row'.config \in 1..(used["configs"] + 1))
    <2>1. PICK e \in Events : Written(e)
      BY <1>9, Statement
    <2> QED BY <2>1, WrittenRow
  <1>10. CASE SaveProbe(i)
    <2>1. local' \in [Replicas -> Healths \cup {None}]
      <3>1. local' = local
            \/ local' = [local EXCEPT ![i] = WithoutSnapshot(local[i], probe[i].event)]
        BY <1>10 DEF SaveProbe
      <3>2. WithoutSnapshot(local[i], probe[i].event) \in {local[i], None}
        BY DEF WithoutSnapshot
      <3> QED BY <3>1, <3>2
    <2>2. probe' \in [Replicas -> Probes]
      BY <1>10, ProbeMade DEF SaveProbe
    <2> QED BY <1>9, <1>10, <2>1, <2>2 DEF SaveProbe
  <1>11. CASE SaveProbeFails(i)
    <2>1. /\ used' \in [DOMAIN Bounds -> Nat]
          /\ \A b \in DOMAIN Bounds : used'[b] <= Bounds[b]
          /\ used'["configs"] = used["configs"]
      BY <1>0, <1>11, UsedOf DEF SaveProbeFails
    <2>2. probe' \in [Replicas -> Probes]
      BY <1>11, ProbeMade DEF SaveProbeFails
    <2> QED BY <1>9, <1>11, <2>1, <2>2 DEF SaveProbeFails
  <1>12. ASSUME NEW v \in Verdicts, RecordProbe(i, v) PROVE HealthTypes'
    <2>1. /\ local' \in [Replicas -> Healths \cup {None}]
          /\ pending' \in [Replicas -> Seq(Events)]
          /\ \A j \in Replicas : Len(pending'[j]) <= MaxPending
          /\ probe' \in [Replicas -> Probes]
      BY <1>12, ProbeRecorded DEF ProbedAs
    <2>2. nextId' \in [Replicas -> Nat]
      BY <1>12 DEF RecordProbe
    <2> QED BY <1>12, <2>1, <2>2 DEF RecordProbe
  <1>13. CASE Persist(i) \/ DropProbe(i)
    <2>1. /\ pending[i] # <<>> /\ pending[i] \in Seq(Events)
          /\ pending' = [pending EXCEPT ![i] = Tail(pending[i])]
      BY <1>13 DEF Persist, DropProbe
    <2>2. Fewer(Tail(pending[i]), pending[i])
      BY <2>1, FrontEvent
    <2>3. /\ pending' \in [Replicas -> Seq(Events)]
          /\ \A j \in Replicas : Len(pending'[j]) <= MaxPending
      BY <2>1, <2>2, QueueFewer
    <2>4. CASE Persist(i)
      BY <1>9, <2>3, <2>4 DEF Persist
    <2>5. CASE DropProbe(i)
      <3>1. local' = [local EXCEPT ![i] = WithoutSnapshot(local[i], Head(pending[i]))]
        BY <2>5 DEF DropProbe
      <3>2. WithoutSnapshot(local[i], Head(pending[i])) \in {local[i], None}
        BY DEF WithoutSnapshot
      <3>3. local' \in [Replicas -> Healths \cup {None}]
        BY <3>1, <3>2
      <3> QED BY <2>3, <2>5, <3>3 DEF DropProbe
    <2> QED BY <1>13, <2>4, <2>5
  <1>14. CASE PersistFails(i)
    <2>1. /\ used' \in [DOMAIN Bounds -> Nat]
          /\ \A b \in DOMAIN Bounds : used'[b] <= Bounds[b]
          /\ used'["configs"] = used["configs"]
      BY <1>0, <1>14, UsedOf DEF PersistFails
    <2> QED BY <1>9, <1>14, <2>1 DEF PersistFails
  <1>15. CASE Conflict(i)
    <2>1. Head(pending[i]) \in Events
      BY <1>15, FrontEvent DEF Conflict
    <2>2. job' \in [Replicas -> Jobs]
      BY <1>15, <2>1, JobMade DEF Conflict
    <2> QED BY <1>15, <2>2 DEF Conflict
  <1>16. CASE Reload(i)
    <2>1. job[i] \in Jobs /\ job[i].step = "reload"
      BY <1>16 DEF Reload
    <2>2. job[i].event \in Events
      BY <2>1, JobFields
    <2>3. job' \in [Replicas -> Jobs]
      BY <1>16, <2>2, JobMade DEF Reload
    <2> QED BY <1>16, <2>3 DEF Reload
  <1>17. CASE ReloadFails(i)
    <2>1. /\ used' \in [DOMAIN Bounds -> Nat]
          /\ \A b \in DOMAIN Bounds : used'[b] <= Bounds[b]
          /\ used'["configs"] = used["configs"]
      BY <1>0, <1>17, UsedOf DEF ReloadFails
    <2>2. job' \in [Replicas -> Jobs]
      BY <1>17, JobMade DEF ReloadFails
    <2> QED BY <1>17, <2>1, <2>2 DEF ReloadFails
  <1>18. CASE Reconcile(i)
    <2>1. /\ local' \in [Replicas -> Healths \cup {None}]
          /\ pending' \in [Replicas -> Seq(Events)]
          /\ \A j \in Replicas : Len(pending'[j]) <= MaxPending
      BY <1>18, Reconciled
    <2>2. job' \in [Replicas -> Jobs]
      BY <1>18, JobMade DEF Reconcile
    <2> QED BY <1>18, <2>1, <2>2 DEF Reconcile
  <1>19. CASE ReconcileDeleted(i)
    <2>1. job[i] \in Jobs /\ job[i].step = "reconcile" /\ pending[i] \in Seq(Events)
      BY <1>19 DEF ReconcileDeleted
    <2>2. job[i].event \in Events
      BY <2>1, JobFields
    <2>3. Fewer(WithoutFront(pending[i], job[i].event), pending[i])
      BY <2>1, <2>2, WithoutFrontFewer
    <2>4. /\ pending' \in [Replicas -> Seq(Events)]
          /\ \A j \in Replicas : Len(pending'[j]) <= MaxPending
      BY <1>19, <2>3, QueueFewer DEF ReconcileDeleted
    <2>5. job' \in [Replicas -> Jobs]
      BY <1>19, JobMade DEF ReconcileDeleted
    <2> QED BY <1>19, <2>4, <2>5 DEF ReconcileDeleted
  <1>20. CASE StartReset(i)
    <2>1. /\ used' \in [DOMAIN Bounds -> Nat]
          /\ \A b \in DOMAIN Bounds : used'[b] <= Bounds[b]
          /\ used'["configs"] = used["configs"]
      BY <1>0, <1>20, UsedOf DEF StartReset
    <2>2. job' \in [Replicas -> Jobs]
      BY <1>20, JobMade DEF StartReset
    <2> QED BY <1>20, <2>1, <2>2 DEF StartReset
  <1>21. ASSUME row # None
         PROVE  ResetRow \in Healths /\ ResetRow.config \in 1..(used["configs"] + 1)
    BY <1>0, <1>21, ResetRowOf
  <1>22. CASE ResetHealth(i)
    <2>1. /\ row' \in Healths \cup {None}
          /\ row' # None => row'.config \in 1..(used["configs"] + 1)
      BY <1>21, <1>22 DEF ResetHealth
    <2>2. job[i] \in Jobs /\ job[i].step = "reset"
      BY <1>22 DEF ResetHealth
    <2>3. job[i].boundary \in Nat
      BY <2>2, JobFields
    <2>4. job' \in [Replicas -> Jobs]
      BY <1>22, <2>1, <2>3, JobMade DEF ResetHealth
    <2> QED BY <1>22, <2>1, <2>4 DEF ResetHealth
  <1>23. CASE ResetFails(i)
    <2>1. /\ used' \in [DOMAIN Bounds -> Nat]
          /\ \A b \in DOMAIN Bounds : used'[b] <= Bounds[b]
          /\ used'["configs"] = used["configs"]
      BY <1>0, <1>23, UsedOf DEF ResetFails
    <2>2. job' \in [Replicas -> Jobs]
      BY <1>23, JobMade DEF ResetFails
    <2>3. /\ row' \in Healths \cup {None} /\ resetAt' \in 0..MaxTime
          /\ row' # None => row'.config \in 1..(used["configs"] + 1)
      BY <1>21, <1>23 DEF ResetFails
    <2> QED BY <1>23, <2>1, <2>2, <2>3 DEF ResetFails
  <1>24. CASE FenceQueue(i)
    <2>1. /\ local' \in [Replicas -> Healths \cup {None}]
          /\ pending' \in [Replicas -> Seq(Events)]
          /\ \A j \in Replicas : Len(pending'[j]) <= MaxPending
      BY <1>24, QueueFenced
    <2>2. job' \in [Replicas -> Jobs]
      BY <1>24, JobMade DEF FenceQueue
    <2>3. tracked' \in [Replicas -> BOOLEAN]
      BY <1>24 DEF FenceQueue
    <2> QED BY <1>24, <2>1, <2>2, <2>3 DEF FenceQueue
  <1>25. CASE Delete(i)
    BY <1>25 DEF Delete
  <1>26. CASE Forget(i) \/ Crash(i)
    <2>1. Fewer(<<>>, pending[i]) /\ pending' = [pending EXCEPT ![i] = <<>>]
      BY <1>26, EmptyFewer DEF Forget, Crash
    <2>2. /\ pending' \in [Replicas -> Seq(Events)]
          /\ \A j \in Replicas : Len(pending'[j]) <= MaxPending
      BY <2>1, QueueFewer
    <2>3. CASE Forget(i)
      BY <2>2, <2>3 DEF Forget
    <2>4. CASE Crash(i)
      <3>1. /\ used' \in [DOMAIN Bounds -> Nat]
            /\ \A b \in DOMAIN Bounds : used'[b] <= Bounds[b]
            /\ used'["configs"] = used["configs"]
        BY <1>0, <2>4, UsedOf DEF Crash
      <3>2. job' \in [Replicas -> Jobs] /\ probe' \in [Replicas -> Probes]
        BY <2>4, JobMade, ProbeMade DEF Crash
      <3> QED BY <2>2, <2>4, <3>1, <3>2 DEF Crash
    <2> QED BY <1>26, <2>3, <2>4
  <1> QED
    BY <1>4, <1>5, <1>6, <1>7, <1>8, <1>10, <1>11, <1>12, <1>13, <1>14, <1>15,
       <1>16, <1>17, <1>18, <1>19, <1>20, <1>22, <1>23, <1>24, <1>25, <1>26
    DEF WorkerStep
-----------------------------------------------------------------------------
(* What is on its way *)

\* The steps that put nothing on its way to the row: all but recording a result
\* and rebasing an event.
Calm ==
    /\ nextId' = nextId
    /\ \A j \in Replicas : Flight(j)' \subseteq Flight(j)

LEMMA CalmStep ==
    ASSUME HealthTypes,
           \A j \in Replicas : Elems(pending'[j]) \subseteq Elems(pending[j]),
           \A j \in Replicas :
              probe'[j] = probe[j] \/ probe'[j] = None \/ probe'[j].step = "running",
           nextId' = nextId
    PROVE  Calm
  <1> SUFFICES ASSUME NEW j \in Replicas PROVE Flight(j)' \subseteq Flight(j)
    BY DEF Calm
  <1>1. Saving(j)' \subseteq Saving(j)
    BY DEF Saving
  <1> QED BY <1>1 DEF Flight

LEMMA CalmQueue ==
    ASSUME HealthTypes, NEW i \in Replicas, NEW q, Fewer(q, pending[i]),
           pending' = [pending EXCEPT ![i] = q]
    PROVE  \A j \in Replicas : Elems(pending'[j]) \subseteq Elems(pending[j])
  BY QueueFewer

LEMMA CalmActions ==
    ASSUME HealthTypes, NEW i \in Replicas,
           \/ UNCHANGED healthVars \/ PassTime \/ ChangeConfig
           \/ Load(i) \/ Route(i) \/ StartProbe(i) \/ DiscardProbe(i)
           \/ SaveProbe(i) \/ SaveProbeFails(i)
           \/ Persist(i) \/ PersistFails(i) \/ DropProbe(i)
           \/ Conflict(i) \/ Reload(i) \/ ReloadFails(i) \/ ReconcileDeleted(i)
           \/ StartReset(i) \/ ResetHealth(i) \/ ResetFails(i) \/ FenceQueue(i)
           \/ Delete(i) \/ Forget(i) \/ Crash(i)
    PROVE  Calm
  <1>0. /\ pending \in [Replicas -> Seq(Events)] /\ job \in [Replicas -> Jobs]
        /\ probe \in [Replicas -> Probes]
    BY DEF HealthTypes
  <1>1. CASE \/ UNCHANGED healthVars \/ PassTime \/ ChangeConfig
             \/ Load(i) \/ Route(i) \/ Conflict(i) \/ Reload(i) \/ ReloadFails(i)
             \/ StartReset(i) \/ ResetHealth(i) \/ ResetFails(i) \/ Delete(i)
             \/ PersistFails(i)
    <2>1. pending' = pending /\ probe' = probe /\ nextId' = nextId
      BY <1>1 DEF healthVars, PassTime, ChangeConfig, Load, Route, Conflict, Reload,
                  ReloadFails, StartReset, ResetHealth, ResetFails, Delete, PersistFails
    <2> QED BY <2>1, CalmStep
  <1>2. CASE StartProbe(i) \/ DiscardProbe(i) \/ SaveProbe(i) \/ SaveProbeFails(i)
    <2>1. pending' = pending /\ nextId' = nextId
      BY <1>2 DEF StartProbe, DiscardProbe, SaveProbe, SaveProbeFails
    <2>2. \A j \in Replicas :
             probe'[j] = probe[j] \/ probe'[j] = None \/ probe'[j].step = "running"
      BY <1>0, <1>2 DEF StartProbe, DiscardProbe, SaveProbe, SaveProbeFails
    <2> QED BY <2>1, <2>2, CalmStep
  <1>3. CASE Persist(i) \/ DropProbe(i)
    <2>1. /\ pending[i] # <<>> /\ probe' = probe /\ nextId' = nextId
          /\ pending' = [pending EXCEPT ![i] = Tail(pending[i])]
      BY <1>3 DEF Persist, DropProbe
    <2>2. Fewer(Tail(pending[i]), pending[i])
      BY <1>0, <2>1, FrontEvent
    <2> QED BY <2>1, <2>2, CalmQueue, CalmStep
  <1>4. CASE ReconcileDeleted(i)
    <2>1. job[i].event \in Events
      BY <1>0, <1>4, JobFields DEF ReconcileDeleted
    <2>2. Fewer(WithoutFront(pending[i], job[i].event), pending[i])
      BY <1>0, <2>1, WithoutFrontFewer
    <2>3. /\ probe' = probe /\ nextId' = nextId
          /\ pending' = [pending EXCEPT ![i] = WithoutFront(pending[i], job[i].event)]
      BY <1>4 DEF ReconcileDeleted
    <2> QED BY <2>2, <2>3, CalmQueue, CalmStep
  <1>5. CASE FenceQueue(i)
    <2>1. probe' = probe /\ nextId' = nextId
      BY <1>5 DEF FenceQueue
    <2> QED BY <1>5, <2>1, QueueFenced, CalmStep
  <1>6. CASE Forget(i) \/ Crash(i)
    <2>1. /\ pending' = [pending EXCEPT ![i] = <<>>] /\ nextId' = nextId
          /\ \A j \in Replicas : probe'[j] = probe[j] \/ probe'[j] = None
      BY <1>0, <1>6 DEF Forget, Crash
    <2>2. Fewer(<<>>, pending[i])
      BY <1>0, EmptyFewer
    <2> QED BY <2>1, <2>2, CalmQueue, CalmStep
  <1> QED BY <1>1, <1>2, <1>3, <1>4, <1>5, <1>6

\* Then the events stay what they were, and no probe joins those on their way.
LEMMA CalmFlight ==
    ASSUME Calm, \A j \in Replicas : FlightOK(j)
    PROVE  (\A j \in Replicas : FlightOK(j)') /\ Probing' \subseteq Probing
  <1>1. Probing' \subseteq Probing
    <2> SUFFICES ASSUME NEW e \in Probing' PROVE e \in Probing
      OBVIOUS
    <2>1. PICK j \in Replicas : e \in Flight(j)' /\ IsProbe(e)
      BY DEF Probing
    <2> QED BY <2>1 DEF Calm, Probing
  <1>2. ASSUME NEW j \in Replicas PROVE FlightOK(j)'
    <2>1. Flight(j)' \subseteq Flight(j) /\ nextId' = nextId /\ FlightOK(j)
      BY DEF Calm
    <2>2. \A e \in Flight(j)' :
             /\ e.result.by = j /\ e.result.id < nextId'[j]
             /\ IsProbe(e) => /\ e.snapshot.gen = e.gen + 1
                              /\ e.result \in e.snapshot.counts
      BY <2>1 DEF FlightOK
    <2>3. \A d, e \in Flight(j)' : Alike(d, e)
      BY <2>1 DEF FlightOK
    <2> QED BY <2>2, <2>3 DEF FlightOK
  <1> QED BY <1>1, <1>2

\* The events on their way are events.
LEMMA FlightTypes ==
    ASSUME HealthTypes, NEW i \in Replicas
    PROVE  Flight(i) \subseteq Events
  <1>1. Elems(pending[i]) \subseteq Events
    BY Members DEF HealthTypes
  <1>2. probe[i] \in Probes
    BY DEF HealthTypes
  <1>3. Saving(i) \subseteq Events
    BY <1>2, ProbeFields DEF Saving
  <1> QED BY <1>1, <1>3 DEF Flight

LEMMA ProbingTypes ==
    ASSUME HealthTypes
    PROVE  /\ Probing \subseteq Events
           /\ \A e \in Probing : e.gen \in Nat /\ e.snapshot \in Healths
  <1>1. \A i \in Replicas : Flight(i) \subseteq Events
    BY FlightTypes
  <1>2. \A e \in Probing : e \in Events /\ IsProbe(e)
    BY <1>1 DEF Probing
  <1>3. \A e \in Probing : e.gen \in Nat /\ e.snapshot \in Healths
    BY <1>2, EventFields DEF IsProbe
  <1> QED BY <1>2, <1>3
\* An event with the replica's next id is put on its way.
LEMMA FlightGrows ==
    ASSUME HealthTypes, \A j \in Replicas : FlightOK(j) /\ JobOK(j),
           NEW i \in Replicas, NEW e \in Events,
           e.result.by = i, e.result.id = nextId[i],
           IsProbe(e) => e.snapshot.gen = e.gen + 1 /\ e.result \in e.snapshot.counts,
           nextId' = [nextId EXCEPT ![i] = @ + 1], job' = job,
           Flight(i)' \subseteq Flight(i) \cup {e},
           \A j \in Replicas : j # i => Flight(j)' \subseteq Flight(j)
    PROVE  /\ \A j \in Replicas : FlightOK(j)' /\ JobOK(j)'
           /\ Probing' \subseteq Probing \cup {e}
           /\ ~IsProbe(e) => Probing' \subseteq Probing
           /\ \A j \in Replicas : nextId[j] <= nextId'[j]
           /\ e.result.id < nextId'[i]
  <1>0. /\ nextId \in [Replicas -> Nat] /\ nextId'[i] = nextId[i] + 1
        /\ \A j \in Replicas : nextId[j] \in Nat
        /\ \A j \in Replicas : j # i => nextId'[j] = nextId[j]
        /\ \A j \in Replicas : job[j] \in Jobs
    BY DEF HealthTypes
  <1>1. \A j \in Replicas : nextId[j] <= nextId'[j]
    BY <1>0
  <1>2. \A d \in Probing' : d \in Probing \/ (d = e /\ IsProbe(e))
    <2> SUFFICES ASSUME NEW d \in Probing' PROVE d \in Probing \/ (d = e /\ IsProbe(e))
      OBVIOUS
    <2>1. PICK j \in Replicas : d \in Flight(j)' /\ IsProbe(d)
      BY DEF Probing
    <2>2. d \in Flight(j) \/ d = e
      BY <2>1
    <2> QED BY <2>1, <2>2 DEF Probing
  <1>3. ASSUME NEW j \in Replicas, j # i PROVE FlightOK(j)' /\ JobOK(j)'
    <2>1. /\ Flight(j)' \subseteq Flight(j) /\ nextId'[j] = nextId[j]
          /\ FlightOK(j) /\ JobOK(j)
      BY <1>0, <1>3
    <2>2. /\ \A d \in Flight(j)' :
                /\ d.result.by = j /\ d.result.id < nextId'[j]
                /\ IsProbe(d) => /\ d.snapshot.gen = d.gen + 1
                                 /\ d.result \in d.snapshot.counts
          /\ \A c, d \in Flight(j)' : Alike(c, d)
      BY <2>1 DEF FlightOK
    <2>3. FlightOK(j)'
      BY <2>2 DEF FlightOK
    <2> QED BY <2>1, <2>3 DEF JobOK
  <1>4. FlightOK(i)'
    <2>1. ASSUME NEW d \in Flight(i)'
          PROVE  /\ d.result.by = i /\ d.result.id < nextId'[i]
                 /\ IsProbe(d) => /\ d.snapshot.gen = d.gen + 1
                                  /\ d.result \in d.snapshot.counts
      <3>1. CASE d = e
        BY <1>0, <3>1
      <3>2. CASE d \in Flight(i)
        <4>1. d.result.id \in Nat
          BY <3>2, FlightTypes, EventFields
        <4>2. d.result.by = i /\ d.result.id < nextId[i]
          BY <3>2 DEF FlightOK
        <4>3. IsProbe(d) => /\ d.snapshot.gen = d.gen + 1
                            /\ d.result \in d.snapshot.counts
          BY <3>2 DEF FlightOK
        <4> QED BY <1>0, <4>1, <4>2, <4>3
      <3> QED BY <3>1, <3>2
    <2>2. ASSUME NEW c \in Flight(i)', NEW d \in Flight(i)' PROVE Alike(c, d)
      <3>1. \A b \in Flight(i) : b.result.id < nextId[i] /\ b.result.id \in Nat
        BY FlightTypes, EventFields DEF FlightOK
      <3>2. CASE c = e /\ d = e
        BY <3>2 DEF Alike
      <3>3. CASE c \in Flight(i) /\ d \in Flight(i)
        BY <3>3 DEF FlightOK
      <3>4. CASE (c = e /\ d \in Flight(i)) \/ (c \in Flight(i) /\ d = e)
        <4>1. c.result.id # d.result.id
          BY <1>0, <3>1, <3>4
        <4> QED BY <4>1 DEF Alike
      <3> QED BY <3>2, <3>3, <3>4
    <2> QED BY <2>1, <2>2 DEF FlightOK
  <1>5. JobOK(i)'
    <2> SUFFICES ASSUME job[i].step \in {"reload", "reconcile"}
                 PROVE  /\ ~IsProbe(job[i].event) /\ job[i].event.result.id < nextId'[i]
                        /\ \A d \in Flight(i)' : Alike(d, job[i].event)
      BY DEF JobOK
    <2>1. /\ ~IsProbe(job[i].event) /\ job[i].event.result.id < nextId[i]
          /\ \A d \in Flight(i) : Alike(d, job[i].event)
      BY DEF JobOK
    <2>2. job[i].event.result.id \in Nat
      BY <1>0, JobFields, EventFields
    <2>3. Alike(e, job[i].event)
      BY <1>0, <2>1, <2>2 DEF Alike
    <2> QED BY <1>0, <2>1, <2>2, <2>3
  <1> QED BY <1>0, <1>1, <1>2, <1>3, <1>4, <1>5

\* What the reconciliation does to the events on their way.
LEMMA FlightRebased ==
    ASSUME HealthTypes, \A j \in Replicas : FlightOK(j) /\ JobOK(j),
           NEW i \in Replicas, Reconcile(i)
    PROVE  /\ \A j \in Replicas : FlightOK(j)' /\ JobOK(j)'
           /\ Probing' \subseteq Probing
  <1> DEFINE e == job[i].event
             f == job[i].found
             Moved(c, d) == c \in Flight(i) /\ ~IsProbe(c) /\ d = AtGen(c, f.gen)
  <1>0. /\ job \in [Replicas -> Jobs] /\ job' = [job EXCEPT ![i] = Idle]
        /\ probe' = probe /\ nextId' = nextId
    BY DEF HealthTypes, Reconcile
  <1>1. ASSUME NEW c, Moved(c, AtGen(c, f.gen))
        PROVE  /\ AtGen(c, f.gen).result = c.result
               /\ AtGen(c, f.gen).snapshot = c.snapshot
    <2>1. c \in Events
      BY <1>1, FlightTypes
    <2> QED BY <2>1 DEF Events, AtGen
  <1>2. \A d \in Flight(i)' : d \in Flight(i) \/ \E c : Moved(c, d)
    <2> SUFFICES ASSUME NEW d \in Flight(i)', d \notin Flight(i)
                 PROVE  \E c : Moved(c, d)
      OBVIOUS
    <2>1. d \in Elems(pending'[i])
      <3>1. Saving(i)' = Saving(i)
        BY <1>0 DEF Saving
      <3> QED BY <3>1 DEF Flight
    <2>2. PICK c \in Elems(pending[i]) :
             c.result.id = e.result.id /\ d = AtGen(c, f.gen)
      BY <2>1, Reconciled DEF Flight
    <2>3. job[i].step = "reconcile"
      BY DEF Reconcile
    <2>4. c \in Flight(i) /\ ~IsProbe(c)
      BY <2>2, <2>3 DEF JobOK, Alike, Flight
    <2> QED BY <2>2, <2>4
  <1>3. \A j \in Replicas : j # i => Flight(j)' = Flight(j)
    BY <1>0, Reconciled DEF Flight, Saving
  <1>4. \A d \in Flight(i)' : \E c \in Flight(i) :
           /\ d.result = c.result /\ (IsProbe(d) <=> IsProbe(c))
           /\ IsProbe(d) => d = c
    <2> HIDE DEF f
    <2> SUFFICES ASSUME NEW d \in Flight(i)', d \notin Flight(i)
                 PROVE  \E c \in Flight(i) :
                           /\ d.result = c.result /\ ~IsProbe(d) /\ ~IsProbe(c)
      OBVIOUS
    <2>1. PICK c : Moved(c, d)
      BY <1>2
    <2>2. d.result = c.result /\ d.snapshot = c.snapshot
      BY <1>1, <2>1
    <2> QED BY <2>1, <2>2 DEF IsProbe
  <1> HIDE DEF Moved, e, f
  <1>5. ASSUME NEW j \in Replicas PROVE FlightOK(j)'
    <2>1. \A d \in Flight(j)' : \E c \in Flight(j) :
             /\ d.result = c.result /\ (IsProbe(d) <=> IsProbe(c))
             /\ IsProbe(d) => d = c
      BY <1>3, <1>4
    <2>2. ASSUME NEW d \in Flight(j)'
          PROVE  /\ d.result.by = j /\ d.result.id < nextId'[j]
                 /\ IsProbe(d) => /\ d.snapshot.gen = d.gen + 1
                                  /\ d.result \in d.snapshot.counts
      BY <1>0, <2>1 DEF FlightOK
    <2>3. ASSUME NEW c \in Flight(j)', NEW d \in Flight(j)' PROVE Alike(c, d)
      BY <2>1 DEF FlightOK, Alike
    <2> QED BY <2>2, <2>3 DEF FlightOK
  <1>6. ASSUME NEW j \in Replicas PROVE JobOK(j)'
    <2>1. CASE j = i
      <3>1. job'[j].step = "idle"
        BY <1>0, <2>1, JobMade
      <3> QED BY <3>1 DEF JobOK
    <2>2. CASE j # i
      <3>1. job'[j] = job[j] /\ Flight(j)' = Flight(j) /\ JobOK(j)
        BY <1>0, <1>3, <2>2
      <3> QED BY <1>0, <3>1 DEF JobOK
    <2> QED BY <2>1, <2>2
  <1>7. Probing' \subseteq Probing
    <2> SUFFICES ASSUME NEW d \in Probing' PROVE d \in Probing
      OBVIOUS
    <2>1. PICK j \in Replicas : d \in Flight(j)' /\ IsProbe(d)
      BY DEF Probing
    <2>2. d \in Flight(j)
      BY <1>3, <1>4, <2>1
    <2> QED BY <2>1, <2>2 DEF Probing
  <1> QED BY <1>5, <1>6, <1>7

\* The lock's holder in the other steps.
LEMMA JobCalm ==
    ASSUME HealthTypes, Calm, \A j \in Replicas : FlightOK(j) /\ JobOK(j),
           \A j \in Replicas :
              \/ job'[j] = job[j]
              \/ job'[j].step \notin {"reload", "reconcile"}
              \/ job[j].step = "reload" /\ job'[j].event = job[j].event
              \/ job'[j].event \in Flight(j) /\ ~IsProbe(job'[j].event)
    PROVE  \A j \in Replicas : JobOK(j)'
  <1> SUFFICES ASSUME NEW j \in Replicas,
                      job'[j].step \in {"reload", "reconcile"}
               PROVE  /\ ~IsProbe(job'[j].event)
                      /\ job'[j].event.result.id < nextId'[j]
                      /\ \A e \in Flight(j)' : Alike(e, job'[j].event)
    BY DEF JobOK
  <1>0. Flight(j)' \subseteq Flight(j) /\ nextId' = nextId
    BY DEF Calm
  <1>1. CASE \/ job'[j] = job[j]
             \/ job[j].step = "reload" /\ job'[j].event = job[j].event
    BY <1>0, <1>1 DEF JobOK
  <1>2. CASE job'[j].event \in Flight(j) /\ ~IsProbe(job'[j].event)
    BY <1>0, <1>2 DEF FlightOK
  <1> QED BY <1>1, <1>2

\* Every step keeps the events and the lock's holder.
LEMMA FlightStep ==
    ASSUME HealthTypes, \A j \in Replicas : FlightOK(j) /\ JobOK(j),
           NEW i \in Replicas,
           \/ UNCHANGED healthVars \/ PassTime \/ ChangeConfig
           \/ Load(i) \/ Route(i) \/ StartProbe(i) \/ DiscardProbe(i)
           \/ SaveProbe(i) \/ SaveProbeFails(i)
           \/ Persist(i) \/ PersistFails(i) \/ DropProbe(i)
           \/ Conflict(i) \/ Reload(i) \/ ReloadFails(i) \/ ReconcileDeleted(i)
           \/ StartReset(i) \/ ResetHealth(i) \/ ResetFails(i) \/ FenceQueue(i)
           \/ Delete(i) \/ Forget(i) \/ Crash(i)
    PROVE  \A j \in Replicas : FlightOK(j)' /\ JobOK(j)'
  <1>0. Calm /\ job \in [Replicas -> Jobs] /\ pending[i] \in Seq(Events)
    BY CalmActions DEF HealthTypes
  <1>1. \A j \in Replicas : FlightOK(j)'
    BY <1>0, CalmFlight
  <1>2. CASE \/ UNCHANGED healthVars \/ PassTime \/ ChangeConfig
             \/ Load(i) \/ Route(i) \/ StartProbe(i) \/ DiscardProbe(i)
             \/ SaveProbe(i) \/ SaveProbeFails(i)
             \/ Persist(i) \/ PersistFails(i) \/ DropProbe(i)
             \/ Delete(i) \/ Forget(i)
    <2>1. job' = job
      BY <1>2 DEF healthVars, PassTime, ChangeConfig, Load, Route, StartProbe,
                  DiscardProbe, SaveProbe, SaveProbeFails, Persist, PersistFails,
                  DropProbe, Delete, Forget
    <2> QED BY <1>0, <1>1, <2>1, JobCalm
  <1>3. CASE \/ ReloadFails(i) \/ ReconcileDeleted(i) \/ StartReset(i)
             \/ ResetHealth(i) \/ ResetFails(i) \/ FenceQueue(i) \/ Crash(i)
    <2>1. /\ job'[i].step \notin {"reload", "reconcile"}
          /\ \A j \in Replicas : j # i => job'[j] = job[j]
      BY <1>0, <1>3 DEF ReloadFails, ReconcileDeleted, StartReset, ResetHealth,
                        ResetFails, FenceQueue, Crash, Idle
    <2> QED BY <1>0, <1>1, <2>1, JobCalm
  <1>4. CASE Conflict(i)
    <2>1. /\ pending[i] # <<>> /\ ~IsProbe(Head(pending[i]))
          /\ job'[i].event = Head(pending[i])
          /\ \A j \in Replicas : j # i => job'[j] = job[j]
      BY <1>0, <1>4 DEF Conflict
    <2>2. Head(pending[i]) \in Flight(i)
      BY <1>0, <2>1, FrontEvent DEF Flight
    <2> QED BY <1>0, <1>1, <2>1, <2>2, JobCalm
  <1>5. CASE Reload(i)
    <2>1. /\ job[i].step = "reload" /\ job'[i].event = job[i].event
          /\ \A j \in Replicas : j # i => job'[j] = job[j]
      BY <1>0, <1>5 DEF Reload
    <2> QED BY <1>0, <1>1, <2>1, JobCalm
  <1> QED BY <1>2, <1>3, <1>4, <1>5
-----------------------------------------------------------------------------
(* What the snapshots count *)

LEMMA FoundType ==
    ASSUME HealthTypes, NEW j \in Replicas
    PROVE  Found(j) \in Healths \cup {None}
  <1>1. job[j] \in Jobs
    BY DEF HealthTypes
  <1> QED BY <1>1, JobFields DEF Found

\* Snapshots that are clean as things stand stay clean in a calm step.
LEMMA CleanCalm ==
    ASSUME HealthTypes, HealthTypes', CleanOK,
           nextId' = nextId, Probing' \subseteq Probing,
           Clean(row', nextId, Probing),
           \A j \in Replicas : /\ Clean(local'[j], nextId, Probing)
                               /\ Clean(loaded'[j], nextId, Probing)
                               /\ Clean(Found(j)', nextId, Probing)
    PROVE  CleanOK'
  <1>0. /\ nextId \in [Replicas -> Nat] /\ nextId' \in [Replicas -> Nat]
        /\ \A j \in Replicas : nextId[j] <= nextId'[j]
    BY DEF HealthTypes
  <1>1. ASSUME NEW h \in Healths \cup {None}, Clean(h, nextId, Probing)
        PROVE  Clean(h, nextId', Probing')
    BY <1>0, <1>1, CleanKeeps
  <1>2. Clean(row', nextId', Probing')
    BY <1>1 DEF HealthTypes
  <1>3. ASSUME NEW j \in Replicas
        PROVE  /\ Clean(local'[j], nextId', Probing')
               /\ Clean(loaded'[j], nextId', Probing')
               /\ Clean(Found(j)', nextId', Probing')
    <2>1. local'[j] \in Healths \cup {None} /\ loaded'[j] \in Healths \cup {None}
      BY DEF HealthTypes
    <2>2. Found(j)' \in Healths \cup {None}
      <3>1. job'[j] \in Jobs
        BY DEF HealthTypes
      <3> QED BY <3>1, JobFields DEF Found
    <2> QED BY <1>1, <2>1, <2>2
  <1>4. ASSUME NEW e \in Probing' PROVE Clean(e.snapshot, nextId', Probing')
    <2>1. e \in Probing /\ e.snapshot \in Healths
      BY ProbingTypes
    <2>2. Clean(e.snapshot, nextId, Probing)
      BY <2>1 DEF CleanOK
    <2> QED BY <1>1, <2>1, <2>2
  <1> QED BY <1>2, <1>3, <1>4 DEF CleanOK

\* No runtime event bears the result of a probe on its way.
LEMMA ResultsDiffer ==
    ASSUME \A j \in Replicas : FlightOK(j), NEW i \in Replicas,
           NEW e \in Flight(i), ~IsProbe(e), NEW d \in Probing
    PROVE  d.result # e.result
  <1>1. PICK j \in Replicas : d \in Flight(j) /\ IsProbe(d)
    BY DEF Probing
  <1>2. d.result.by = j /\ e.result.by = i
    BY <1>1 DEF FlightOK
  <1>3. j = i => Alike(d, e)
    BY <1>1 DEF FlightOK
  <1> QED BY <1>1, <1>2, <1>3 DEF Alike

\* The row stays clean when an event is written to it.
LEMMA WrittenClean ==
    ASSUME HealthTypes, CleanOK, \A j \in Replicas : FlightOK(j),
           NEW i \in Replicas, NEW e \in Flight(i), e \in Events, Written(e)
    PROVE  Clean(row', nextId, Probing)
  <1>0. Clean(row, nextId, Probing)
    BY DEF CleanOK
  <1>1. CASE row' = row
    BY <1>0, <1>1
  <1>2. CASE Applies(e) /\ row' = Stored(e)
    <2>1. row \in Healths /\ row.gen = e.gen /\ row.gen \in Nat
      BY <1>2, Fields DEF HealthTypes, Applies
    <2>2. CASE ~IsProbe(e)
      <3>1. row' \in Healths /\ row'.gen = row.gen
            /\ row'.counts = row.counts \cup {e.result}
        BY <1>2, <2>1, <2>2, StoredOf
      <3>2. e.result.id < nextId[e.result.by]
        BY DEF FlightOK
      <3>3. \A d \in Probing : d.result # e.result
        BY <2>2, ResultsDiffer
      <3> QED BY <1>0, <2>1, <3>1, <3>2, <3>3, CleanCounts
    <2>3. CASE IsProbe(e)
      <3>1. row' \in Healths /\ row'.gen = row.gen + 1
            /\ row'.counts = e.snapshot.counts
        BY <1>2, <2>1, <2>3, StoredOf
      <3>2. e \in Probing
        BY <2>3 DEF Probing
      <3>3. e.snapshot \in Healths /\ \A d \in Probing : d.gen \in Nat
        BY <3>2, ProbingTypes
      <3>4. Clean(e.snapshot, nextId, Probing)
        BY <3>2 DEF CleanOK
      <3>5. e.snapshot.gen = e.gen + 1 /\ e.snapshot # None /\ e.snapshot.gen \in Nat
        BY <2>3, <3>3, Fields DEF FlightOK
      <3>6. Follows(row', e.snapshot)
        BY <2>1, <3>1, <3>5 DEF Follows
      <3> QED BY <3>1, <3>3, <3>4, <3>6, CleanFollows
    <2> QED BY <2>2, <2>3
  <1> QED BY <1>1, <1>2 DEF Written

\* A result is recorded.
LEMMA CleanRecorded ==
    ASSUME HealthTypes, HealthTypes', CleanOK,
           \A j \in Replicas : FlightOK(j) /\ JobOK(j),
           NEW i \in Replicas, NEW c \in routed[i], NEW v \in Verdicts,
           RecordResult(i, c, v)
    PROVE  CleanOK' /\ \A j \in Replicas : FlightOK(j)' /\ JobOK(j)'
  <1>0. /\ nextId \in [Replicas -> Nat] /\ nextId' \in [Replicas -> Nat]
        /\ row' = row /\ loaded' = loaded /\ job' = job /\ probe' = probe
        /\ nextId' = [nextId EXCEPT ![i] = @ + 1]
    BY DEF HealthTypes, RecordResult
  <1>a. PICK m \in Healths, e \in Events : RecordedAs(i, m, e)
    BY ResultRecorded
  <1>1. /\ m = local[i] \/ (m.gen = 0 /\ m.counts = {})
        /\ ~IsProbe(e) /\ e.gen = m.gen
        /\ e.result.by = i /\ e.result.id = nextId[i] /\ e.result.at = now
        /\ local'[i] \in Healths /\ local'[i].gen = m.gen
        /\ local'[i].counts = m.counts \cup {e.result}
        /\ \A j \in Replicas : j # i => local'[j] = local[j]
        /\ Elems(pending'[i]) \subseteq Elems(pending[i]) \cup {e}
        /\ \A j \in Replicas : j # i => pending'[j] = pending[j]
    BY <1>a DEF RecordedAs
  <1>2. /\ Flight(i)' \subseteq Flight(i) \cup {e}
        /\ \A j \in Replicas : j # i => Flight(j)' \subseteq Flight(j)
    BY <1>0, <1>1 DEF Flight, Saving
  <1>3. /\ \A j \in Replicas : FlightOK(j)' /\ JobOK(j)'
        /\ Probing' \subseteq Probing
        /\ \A j \in Replicas : nextId[j] <= nextId'[j]
        /\ e.result.id < nextId'[i]
    BY <1>0, <1>1, <1>2, FlightGrows
  <1>4. ASSUME NEW h \in Healths \cup {None}, Clean(h, nextId, Probing)
        PROVE  Clean(h, nextId', Probing')
    BY <1>0, <1>3, <1>4, CleanKeeps
  <1>5. row' \in Healths \cup {None} /\ Clean(row', nextId', Probing')
    BY <1>0, <1>4 DEF CleanOK, HealthTypes
  <1>6. Clean(local'[i], nextId', Probing')
    <2>1. Clean(m, nextId, Probing)
      BY <1>1 DEF CleanOK, Clean
    <2>2. Clean(m, nextId', Probing')
      BY <1>4, <2>1
    <2>3. ASSUME NEW d \in Probing' PROVE d.result # e.result
      <3>1. PICK j \in Replicas : d \in Flight(j)
        BY <1>3 DEF Probing
      <3>2. d.result.by = j /\ d.result.id < nextId[j] /\ d.result.id \in Nat
        BY <3>1, FlightTypes, EventFields DEF FlightOK
      <3> QED BY <1>0, <1>1, <3>2
    <2> QED BY <1>1, <1>3, <2>2, <2>3, CleanCounts
  <1>7. ASSUME NEW j \in Replicas
        PROVE  /\ Clean(local'[j], nextId', Probing')
               /\ Clean(loaded'[j], nextId', Probing')
               /\ Clean(Found(j)', nextId', Probing')
    <2>1. /\ Clean(local[j], nextId, Probing) /\ local[j] \in Healths \cup {None}
          /\ Clean(loaded[j], nextId, Probing) /\ loaded[j] \in Healths \cup {None}
          /\ Clean(Found(j), nextId, Probing) /\ Found(j) \in Healths \cup {None}
      BY FoundType DEF CleanOK, HealthTypes
    <2>2. Found(j)' = Found(j)
      BY <1>0 DEF Found
    <2> QED BY <1>0, <1>1, <1>4, <1>6, <2>1, <2>2
  <1>8. ASSUME NEW d \in Probing' PROVE Clean(d.snapshot, nextId', Probing')
    <2>1. d \in Probing /\ d.snapshot \in Healths
      BY <1>3, ProbingTypes
    <2> QED BY <1>4, <2>1 DEF CleanOK
  <1> QED BY <1>3, <1>5, <1>7, <1>8 DEF CleanOK

\* A probe is recorded.
LEMMA CleanProbed ==
    ASSUME HealthTypes, HealthTypes', CleanOK,
           \A j \in Replicas : FlightOK(j) /\ JobOK(j),
           NEW i \in Replicas, NEW v \in Verdicts, RecordProbe(i, v)
    PROVE  CleanOK' /\ \A j \in Replicas : FlightOK(j)' /\ JobOK(j)'
  <1>0. /\ nextId \in [Replicas -> Nat] /\ nextId' \in [Replicas -> Nat]
        /\ row' = row /\ loaded' = loaded /\ job' = job
        /\ nextId' = [nextId EXCEPT ![i] = @ + 1]
    BY DEF HealthTypes, RecordProbe
  <1>a. PICK e \in Events : ProbedAs(i, e)
    BY ProbeRecorded
  <1>1. /\ IsProbe(e) /\ e.gen = local[i].gen /\ local[i] \in Healths
        /\ e.result.by = i /\ e.result.id = nextId[i]
        /\ e.snapshot \in Healths /\ e.snapshot.gen = e.gen + 1
        /\ e.snapshot.counts = local[i].counts \cup {e.result}
        /\ local'[i] = e.snapshot
        /\ \A j \in Replicas : j # i => local'[j] = local[j]
        /\ Elems(pending'[i]) \subseteq Elems(pending[i]) \cup {e}
        /\ \A j \in Replicas : j # i => pending'[j] = pending[j]
        /\ probe'[i].event = e
        /\ \A j \in Replicas : j # i => probe'[j] = probe[j]
    BY <1>a DEF ProbedAs
  <1>2. /\ Flight(i)' \subseteq Flight(i) \cup {e}
        /\ \A j \in Replicas : j # i => Flight(j)' \subseteq Flight(j)
    BY <1>1 DEF Flight, Saving
  <1>3. /\ \A j \in Replicas : FlightOK(j)' /\ JobOK(j)'
        /\ Probing' \subseteq Probing \cup {e}
        /\ \A j \in Replicas : nextId[j] <= nextId'[j]
        /\ e.result.id < nextId'[i]
    BY <1>0, <1>1, <1>2, FlightGrows
  <1>4. ASSUME NEW h \in Healths \cup {None}, Clean(h, nextId, Probing)
        PROVE  Clean(h, nextId', Probing')
    <2>1. nextId[e.result.by] <= e.result.id
      BY <1>0, <1>1
    <2>2. Clean(h, nextId, Probing \cup {e})
      BY <1>0, <1>4, <2>1, CleanWithNew
    <2> QED BY <1>0, <1>3, <2>2, CleanKeeps
  <1>5. Clean(row', nextId', Probing')
    BY <1>0, <1>4 DEF CleanOK, HealthTypes
  <1>6. Clean(e.snapshot, nextId', Probing')
    <2>1. Clean(local[i], nextId', Probing')
      BY <1>1, <1>4 DEF CleanOK
    <2>2. local[i] # None /\ local[i].gen \in Nat
      BY <1>1, Fields
    <2>3. ASSUME NEW d \in Probing', d # e
          PROVE  d.result # e.result /\ d.gen \in Nat
      <3>1. PICK j \in Replicas : d \in Flight(j)
        BY <1>3, <2>3 DEF Probing
      <3>2. d.result.by = j /\ d.result.id < nextId[j] /\ d.result.id \in Nat
            /\ d.gen \in Nat
        BY <3>1, FlightTypes, EventFields DEF FlightOK
      <3> QED BY <1>0, <1>1, <3>2
    <2>4. ASSUME NEW x \in e.snapshot.counts
          PROVE  /\ x.id < nextId'[x.by]
                 /\ \A d \in Probing' : d.result = x => e.snapshot.gen > d.gen
      <3>1. CASE x = e.result
        BY <1>1, <1>3, <2>2, <2>3, <3>1
      <3>2. CASE x # e.result
        <4>1. x \in local[i].counts
          BY <1>1, <3>2
        <4>2. /\ x.id < nextId'[x.by]
              /\ \A d \in Probing' : d.result = x => local[i].gen > d.gen
          BY <2>1, <2>2, <4>1 DEF Clean
        <4>3. ASSUME NEW d \in Probing', d.result = x PROVE e.snapshot.gen > d.gen
          BY <1>1, <2>2, <2>3, <3>2, <4>2, <4>3
        <4> QED BY <4>2, <4>3
      <3> QED BY <3>1, <3>2
    <2> QED BY <2>4 DEF Clean
  <1>7. ASSUME NEW j \in Replicas
        PROVE  /\ Clean(local'[j], nextId', Probing')
               /\ Clean(loaded'[j], nextId', Probing')
               /\ Clean(Found(j)', nextId', Probing')
    <2>1. /\ Clean(local[j], nextId, Probing) /\ local[j] \in Healths \cup {None}
          /\ Clean(loaded[j], nextId, Probing) /\ loaded[j] \in Healths \cup {None}
          /\ Clean(Found(j), nextId, Probing) /\ Found(j) \in Healths \cup {None}
      BY FoundType DEF CleanOK, HealthTypes
    <2>2. Found(j)' = Found(j)
      BY <1>0 DEF Found
    <2> QED BY <1>0, <1>1, <1>4, <1>6, <2>1, <2>2
  <1>8. ASSUME NEW d \in Probing' PROVE Clean(d.snapshot, nextId', Probing')
    <2>1. CASE d = e
      BY <1>6, <2>1
    <2>2. CASE d # e
      <3>1. d \in Probing /\ d.snapshot \in Healths
        BY <1>3, <2>2, ProbingTypes
      <3> QED BY <1>4, <3>1 DEF CleanOK
    <2> QED BY <2>1, <2>2
  <1> QED BY <1>3, <1>5, <1>7, <1>8 DEF CleanOK
\* The other steps.
LEMMA CleanStep ==
    ASSUME HealthTypes, HealthTypes', CleanOK,
           \A j \in Replicas : FlightOK(j) /\ JobOK(j),
           NEW i \in Replicas,
           \/ UNCHANGED healthVars \/ PassTime \/ ChangeConfig
           \/ Load(i) \/ Route(i) \/ StartProbe(i) \/ DiscardProbe(i)
           \/ SaveProbe(i) \/ SaveProbeFails(i)
           \/ Persist(i) \/ PersistFails(i) \/ DropProbe(i)
           \/ Conflict(i) \/ Reload(i) \/ ReloadFails(i) \/ ReconcileDeleted(i)
           \/ StartReset(i) \/ ResetHealth(i) \/ ResetFails(i) \/ FenceQueue(i)
           \/ Delete(i) \/ Forget(i) \/ Crash(i) \/ Reconcile(i)
    PROVE  CleanOK'
  <1> DEFINE Ok(h) == Clean(h, nextId, Probing)
  <1>0. /\ local \in [Replicas -> Healths \cup {None}]
        /\ loaded \in [Replicas -> Healths \cup {None}]
        /\ job \in [Replicas -> Jobs] /\ row \in Healths \cup {None}
        /\ now \in Nat
    <2>1. now \in 0..MaxTime /\ MaxTime \in Nat
      BY HealthAssumption DEF HealthTypes
    <2>2. now \in Nat
      BY <2>1
    <2> QED BY <2>2 DEF HealthTypes
  <1>1. /\ Ok(row) /\ Ok(None)
        /\ \A j \in Replicas : Ok(local[j]) /\ Ok(loaded[j]) /\ Ok(Found(j))
    BY DEF CleanOK, Clean
  <1>2. \A e \in Probing : e.gen \in Nat
    BY ProbingTypes
  <1>3. ASSUME NEW h \in Healths \cup {None}, Ok(h),
               NEW h2 \in Healths \cup {None}, Follows(h2, h)
        PROVE  Ok(h2)
    BY <1>2, <1>3, CleanFollows
  <1>4. nextId' = nextId /\ Probing' \subseteq Probing
    <2>1. CASE Reconcile(i)
      BY <2>1, FlightRebased DEF Reconcile
    <2>2. CASE ~Reconcile(i)
      <3>1. Calm
        BY <2>2, CalmActions
      <3> QED BY <3>1, CalmFlight DEF Calm
    <2> QED BY <2>1, <2>2
  <1>5. ASSUME NEW j \in Replicas, job'[j] = job[j] PROVE Found(j)' = Found(j)
    BY <1>5 DEF Found
  <1>6. ASSUME job' = job PROVE \A j \in Replicas : Ok(Found(j)')
    <2>1. \A j \in Replicas : Found(j)' = Found(j)
      BY <1>6 DEF Found
    <2> QED BY <1>1, <2>1
  <1>7. ASSUME \A j \in Replicas : j # i => job'[j] = job[j],
               job'[i].step \notin {"reconcile", "fence"}
        PROVE  \A j \in Replicas : Ok(Found(j)')
    <2>1. Found(i)' = None
      BY <1>7 DEF Found
    <2>2. \A j \in Replicas : j # i => Found(j)' = Found(j)
      BY <1>5, <1>7
    <2> QED BY <1>1, <2>1, <2>2
  <1>8. SUFFICES /\ Ok(row')
                 /\ \A j \in Replicas : Ok(local'[j]) /\ Ok(loaded'[j]) /\ Ok(Found(j)')
    BY <1>4, CleanCalm
  <1> HIDE DEF Ok
  <1>9. CASE \/ UNCHANGED healthVars \/ PassTime \/ DiscardProbe(i)
    <2>1. row' = row /\ local' = local /\ loaded' = loaded /\ job' = job
      BY <1>9 DEF healthVars, PassTime, DiscardProbe
    <2> QED BY <1>1, <1>6, <2>1
  <1>10. CASE ChangeConfig
    <2>1. local' = local /\ loaded' = loaded /\ job' = job /\ row # None
      BY <1>10 DEF ChangeConfig
    <2>2. row \in Healths /\ row.config \in 1..(used["configs"] + 1)
          /\ used["configs"] \in Nat
      BY <1>0, <2>1, BoundsOf DEF HealthTypes
    <2>3. row.config + 1 \in Configs
      <3>1. used["configs"] < MaxConfigs /\ MaxConfigs \in Nat
        BY <1>10, UsedOf, BoundsOf, HealthAssumption DEF ChangeConfig
      <3> QED BY <2>2, <3>1 DEF Configs
    <2>4. row' \in Healths /\ row'.gen = row.gen + 1 /\ row'.counts = row.counts
      BY <1>0, <1>10, <2>2, <2>3, ChangedRowOf
    <2>5. Follows(row', row)
      <3>1. row.gen \in Nat
        BY <2>2, Fields
      <3> QED BY <2>1, <2>4, <3>1 DEF Follows
    <2>6. Ok(row')
      BY <1>0, <1>1, <1>3, <2>4, <2>5
    <2> QED BY <1>1, <1>6, <2>1, <2>6
  <1>11. CASE Load(i)
    <2>1. row' = row /\ local' = local /\ job' = job
          /\ \A j \in Replicas : loaded'[j] \in {loaded[j], row}
      BY <1>0, <1>11 DEF Load
    <2> QED BY <1>1, <1>6, <2>1
  <1>12. CASE Route(i) \/ StartProbe(i)
    <2>1. row' = row /\ job' = job /\ Hydrate(i)
      BY <1>12 DEF Route, StartProbe
    <2>2. \A j \in Replicas :
             local'[j] \in {local[j], loaded[j]} /\ loaded'[j] \in {loaded[j], None}
      BY <2>1, Hydration
    <2> QED BY <1>1, <1>6, <2>1, <2>2
  <1>13. CASE SaveProbe(i) \/ SaveProbeFails(i) \/ Persist(i) \/ PersistFails(i)
    <2>1. loaded' = loaded /\ job' = job
      BY <1>13 DEF SaveProbe, SaveProbeFails, Persist, PersistFails
    <2>2. \A j \in Replicas : local'[j] \in {local[j], None}
      <3>1. WithoutSnapshot(local[i], probe[i].event) \in {local[i], None}
        BY DEF WithoutSnapshot
      <3> QED BY <1>0, <1>13, <3>1
              DEF SaveProbe, SaveProbeFails, Persist, PersistFails
    <2>3. Ok(row')
      <3>1. PICK e \in Flight(i) : e \in Events /\ Written(e)
        BY <1>13, Statement
      <3> QED BY <3>1, WrittenClean DEF Ok
    <2> QED BY <1>1, <1>6, <2>1, <2>2, <2>3
  <1>14. CASE DropProbe(i)
    <2>1. row' = row /\ loaded' = loaded /\ job' = job
      BY <1>14 DEF DropProbe
    <2>2. \A j \in Replicas : local'[j] \in {local[j], None}
      <3>1. WithoutSnapshot(local[i], Head(pending[i])) \in {local[i], None}
        BY DEF WithoutSnapshot
      <3> QED BY <1>0, <1>14, <3>1 DEF DropProbe
    <2> QED BY <1>1, <1>6, <2>1, <2>2
  <1>15. CASE Conflict(i) \/ ReloadFails(i) \/ StartReset(i)
    <2>1. /\ row' = row /\ local' = local /\ loaded' = loaded
          /\ \A j \in Replicas : j # i => job'[j] = job[j]
          /\ job'[i].step \notin {"reconcile", "fence"}
      BY <1>0, <1>15 DEF Conflict, ReloadFails, StartReset, Idle
    <2> QED BY <1>1, <1>7, <2>1
  <1>16. CASE Reload(i)
    <2>1. /\ row' = row /\ local' = local /\ loaded' = loaded
          /\ \A j \in Replicas : j # i => job'[j] = job[j]
          /\ job'[i].found = row /\ job'[i].step = "reconcile"
      BY <1>0, <1>16 DEF Reload
    <2>2. Found(i)' = row
      BY <2>1 DEF Found
    <2> QED BY <1>1, <1>5, <2>1, <2>2
  <1>17. CASE ReconcileDeleted(i) \/ Forget(i)
    <2>1. /\ row' = row /\ loaded' = loaded
          /\ \A j \in Replicas : local'[j] \in {local[j], None}
      BY <1>0, <1>17 DEF ReconcileDeleted, Forget
    <2>2. \A j \in Replicas : Ok(Found(j)')
      <3>1. CASE Forget(i)
        BY <1>6, <3>1 DEF Forget
      <3>2. CASE ReconcileDeleted(i)
        BY <1>0, <1>7, <3>2 DEF ReconcileDeleted, Idle
      <3> QED BY <1>17, <3>1, <3>2
    <2> QED BY <1>1, <2>1, <2>2
  <1>18. CASE ResetHealth(i) \/ ResetFails(i)
    <2>1. local' = local /\ loaded' = loaded
      BY <1>18 DEF ResetHealth, ResetFails
    <2>2. row' \in {row, None} \/ (row # None /\ row' = ResetRow)
      BY <1>18 DEF ResetHealth, ResetFails
    <2>3. Ok(row')
      <3>1. CASE row' \in {row, None}
        BY <1>1, <3>1
      <3>2. CASE row # None /\ row' = ResetRow
        <4>1. row'.counts = {}
          BY <1>0, <3>2, ResetRowOf
        <4> QED BY <4>1 DEF Ok, Clean
      <3> QED BY <2>2, <3>1, <3>2
    <2>4. CASE ResetHealth(i)
      <3>1. /\ \A j \in Replicas : j # i => job'[j] = job[j]
            /\ job'[i].found = row' /\ job'[i].step = "fence"
        BY <1>0, <2>4 DEF ResetHealth
      <3>2. Found(i)' = row'
        BY <3>1 DEF Found
      <3> QED BY <1>1, <1>5, <2>1, <2>3, <3>1, <3>2
    <2>5. CASE ResetFails(i)
      <3>1. /\ \A j \in Replicas : j # i => job'[j] = job[j]
            /\ job'[i].step \notin {"reconcile", "fence"}
        BY <1>0, <2>5 DEF ResetFails, Idle
      <3> QED BY <1>1, <1>7, <2>1, <2>3, <3>1
    <2> QED BY <1>18, <2>4, <2>5
  <1>19. CASE FenceQueue(i)
    <2>1. /\ row' = row /\ loaded' = loaded
          /\ \A j \in Replicas : j # i => job'[j] = job[j]
          /\ job'[i].step \notin {"reconcile", "fence"}
      BY <1>0, <1>19 DEF FenceQueue, Idle
    <2>2. /\ \A j \in Replicas : j # i => local'[j] = local[j]
          /\ local'[i] = Found(i)
      BY <1>19, QueueFenced DEF Found
    <2> QED BY <1>1, <1>7, <2>1, <2>2
  <1>20. CASE Delete(i)
    <2>1. row' = None /\ local' = local /\ loaded' = loaded /\ job' = job
      BY <1>20 DEF Delete
    <2> QED BY <1>1, <1>6, <2>1
  <1>21. CASE Crash(i)
    <2>1. /\ row' = row
          /\ \A j \in Replicas : j # i => job'[j] = job[j]
          /\ job'[i].step \notin {"reconcile", "fence"}
          /\ \A j \in Replicas : local'[j] \in {local[j], None}
          /\ \A j \in Replicas : loaded'[j] \in {loaded[j], None}
      BY <1>0, <1>21 DEF Crash, Idle
    <2> QED BY <1>1, <1>7, <2>1
  <1>22. CASE Reconcile(i)
    <2>1. /\ row' = row /\ loaded' = loaded
          /\ \A j \in Replicas : j # i => job'[j] = job[j]
          /\ job'[i].step \notin {"reconcile", "fence"}
      BY <1>0, <1>22 DEF Reconcile, Idle
    <2>2. /\ \A j \in Replicas : j # i => local'[j] = local[j]
          /\ local'[i] \in Healths \cup {None} /\ job[i].step = "reconcile"
          /\ Follows(local'[i], job[i].found) \/ Follows(local'[i], local[i])
      BY <1>22, Reconciled
    <2>3. job[i].found = Found(i) /\ Found(i) \in Healths \cup {None}
      BY <2>2, FoundType DEF Found
    <2>4. Ok(local'[i])
      BY <1>0, <1>1, <1>3, <2>2, <2>3
    <2> QED BY <1>1, <1>7, <2>1, <2>2, <2>4
  <1> QED
    BY <1>9, <1>10, <1>11, <1>12, <1>13, <1>14, <1>15, <1>16, <1>17, <1>18, <1>19,
       <1>20, <1>21, <1>22
-----------------------------------------------------------------------------
(* Resets *)

\* Nothing has been probed: what the invariant says of the row and of replica j.
Settled ==
    /\ resetAt <= row.updated
    /\ \A x \in row.counts : x.at >= resetAt

Behind(j) ==
    /\ local[j] # None => local[j].gen <= row.gen
    /\ SeenOK(loaded[j]) /\ SeenOK(Found(j))
    /\ \A e \in Elems(pending[j]) : QueuedOK(e)

\* The row stays in its generation and is not reset, or moves to the next one:
\* what has been seen of it stays behind it.
LEMMA RowMoves ==
    ASSUME HealthTypes, HealthTypes', row # None, row' # None,
           \/ row'.gen = row.gen /\ resetAt' = resetAt
           \/ row'.gen = row.gen + 1
    PROVE  /\ \A f \in Healths \cup {None} : SeenOK(f) => SeenOK(f)'
           /\ \A e \in Events : QueuedOK(e) => QueuedOK(e)'
           /\ \A f \in Healths : f.gen <= row.gen => f.gen <= row'.gen
  <1>0. row.gen \in Nat /\ row'.gen \in Nat
    BY Fields DEF HealthTypes
  <1>1. ASSUME NEW f \in Healths \cup {None}, SeenOK(f) PROVE SeenOK(f)'
    <2>1. f # None => f.gen \in Nat
      BY Fields
    <2> QED BY <1>0, <1>1, <2>1 DEF SeenOK
  <1>2. ASSUME NEW e \in Events, QueuedOK(e) PROVE QueuedOK(e)'
    <2>1. e.gen \in Nat
      BY EventFields
    <2> QED BY <1>0, <1>2, <2>1 DEF QueuedOK
  <1>3. \A f \in Healths : f.gen <= row.gen => f.gen <= row'.gen
    BY <1>0, Fields
  <1> QED BY <1>1, <1>2, <1>3

\* No step takes back a probe, a tick of the clock or a deletion.
LEMMA Onwards ==
    ASSUME HealthTypes, [HealthNext]_healthVars
    PROVE  /\ used'["probes"] = 0 => used["probes"] = 0
           /\ now <= now'
           /\ row' # None => row # None
           /\ resetAt' = resetAt \/ (resetAt' = now /\ now' = now)
  <1> DEFINE Goal == /\ used'["probes"] = 0 => used["probes"] = 0
                     /\ now <= now'
                     /\ row' # None => row # None
                     /\ resetAt' = resetAt \/ (resetAt' = now /\ now' = now)
  <1>0. /\ "results" \in DOMAIN Bounds /\ "probes" \in DOMAIN Bounds
        /\ "resets" \in DOMAIN Bounds /\ "configs" \in DOMAIN Bounds
        /\ "faults" \in DOMAIN Bounds
        /\ used["probes"] \in Nat /\ now \in 0..MaxTime /\ MaxTime \in Nat
        /\ Tick \in Nat /\ now \in Nat
    BY BoundsOf, HealthAssumption DEF HealthTypes
  <1>1. ASSUME NEW b \in DOMAIN Bounds, Use(b)
        PROVE  used'["probes"] = 0 => used["probes"] = 0
    BY <1>0, <1>1, UsedOf
  <1>2. ASSUME UNCHANGED healthVars PROVE Goal
    BY <1>0, <1>2 DEF healthVars
  <1>3. ASSUME PassTime PROVE Goal
    BY <1>0, <1>3 DEF PassTime
  <1>4. ASSUME ChangeConfig PROVE Goal
    BY <1>0, <1>1, <1>4 DEF ChangeConfig
  <1>5. ASSUME NEW i \in Replicas,
           \/ Load(i) \/ Route(i)
           \/ \E c \in routed[i], v \in Verdicts : RecordResult(i, c, v)
           \/ StartProbe(i) \/ DiscardProbe(i) \/ SaveProbe(i)
           \/ SaveProbeFails(i)
           \/ \E v \in Verdicts : RecordProbe(i, v)
           \/ WorkerStep(i)
           \/ PersistFails(i) \/ ReloadFails(i)
           \/ StartReset(i) \/ ResetFails(i)
           \/ Delete(i) \/ Forget(i) \/ Crash(i)
        PROVE  Goal
    <2>1. now' = now
      BY <1>5 DEF Load, Route, RecordResult, StartProbe, DiscardProbe, SaveProbe,
             SaveProbeFails, RecordProbe, WorkerStep, Persist, DropProbe, Conflict,
             Reload, Reconcile, ReconcileDeleted, ResetHealth, FenceQueue,
             PersistFails, ReloadFails, StartReset, ResetFails, Delete, Forget, Crash
    <2>2. resetAt' = resetAt \/ resetAt' = now
      BY <1>5 DEF Load, Route, RecordResult, StartProbe, DiscardProbe, SaveProbe,
             SaveProbeFails, RecordProbe, WorkerStep, Persist, DropProbe, Conflict,
             Reload, Reconcile, ReconcileDeleted, ResetHealth, FenceQueue,
             PersistFails, ReloadFails, StartReset, ResetFails, Delete, Forget, Crash
    <2>3. row' # None => row # None
      <3>1. CASE SaveProbe(i) \/ SaveProbeFails(i) \/ Persist(i) \/ PersistFails(i)
        <4>1. PICK e \in Events : Written(e)
          BY <3>1, Statement
        <4> QED BY <4>1, WrittenRow DEF HealthTypes
      <3>2. CASE ~(SaveProbe(i) \/ SaveProbeFails(i) \/ Persist(i) \/ PersistFails(i))
        BY <1>5, <3>2 DEF Load, Route, RecordResult, StartProbe, DiscardProbe,
             RecordProbe, WorkerStep, DropProbe, Conflict,
             Reload, Reconcile, ReconcileDeleted, ResetHealth, FenceQueue,
             ReloadFails, StartReset, ResetFails, Delete, Forget, Crash
      <3> QED BY <3>1, <3>2
    <2>4. used' = used \/ \E b \in DOMAIN Bounds : Use(b)
      BY <1>0, <1>5 DEF Load, Route, RecordResult, StartProbe, DiscardProbe, SaveProbe,
             SaveProbeFails, RecordProbe, WorkerStep, Persist, DropProbe, Conflict,
             Reload, Reconcile, ReconcileDeleted, ResetHealth, FenceQueue,
             PersistFails, ReloadFails, StartReset, ResetFails, Delete, Forget, Crash
    <2> QED BY <1>0, <1>1, <2>1, <2>2, <2>3, <2>4
  <1>6. Goal
    <2> HIDE DEF Goal
    <2> QED BY <1>2, <1>3, <1>4, <1>5 DEF HealthNext
  <1> QED BY <1>6
\* A replica stays behind the row when what it has is from the old row.
LEMMA BehindMoves ==
    ASSUME HealthTypes, HealthTypes', row # None, row' # None,
           \/ row'.gen = row.gen /\ resetAt' = resetAt
           \/ row'.gen = row.gen + 1,
           NEW j \in Replicas,
           local'[j] # None => local'[j].gen <= row.gen,
           SeenOK(loaded'[j]), SeenOK(Found(j)'),
           \A e \in Elems(pending'[j]) : QueuedOK(e)
    PROVE  Behind(j)'
  <1>0. /\ local'[j] \in Healths \cup {None} /\ loaded'[j] \in Healths \cup {None}
        /\ job'[j] \in Jobs /\ pending'[j] \in Seq(Events)
    BY DEF HealthTypes
  <1>1. Found(j)' \in Healths \cup {None}
    BY <1>0, JobFields DEF Found
  <1>2. Elems(pending'[j]) \subseteq Events
    BY <1>0, Members
  <1>3. /\ \A f \in Healths \cup {None} : SeenOK(f) => SeenOK(f)'
        /\ \A e \in Events : QueuedOK(e) => QueuedOK(e)'
        /\ \A f \in Healths : f.gen <= row.gen => f.gen <= row'.gen
    BY RowMoves
  <1>4. local'[j] # None => local'[j].gen <= row'.gen
    BY <1>0, <1>3
  <1>5. \A e \in Elems(pending'[j]) : QueuedOK(e)'
    BY <1>2, <1>3
  <1>6. loaded'[j] # None =>
           /\ loaded'[j].gen <= row'.gen
           /\ loaded'[j].gen = row'.gen => loaded'[j].updated >= resetAt'
    <2> DEFINE f == loaded'[j]
    <2>1. SeenOK(f) /\ f \in Healths \cup {None}
      BY <1>0
    <2> HIDE DEF f
    <2>2. f # None => f.gen \in Nat /\ row.gen \in Nat /\ row'.gen \in Nat
      BY <2>1, Fields DEF HealthTypes
    <2>3. f # None =>
             f.gen <= row'.gen /\ (f.gen = row'.gen => f.updated >= resetAt')
      BY <2>1, <2>2 DEF SeenOK
    <2> QED BY <2>3 DEF f
  <1>7. Found(j)' # None =>
           /\ Found(j)'.gen <= row'.gen
           /\ Found(j)'.gen = row'.gen => Found(j)'.updated >= resetAt'
    <2> DEFINE f == Found(j)'
    <2>1. SeenOK(f) /\ f \in Healths \cup {None}
      BY <1>1
    <2> HIDE DEF f
    <2>2. f # None => f.gen \in Nat /\ row.gen \in Nat /\ row'.gen \in Nat
      BY <2>1, Fields DEF HealthTypes
    <2>3. f # None =>
             f.gen <= row'.gen /\ (f.gen = row'.gen => f.updated >= resetAt')
      BY <2>1, <2>2 DEF SeenOK
    <2> QED BY <2>3 DEF f
  <1> QED BY <1>4, <1>5, <1>6, <1>7 DEF Behind, SeenOK

\* While nothing is probed, a statement counts only what is of after the reset.
LEMMA SettledWritten ==
    ASSUME HealthTypes, HealthTypes', Settled, NEW e \in Events, QueuedOK(e), Written(e),
           resetAt' = resetAt, row' # None
    PROVE  Settled' /\ row'.gen = row.gen
  <1>1. CASE row' = row
    BY <1>1 DEF Settled
  <1>2. CASE Applies(e) /\ row' = Stored(e)
    <2>1. row \in Healths /\ row.gen = e.gen /\ ~IsProbe(e)
      BY <1>2 DEF HealthTypes, Applies, QueuedOK
    <2>2. /\ row' \in Healths /\ row'.gen = row.gen /\ row'.updated > row.updated
          /\ row'.counts = row.counts \cup {e.result}
      BY <1>2, <2>1, StoredOf
    <2>3. /\ e.result.at \in Nat /\ e.gen \in Nat /\ row.updated \in Nat
          /\ row'.updated \in Nat
      BY <2>1, <2>2, EventFields, Fields
    <2>4. resetAt \in Nat
      <3>1. resetAt \in 0..MaxTime /\ MaxTime \in Nat
        BY HealthAssumption DEF HealthTypes
      <3> QED BY <3>1
    <2>5. e.result.at >= resetAt
      BY <2>1, <2>3, <2>4 DEF QueuedOK
    <2>6. resetAt <= row'.updated
      BY <2>2, <2>3, <2>4 DEF Settled
    <2>7. \A x \in row'.counts : x.at >= resetAt
      BY <2>2, <2>5 DEF Settled
    <2> QED BY <2>2, <2>6, <2>7 DEF Settled
  <1> QED BY <1>1, <1>2 DEF Written

\* A replica's own step, which leaves the row and the last reset alone.
LEMMA ResetAside ==
    ASSUME HealthTypes, HealthTypes', Settled, \A j \in Replicas : Behind(j),
           row # None, row' = row, resetAt' = resetAt, NEW i \in Replicas,
           \/ UNCHANGED healthVars \/ PassTime \/ Load(i) \/ Route(i)
           \/ DiscardProbe(i) \/ DropProbe(i) \/ Conflict(i) \/ Reload(i)
           \/ ReloadFails(i) \/ ReconcileDeleted(i) \/ StartReset(i) \/ ResetFails(i)
           \/ FenceQueue(i) \/ Forget(i) \/ Crash(i) \/ SaveProbeFails(i)
           \/ SaveProbe(i)
    PROVE  Settled' /\ \A j \in Replicas : Behind(j)'
  <1>0. /\ local \in [Replicas -> Healths \cup {None}]
        /\ loaded \in [Replicas -> Healths \cup {None}]
        /\ job \in [Replicas -> Jobs] /\ row \in Healths
    BY DEF HealthTypes
  <1>1. Settled'
    BY DEF Settled
  <1>2. SeenOK(row) /\ SeenOK(None) /\ row.gen \in Nat
    <2>1. row.gen \in Nat
      BY <1>0, Fields
    <2> QED BY <2>1 DEF SeenOK, Settled
  <1>3. \A j \in Replicas : Elems(pending'[j]) \subseteq Elems(pending[j])
    <2>1. pending \in [Replicas -> Seq(Events)]
      BY DEF HealthTypes
    <2>2. CASE DropProbe(i)
      <3>1. Fewer(Tail(pending[i]), pending[i])
        BY <2>1, <2>2, FrontEvent DEF DropProbe
      <3> QED BY <2>2, <3>1, CalmQueue DEF DropProbe
    <2>3. CASE ReconcileDeleted(i)
      <3>1. job[i].event \in Events
        BY <1>0, <2>3, JobFields DEF ReconcileDeleted
      <3>2. Fewer(WithoutFront(pending[i], job[i].event), pending[i])
        BY <2>1, <3>1, WithoutFrontFewer
      <3> QED BY <2>3, <3>2, CalmQueue DEF ReconcileDeleted
    <2>4. CASE FenceQueue(i)
      BY <2>4, QueueFenced
    <2>5. CASE Forget(i) \/ Crash(i)
      <3>1. Fewer(<<>>, pending[i])
        BY <2>1, EmptyFewer
      <3> QED BY <2>5, <3>1, CalmQueue DEF Forget, Crash
    <2>6. CASE \/ UNCHANGED healthVars \/ PassTime \/ Load(i) \/ Route(i)
               \/ DiscardProbe(i) \/ Conflict(i) \/ Reload(i) \/ ReloadFails(i)
               \/ StartReset(i) \/ ResetFails(i) \/ SaveProbeFails(i) \/ SaveProbe(i)
      BY <2>6 DEF healthVars, PassTime, Load, Route, DiscardProbe, Conflict, Reload,
                  ReloadFails, StartReset, ResetFails, SaveProbeFails, SaveProbe
    <2> QED BY <2>2, <2>3, <2>4, <2>5, <2>6
  <1>4. \A j \in Replicas :
           loaded'[j] = loaded[j] \/ loaded'[j] = row \/ loaded'[j] = None
    <2>1. CASE Route(i)
      <3>1. Hydrate(i)
        BY <2>1 DEF Route
      <3> QED BY <3>1, Hydration
    <2>2. CASE ~Route(i)
      BY <1>0, <2>2 DEF healthVars, PassTime, Load, DiscardProbe, DropProbe, Conflict,
         Reload, ReloadFails, ReconcileDeleted, StartReset, ResetFails, FenceQueue,
         Forget, Crash, SaveProbeFails, SaveProbe
    <2> QED BY <2>1, <2>2
  <1>5. \A j \in Replicas :
           Found(j)' = Found(j) \/ Found(j)' = row \/ Found(j)' = None
    <2>1. CASE Reload(i)
      <3>1. /\ \A j \in Replicas : j # i => job'[j] = job[j]
            /\ job'[i].found = row /\ job'[i].step = "reconcile"
        BY <1>0, <2>1 DEF Reload
      <3> QED BY <3>1 DEF Found
    <2>2. CASE \/ Conflict(i) \/ ReloadFails(i) \/ ReconcileDeleted(i)
               \/ StartReset(i) \/ ResetFails(i) \/ FenceQueue(i) \/ Crash(i)
      <3>1. /\ \A j \in Replicas : j # i => job'[j] = job[j]
            /\ job'[i].step \notin {"reconcile", "fence"}
        BY <1>0, <2>2 DEF Conflict, ReloadFails, ReconcileDeleted, StartReset,
                          ResetFails, FenceQueue, Crash, Idle
      <3> QED BY <3>1 DEF Found
    <2>3. CASE \/ UNCHANGED healthVars \/ PassTime \/ Load(i) \/ Route(i)
               \/ DiscardProbe(i) \/ DropProbe(i) \/ Forget(i) \/ SaveProbeFails(i)
               \/ SaveProbe(i)
      <3>1. job' = job
        BY <2>3 DEF healthVars, PassTime, Load, Route, DiscardProbe, DropProbe,
                    Forget, SaveProbeFails, SaveProbe
      <3> QED BY <3>1 DEF Found
    <2> QED BY <2>1, <2>2, <2>3
  <1>6. \A j \in Replicas :
           \/ local'[j] = local[j] \/ local'[j] = loaded[j] \/ local'[j] = Found(j)
           \/ local'[j] = None
    <2>1. CASE Route(i)
      <3>1. Hydrate(i)
        BY <2>1 DEF Route
      <3> QED BY <3>1, Hydration
    <2>2. CASE FenceQueue(i)
      BY <2>2, QueueFenced DEF Found
    <2>3. CASE SaveProbe(i)
      <3>1. WithoutSnapshot(local[i], probe[i].event) \in {local[i], None}
        BY DEF WithoutSnapshot
      <3> QED BY <1>0, <2>3, <3>1 DEF SaveProbe
    <2>4. CASE DropProbe(i)
      <3>1. WithoutSnapshot(local[i], Head(pending[i])) \in {local[i], None}
        BY DEF WithoutSnapshot
      <3> QED BY <1>0, <2>4, <3>1 DEF DropProbe
    <2>5. CASE \/ UNCHANGED healthVars \/ PassTime \/ Load(i) \/ DiscardProbe(i)
               \/ Conflict(i) \/ Reload(i) \/ ReloadFails(i) \/ ReconcileDeleted(i)
               \/ StartReset(i) \/ ResetFails(i) \/ Forget(i) \/ Crash(i)
               \/ SaveProbeFails(i)
      BY <1>0, <2>5 DEF healthVars, PassTime, Load, DiscardProbe, Conflict, Reload,
         ReloadFails, ReconcileDeleted, StartReset, ResetFails, Forget, Crash,
         SaveProbeFails
    <2> QED BY <2>1, <2>2, <2>3, <2>4, <2>5
  <1>7. ASSUME NEW j \in Replicas PROVE Behind(j)'
    <2>1. /\ local[j] # None => local[j].gen <= row.gen
          /\ SeenOK(loaded[j]) /\ SeenOK(Found(j))
          /\ \A e \in Elems(pending[j]) : QueuedOK(e)
      BY DEF Behind
    <2>2. local'[j] # None => local'[j].gen <= row.gen
      BY <1>6, <2>1 DEF SeenOK
    <2>3. SeenOK(loaded'[j]) /\ SeenOK(Found(j)')
      BY <1>2, <1>4, <1>5, <2>1
    <2>4. \A e \in Elems(pending'[j]) : QueuedOK(e)
      BY <1>3, <2>1
    <2> QED BY <1>0, <2>2, <2>3, <2>4, BehindMoves
  <1> QED BY <1>1, <1>7
\* The steps that change the row, or put an event on its way.
LEMMA ResetWritten ==
    ASSUME HealthTypes, HealthTypes', Settled, \A j \in Replicas : Behind(j),
           row # None, row' # None, NEW i \in Replicas, probe[i] = None,
           Persist(i) \/ PersistFails(i)
    PROVE  Settled' /\ \A j \in Replicas : Behind(j)'
  <1>0. /\ pending \in [Replicas -> Seq(Events)]
        /\ local' = local /\ loaded' = loaded /\ job' = job /\ resetAt' = resetAt
    BY DEF HealthTypes, Persist, PersistFails
  <1>1. PICK e \in Flight(i) : e \in Events /\ Written(e)
    BY Statement
  <1>2. QueuedOK(e)
    BY DEF Flight, Saving, Behind
  <1>3. Settled' /\ row'.gen = row.gen
    BY <1>0, <1>1, <1>2, SettledWritten
  <1>4. \A j \in Replicas : Elems(pending'[j]) \subseteq Elems(pending[j])
    <2>1. CASE Persist(i)
      <3>1. Fewer(Tail(pending[i]), pending[i])
        BY <1>0, <2>1, FrontEvent DEF Persist
      <3> QED BY <2>1, <3>1, CalmQueue DEF Persist
    <2>2. CASE PersistFails(i)
      BY <2>2 DEF PersistFails
    <2> QED BY <2>1, <2>2
  <1>5. ASSUME NEW j \in Replicas PROVE Behind(j)'
    <2>1. Found(j)' = Found(j)
      BY <1>0 DEF Found
    <2>2. /\ local'[j] # None => local'[j].gen <= row.gen
          /\ SeenOK(loaded'[j]) /\ SeenOK(Found(j)')
          /\ \A e2 \in Elems(pending'[j]) : QueuedOK(e2)
      BY <1>0, <1>4, <2>1 DEF Behind
    <2> QED BY <1>0, <1>3, <2>2, BehindMoves
  <1> QED BY <1>3, <1>5

LEMMA ResetConfigured ==
    ASSUME HealthTypes, HealthTypes', Settled, \A j \in Replicas : Behind(j),
           ChangeConfig
    PROVE  Settled' /\ \A j \in Replicas : Behind(j)'
  <1>0. /\ local' = local /\ loaded' = loaded /\ job' = job /\ resetAt' = resetAt
        /\ pending' = pending /\ row # None
    BY DEF ChangeConfig
  <1>1. row \in Healths /\ row.config \in 1..(used["configs"] + 1)
        /\ used["configs"] \in Nat /\ now \in 0..MaxTime /\ resetAt \in 0..MaxTime
    BY <1>0, BoundsOf DEF HealthTypes
  <1>2. used["configs"] < MaxConfigs /\ MaxConfigs \in Nat /\ MaxTime \in Nat
    BY UsedOf, BoundsOf, HealthAssumption DEF ChangeConfig
  <1>3. row.config + 1 \in Configs /\ now \in Nat /\ resetAt \in Nat
    BY <1>1, <1>2 DEF Configs
  <1>4. /\ row' \in Healths /\ row'.gen = row.gen + 1 /\ row'.counts = row.counts
        /\ row'.updated > row.updated
    BY <1>1, <1>3, ChangedRowOf
  <1>5. row' # None /\ row'.updated \in Nat /\ row.updated \in Nat
    BY <1>1, <1>4, Fields
  <1>6. Settled'
    BY <1>0, <1>3, <1>4, <1>5 DEF Settled
  <1>7. ASSUME NEW j \in Replicas PROVE Behind(j)'
    <2>1. Found(j)' = Found(j)
      BY <1>0 DEF Found
    <2>2. /\ local'[j] # None => local'[j].gen <= row.gen
          /\ SeenOK(loaded'[j]) /\ SeenOK(Found(j)')
          /\ \A e \in Elems(pending'[j]) : QueuedOK(e)
      BY <1>0, <2>1 DEF Behind
    <2> QED BY <1>0, <1>4, <1>5, <2>2, BehindMoves
  <1> QED BY <1>6, <1>7

\* The reset itself: nobody has seen the new generation, but for the replica
\* that has just made it.
LEMMA ResetAgain ==
    ASSUME HealthTypes, HealthTypes', Settled, \A j \in Replicas : Behind(j),
           row # None, row' # None, NEW i \in Replicas,
           ResetHealth(i) \/ (ResetFails(i) /\ row' # row)
    PROVE  Settled' /\ \A j \in Replicas : Behind(j)'
  <1>0. /\ job \in [Replicas -> Jobs] /\ row \in Healths
        /\ now \in 0..MaxTime /\ MaxTime \in Nat
        /\ local' = local /\ loaded' = loaded /\ pending' = pending /\ now' = now
    BY HealthAssumption DEF HealthTypes, ResetHealth, ResetFails
  <1>1. row' = ResetRow /\ resetAt' = now /\ now \in Nat
    BY <1>0 DEF ResetHealth, ResetFails
  <1>2. /\ row' \in Healths /\ row'.gen = row.gen + 1 /\ row'.counts = {}
        /\ row'.updated > now
    BY <1>0, <1>1, ResetRowOf
  <1>3. row'.updated \in Nat /\ row'.gen \in Nat
    BY <1>2, Fields
  <1>4. Settled'
    BY <1>1, <1>2, <1>3 DEF Settled
  <1>5. ASSUME NEW j \in Replicas, SeenOK(Found(j)') PROVE Behind(j)'
    <2>1. /\ local'[j] # None => local'[j].gen <= row.gen
          /\ SeenOK(loaded'[j])
          /\ \A e \in Elems(pending'[j]) : QueuedOK(e)
      BY <1>0 DEF Behind
    <2> QED BY <1>2, <1>5, <2>1, BehindMoves
  <1>6. ASSUME NEW j \in Replicas, job'[j] = job[j] PROVE Behind(j)'
    <2>1. Found(j)' = Found(j)
      BY <1>6 DEF Found
    <2> QED BY <1>5, <2>1 DEF Behind
  <1>7. \A j \in Replicas : j # i => job'[j] = job[j]
    BY <1>0 DEF ResetHealth, ResetFails
  <1>8. CASE ResetFails(i)
    <2>1. job'[i].step = "idle"
      BY <1>0, <1>8 DEF ResetFails, Idle
    <2>2. Found(i)' = None
      BY <2>1 DEF Found
    <2>3. Behind(i)'
      BY <1>5, <2>2 DEF SeenOK
    <2> QED BY <1>4, <1>6, <1>7, <2>3
  <1>9. CASE ResetHealth(i)
    <2>1. job'[i].step = "fence" /\ job'[i].found = row'
      BY <1>0, <1>9 DEF ResetHealth
    <2>2. Found(i)' = row'
      BY <2>1 DEF Found
    <2>3. /\ Found(i)'.gen <= row'.gen
          /\ Found(i)'.updated >= resetAt'
      BY <1>1, <1>2, <1>3, <2>2
    <2>4. SeenOK(Found(i))'
      BY <2>3 DEF SeenOK
    <2>5. /\ \A f \in Healths \cup {None} : SeenOK(f) => SeenOK(f)'
          /\ \A e \in Events : QueuedOK(e) => QueuedOK(e)'
          /\ \A f \in Healths : f.gen <= row.gen => f.gen <= row'.gen
      BY <1>2, RowMoves
    <2>6. /\ local[i] \in Healths \cup {None} /\ loaded[i] \in Healths \cup {None}
          /\ Elems(pending[i]) \subseteq Events
      BY Members DEF HealthTypes
    <2>7. /\ local'[i] # None => local'[i].gen <= row'.gen
          /\ \A e \in Elems(pending'[i]) : QueuedOK(e)'
      BY <1>0, <2>5, <2>6 DEF Behind
    <2>8. SeenOK(loaded[i])'
      <3>1. loaded[i] # None =>
               loaded[i].gen <= row'.gen
               /\ (loaded[i].gen = row'.gen => loaded[i].updated >= resetAt')
        BY <2>5, <2>6 DEF Behind, SeenOK
      <3> QED BY <1>0, <3>1 DEF SeenOK
    <2>9. Behind(i)'
      BY <2>4, <2>7, <2>8 DEF Behind
    <2> QED BY <1>4, <1>6, <1>7, <2>9
  <1> QED BY <1>8, <1>9

\* A result is recorded after the last reset.
LEMMA ResetRecorded ==
    ASSUME HealthTypes, HealthTypes', Settled, \A j \in Replicas : Behind(j),
           row # None, resetAt <= now, NEW i \in Replicas,
           NEW c \in routed[i], NEW v \in Verdicts, RecordResult(i, c, v)
    PROVE  Settled' /\ \A j \in Replicas : Behind(j)'
  <1>0. /\ row' = row /\ resetAt' = resetAt /\ loaded' = loaded /\ job' = job
        /\ row \in Healths /\ now \in 0..MaxTime /\ resetAt \in 0..MaxTime
        /\ MaxTime \in Nat
    BY HealthAssumption DEF HealthTypes, RecordResult
  <1>a. PICK m \in Healths, e \in Events : RecordedAs(i, m, e)
    BY ResultRecorded
  <1>1. /\ m = local[i] \/ (m.gen = 0 /\ m.counts = {})
        /\ ~IsProbe(e) /\ e.gen = m.gen /\ e.result.at = now
        /\ local'[i] \in Healths /\ local'[i].gen = m.gen
        /\ \A j \in Replicas : j # i => local'[j] = local[j]
        /\ Elems(pending'[i]) \subseteq Elems(pending[i]) \cup {e}
        /\ \A j \in Replicas : j # i => pending'[j] = pending[j]
    BY <1>a DEF RecordedAs
  <1>2. row.gen \in Nat /\ m.gen \in Nat /\ m # None /\ e.gen \in Nat
    BY <1>0, Fields, EventFields
  <1>3. m.gen <= row.gen
    BY <1>1, <1>2 DEF Behind
  <1>4. QueuedOK(e)
    BY <1>0, <1>1, <1>3 DEF QueuedOK
  <1>5. Settled'
    BY <1>0 DEF Settled
  <1>6. ASSUME NEW j \in Replicas PROVE Behind(j)'
    <2>1. Found(j)' = Found(j)
      BY <1>0 DEF Found
    <2>2. /\ local[j] # None => local[j].gen <= row.gen
          /\ SeenOK(loaded[j]) /\ SeenOK(Found(j))
          /\ \A d \in Elems(pending[j]) : QueuedOK(d)
      BY DEF Behind
    <2>3. /\ local'[j] # None => local'[j].gen <= row.gen
          /\ SeenOK(loaded'[j]) /\ SeenOK(Found(j)')
          /\ \A d \in Elems(pending'[j]) : QueuedOK(d)
      BY <1>0, <1>1, <1>3, <1>4, <2>1, <2>2
    <2> QED BY <1>0, <2>3, BehindMoves
  <1> QED BY <1>5, <1>6

\* An event that is rebased to the row's generation is of after the reset.
LEMMA ResetReconciled ==
    ASSUME HealthTypes, HealthTypes', Settled, \A j \in Replicas : Behind(j),
           row # None, NEW i \in Replicas, JobOK(i), Reconcile(i)
    PROVE  Settled' /\ \A j \in Replicas : Behind(j)'
  <1> DEFINE e == job[i].event
             f == job[i].found
  <1>0. /\ row' = row /\ resetAt' = resetAt /\ loaded' = loaded
        /\ job \in [Replicas -> Jobs] /\ job' = [job EXCEPT ![i] = Idle]
        /\ row \in Healths /\ resetAt \in 0..MaxTime /\ MaxTime \in Nat
    BY HealthAssumption DEF HealthTypes, Reconcile
  <1>1. /\ job[i].step = "reconcile" /\ e \in Events /\ f \in Healths
        /\ local'[i] # None =>
              local'[i].gen = f.gen \/ (local[i] # None /\ local'[i].gen = local[i].gen)
        /\ \A j \in Replicas : j # i => local'[j] = local[j]
        /\ \A j \in Replicas : j # i => pending'[j] = pending[j]
    BY Reconciled
  <1>2. \A d \in Elems(pending'[i]) :
           \/ d \in Elems(pending[i])
           \/ \E c \in Elems(pending[i]) :
                 /\ c.result.id = e.result.id /\ e.result.at > f.updated
                 /\ d = AtGen(c, f.gen)
    BY Reconciled
  <1>3. SeenOK(f) /\ f # None
    <2>1. f = Found(i) /\ f # None
      BY <1>1, Fields DEF Found
    <2>2. SeenOK(Found(i))
      BY DEF Behind
    <2> QED BY <2>1, <2>2
  <1>4. \A c \in Elems(pending[i]) : Alike(c, e) /\ c \in Events
    <2>1. Elems(pending[i]) \subseteq Events
      BY Members DEF HealthTypes
    <2> QED BY <1>1, <2>1 DEF JobOK, Flight
  <1>5. ~IsProbe(e)
    BY <1>1 DEF JobOK
  <1> HIDE DEF e, f
  <1>6. row.gen \in Nat /\ f.gen \in Nat /\ f.updated \in Nat /\ resetAt \in Nat
        /\ f.gen <= row.gen /\ e.result.at \in Nat
    BY <1>0, <1>1, <1>3, Fields, EventFields DEF SeenOK
  <1>7. ASSUME NEW d \in Elems(pending'[i]) PROVE QueuedOK(d)
    <2>1. CASE d \in Elems(pending[i])
      BY <2>1 DEF Behind
    <2>2. CASE d \notin Elems(pending[i])
      <3>1. PICK c \in Elems(pending[i]) :
               /\ c.result.id = e.result.id /\ e.result.at > f.updated
               /\ d = AtGen(c, f.gen)
        BY <1>2, <2>2
      <3>2. ~IsProbe(c) /\ c.result.at = e.result.at /\ c \in Events
        BY <1>4, <1>5, <3>1 DEF Alike
      <3>3. d.result = c.result /\ d.snapshot = c.snapshot /\ d.gen = f.gen
        BY <3>1, <3>2 DEF AtGen, Events
      <3>4. f.gen = row.gen => e.result.at >= resetAt
        BY <1>3, <1>6, <3>1 DEF SeenOK
      <3>5. d.result.at < resetAt => d.gen < row.gen
        BY <1>6, <3>2, <3>3, <3>4
      <3> QED BY <1>6, <3>2, <3>3, <3>5 DEF QueuedOK, IsProbe
    <2> QED BY <2>1, <2>2
  <1>8. Settled'
    BY <1>0 DEF Settled
  <1>9. ASSUME NEW j \in Replicas PROVE Behind(j)'
    <2>1. Found(j)' = Found(j) \/ Found(j)' = None
      BY <1>0 DEF Found, Idle
    <2>2. /\ local[j] # None => local[j].gen <= row.gen
          /\ SeenOK(loaded[j]) /\ SeenOK(Found(j)) /\ SeenOK(None)
          /\ \A d \in Elems(pending[j]) : QueuedOK(d)
      BY DEF Behind, SeenOK
    <2>3. local'[j] # None => local'[j].gen <= row.gen
      BY <1>1, <1>6, <2>2
    <2>4. /\ SeenOK(loaded'[j]) /\ SeenOK(Found(j)')
          /\ \A d \in Elems(pending'[j]) : QueuedOK(d)
      BY <1>0, <1>1, <1>7, <2>1, <2>2
    <2> QED BY <1>0, <2>3, <2>4, BehindMoves
  <1> QED BY <1>8, <1>9
\* While nothing is probed, no probe is under way.
LEMMA NoProbe ==
    ASSUME HealthTypes, [HealthNext]_healthVars, used'["probes"] = 0,
           \A j \in Replicas : probe[j] = None
    PROVE  \A j \in Replicas : /\ probe'[j] = None /\ ~StartProbe(j)
                               /\ \A v \in Verdicts : ~RecordProbe(j, v)
  <1>0. probe \in [Replicas -> Probes] /\ used["probes"] \in Nat
        /\ "probes" \in DOMAIN Bounds
    BY BoundsOf DEF HealthTypes
  <1>1. ASSUME NEW j \in Replicas PROVE ~StartProbe(j)
    <2> SUFFICES ASSUME StartProbe(j) PROVE FALSE
      OBVIOUS
    <2>1. used'["probes"] = used["probes"] + 1
      BY <1>0, UsedOf DEF StartProbe
    <2> QED BY <1>0, <2>1
  <1>2. ASSUME NEW j \in Replicas, NEW v \in Verdicts PROVE ~RecordProbe(j, v)
    BY DEF RecordProbe
  <1>3. probe' = probe \/ \E i \in Replicas : probe' = [probe EXCEPT ![i] = None]
    <2>1. CASE UNCHANGED healthVars \/ PassTime \/ ChangeConfig
      BY <2>1 DEF healthVars, PassTime, ChangeConfig
    <2>2. ASSUME NEW i \in Replicas,
             \/ Load(i) \/ Route(i)
             \/ \E c \in routed[i], v \in Verdicts : RecordResult(i, c, v)
             \/ DiscardProbe(i) \/ SaveProbe(i)
             \/ SaveProbeFails(i)
             \/ WorkerStep(i)
             \/ PersistFails(i) \/ ReloadFails(i)
             \/ StartReset(i) \/ ResetFails(i)
             \/ Delete(i) \/ Forget(i) \/ Crash(i)
          PROVE  probe' = probe \/ probe' = [probe EXCEPT ![i] = None]
      BY <2>2 DEF Load, Route, RecordResult, DiscardProbe, SaveProbe,
             SaveProbeFails, WorkerStep, Persist, DropProbe, Conflict,
             Reload, Reconcile, ReconcileDeleted, ResetHealth, FenceQueue,
             PersistFails, ReloadFails, StartReset, ResetFails, Delete, Forget, Crash
    <2> QED BY <1>1, <1>2, <2>1, <2>2 DEF HealthNext
  <1>4. \A j \in Replicas : probe'[j] = None
    BY <1>0, <1>3
  <1> QED BY <1>1, <1>2, <1>4

\* Every step keeps resets final.
LEMMA ResetStep ==
    ASSUME HealthTypes, HealthTypes', ResetOK, \A j \in Replicas : JobOK(j),
           [HealthNext]_healthVars
    PROVE  ResetOK'
  <1> SUFFICES ASSUME used'["probes"] = 0
               PROVE  /\ resetAt' <= now'
                      /\ \A j \in Replicas : probe'[j] = None
                      /\ row' # None => Settled' /\ \A j \in Replicas : Behind(j)'
    BY DEF ResetOK, Settled, Behind
  <1>0. /\ used["probes"] = 0 /\ now <= now' /\ (row' # None => row # None)
        /\ resetAt' = resetAt \/ (resetAt' = now /\ now' = now)
    BY Onwards
  <1>1. /\ resetAt <= now /\ \A j \in Replicas : probe[j] = None
        /\ row # None => Settled /\ \A j \in Replicas : Behind(j)
    BY <1>0 DEF ResetOK, Settled, Behind
  <1>2. \A j \in Replicas : /\ probe'[j] = None /\ ~StartProbe(j)
                            /\ \A v \in Verdicts : ~RecordProbe(j, v)
    BY <1>1, NoProbe
  <1>3. resetAt' <= now'
    <2>1. now \in 0..MaxTime /\ now' \in 0..MaxTime /\ resetAt \in 0..MaxTime
          /\ MaxTime \in Nat
      BY HealthAssumption DEF HealthTypes
    <2> QED BY <1>0, <1>1, <2>1
  <1> DEFINE Goal == Settled' /\ \A j \in Replicas : Behind(j)'
  <1> SUFFICES ASSUME row' # None PROVE Goal
    BY <1>2, <1>3
  <1>4. Settled /\ (\A j \in Replicas : Behind(j)) /\ row # None
    BY <1>0, <1>1
  <1>5. ASSUME ChangeConfig PROVE Goal
    BY <1>4, <1>5, ResetConfigured
  <1>6. ASSUME NEW i \in Replicas,
           \/ UNCHANGED healthVars \/ PassTime \/ Load(i) \/ Route(i)
           \/ DiscardProbe(i) \/ DropProbe(i) \/ Conflict(i) \/ Reload(i)
           \/ ReloadFails(i) \/ ReconcileDeleted(i) \/ StartReset(i)
           \/ FenceQueue(i) \/ Forget(i) \/ Crash(i)
        PROVE  Goal
    <2>1. row' = row /\ resetAt' = resetAt
      BY <1>6 DEF healthVars, PassTime, Load, Route, DiscardProbe, DropProbe, Conflict,
             Reload, ReloadFails, ReconcileDeleted, StartReset, FenceQueue, Forget, Crash
    <2> QED BY <1>4, <1>6, <2>1, ResetAside
  <1>7. ASSUME NEW i \in Replicas, NEW c \in routed[i], NEW v \in Verdicts,
               RecordResult(i, c, v)
        PROVE  Goal
    BY <1>1, <1>4, <1>7, ResetRecorded
  <1>8. ASSUME NEW i \in Replicas PROVE ~SaveProbe(i) /\ ~SaveProbeFails(i)
    BY <1>1 DEF SaveProbe, SaveProbeFails
  <1>9. ASSUME NEW i \in Replicas, Persist(i) \/ PersistFails(i) PROVE Goal
    BY <1>1, <1>4, <1>9, ResetWritten
  <1>10. ASSUME NEW i \in Replicas, Reconcile(i) PROVE Goal
    BY <1>4, <1>10, ResetReconciled
  <1>11. ASSUME NEW i \in Replicas, ResetHealth(i) PROVE Goal
    BY <1>4, <1>11, ResetAgain
  <1>12. ASSUME NEW i \in Replicas, ResetFails(i) PROVE Goal
    <2>1. CASE row' # row
      BY <1>4, <1>12, <2>1, ResetAgain
    <2>2. CASE row' = row
      <3>1. row # ResetRow
        <4>1. row \in Healths /\ now \in 0..MaxTime /\ MaxTime \in Nat
          BY <1>4, HealthAssumption DEF HealthTypes
        <4>2. now \in Nat /\ row.gen \in Nat
          BY <4>1, Fields
        <4>3. ResetRow.gen = row.gen + 1
          BY <4>1, <4>2, ResetRowOf
        <4> QED BY <4>2, <4>3
      <3>2. resetAt' = resetAt
        BY <1>12, <2>2, <3>1 DEF ResetFails
      <3> QED BY <1>4, <1>12, <2>2, <3>2, ResetAside
    <2> QED BY <2>1, <2>2
  <1>13. ASSUME NEW i \in Replicas, Delete(i) PROVE FALSE
    BY <1>13 DEF Delete
  <1>14. ASSUME NEW i \in Replicas, WorkerStep(i) PROVE Goal
    <2> HIDE DEF Goal
    <2> QED BY <1>6, <1>9, <1>10, <1>11, <1>14 DEF WorkerStep
  <1>15. ASSUME UNCHANGED healthVars \/ PassTime PROVE Goal
    <2>1. row' = row /\ resetAt' = resetAt /\ local' = local /\ loaded' = loaded
          /\ pending' = pending /\ job' = job
      BY <1>15 DEF healthVars, PassTime
    <2>2. \A j \in Replicas : Found(j)' = Found(j)
      BY <2>1 DEF Found
    <2>3. Settled'
      BY <1>4, <2>1 DEF Settled
    <2>4. ASSUME NEW j \in Replicas PROVE Behind(j)'
      <3>1. /\ local'[j] # None => local'[j].gen <= row.gen
            /\ SeenOK(loaded'[j]) /\ SeenOK(Found(j)')
            /\ \A e \in Elems(pending'[j]) : QueuedOK(e)
        BY <1>4, <2>1, <2>2 DEF Behind
      <3> QED BY <1>4, <2>1, <3>1, BehindMoves
    <2> QED BY <2>3, <2>4
  <1> HIDE DEF Goal
  <1> QED
    BY <1>2, <1>5, <1>6, <1>7, <1>8, <1>9, <1>12, <1>13, <1>14, <1>15 DEF HealthNext

-----------------------------------------------------------------------------
(* The theorems *)

LEMMA InductiveInit ==
    ASSUME HealthInit
    PROVE  HealthInductive
  <1>0. /\ DOMAIN Bounds = {"results", "probes", "resets", "configs", "faults"}
        /\ \A b \in DOMAIN Bounds : Bounds[b] \in Nat
        /\ MaxTime \in Nat /\ MaxPending \in Nat /\ MaxConfigs \in Nat
    BY BoundsOf, HealthAssumption
  <1>1. 1 \in Configs
    BY <1>0 DEF Configs
  <1>2. /\ row \in Healths /\ row.gen = 0 /\ row.config = 1 /\ row.counts = {}
        /\ row.updated = 0
    BY <1>1, NewOf DEF HealthInit
  <1>3. <<>> \in Seq(Events) /\ Len(<<>>) = 0 /\ Elems(<<>>) = {}
    BY EmptySeq DEF Elems
  <1>4. HealthTypes
    <2>1. /\ used = [b \in DOMAIN Bounds |-> 0] /\ used \in [DOMAIN Bounds -> Nat]
          /\ \A b \in DOMAIN Bounds : used[b] <= Bounds[b]
          /\ used["configs"] = 0
      BY <1>0 DEF HealthInit
    <2>2. /\ pending \in [Replicas -> Seq(Events)]
          /\ \A i \in Replicas : Len(pending[i]) <= MaxPending
      BY <1>0, <1>3 DEF HealthInit
    <2>3. job \in [Replicas -> Jobs] /\ probe \in [Replicas -> Probes]
      BY JobMade, ProbeMade DEF HealthInit
    <2> QED BY <1>0, <1>2, <2>1, <2>2, <2>3 DEF HealthInit, HealthTypes
  <1>5. \A i \in Replicas : Flight(i) = {} /\ Found(i) = None
    BY <1>3 DEF HealthInit, Flight, Saving, Found, Idle
  <1>6. Probing = {}
    BY <1>5 DEF Probing
  <1>7. \A i \in Replicas : FlightOK(i) /\ JobOK(i)
    BY <1>5 DEF FlightOK, JobOK, HealthInit, Idle
  <1>8. CleanOK
    BY <1>2, <1>5, <1>6 DEF CleanOK, Clean, HealthInit
  <1>9. ResetOK
    BY <1>2, <1>3, <1>5 DEF ResetOK, SeenOK, HealthInit
  <1> QED BY <1>4, <1>7, <1>8, <1>9 DEF HealthInductive

LEMMA InductiveStep ==
    ASSUME HealthInductive, [HealthNext]_healthVars
    PROVE  HealthInductive'
  <1>0. /\ HealthTypes /\ ResetOK /\ CleanOK
        /\ \A i \in Replicas : FlightOK(i) /\ JobOK(i)
    BY DEF HealthInductive
  <1>1. HealthTypes'
    BY <1>0, TypesStep
  <1>2. ResetOK'
    BY <1>0, <1>1, ResetStep
  <1> DEFINE Goal == CleanOK' /\ \A j \in Replicas : FlightOK(j)' /\ JobOK(j)'
  <1>3. ASSUME NEW i \in Replicas,
           \/ UNCHANGED healthVars \/ PassTime \/ ChangeConfig
           \/ Load(i) \/ Route(i) \/ StartProbe(i) \/ DiscardProbe(i)
           \/ SaveProbe(i) \/ SaveProbeFails(i)
           \/ Persist(i) \/ PersistFails(i) \/ DropProbe(i)
           \/ Conflict(i) \/ Reload(i) \/ ReloadFails(i) \/ ReconcileDeleted(i)
           \/ StartReset(i) \/ ResetHealth(i) \/ ResetFails(i) \/ FenceQueue(i)
           \/ Delete(i) \/ Forget(i) \/ Crash(i)
        PROVE  Goal
    BY <1>0, <1>1, <1>3, CleanStep, FlightStep
  <1>4. ASSUME NEW i \in Replicas, Reconcile(i) PROVE Goal
    BY <1>0, <1>1, <1>4, CleanStep, FlightRebased
  <1>5. ASSUME NEW i \in Replicas, NEW c \in routed[i], NEW v \in Verdicts,
               RecordResult(i, c, v)
        PROVE  Goal
    BY <1>0, <1>1, <1>5, CleanRecorded
  <1>6. ASSUME NEW i \in Replicas, NEW v \in Verdicts, RecordProbe(i, v) PROVE Goal
    BY <1>0, <1>1, <1>6, CleanProbed
  <1>7. ASSUME Replicas = {} PROVE Goal
    <2>1. ~(\E i \in Replicas : TRUE) /\ (UNCHANGED healthVars \/ PassTime \/ ChangeConfig)
      BY <1>7 DEF HealthNext
    <2>2. Probing' = {}
      BY <1>7 DEF Probing
    <2>3. row' # None => row # None /\ row'.counts = row.counts /\ row' \in Healths
      <3>1. CASE UNCHANGED healthVars \/ PassTime
        BY <1>0, <3>1 DEF healthVars, PassTime, HealthTypes
      <3>2. CASE ChangeConfig
        <4>1. row \in Healths
          BY <1>0, <3>2 DEF ChangeConfig, HealthTypes
        <4>2. row'.counts = row.counts /\ row' \in Healths \cup {None}
          BY <1>1, <3>2, <4>1 DEF ChangeConfig, Healths, HealthTypes
        <4> QED BY <3>2, <4>2 DEF ChangeConfig
      <3> QED BY <2>1, <3>1, <3>2
    <2>4. nextId' = nextId
      BY <2>1 DEF healthVars, PassTime, ChangeConfig
    <2>5. Clean(row', nextId', Probing')
      BY <1>0, <2>2, <2>3, <2>4 DEF CleanOK, Clean
    <2> QED BY <1>7, <2>2, <2>5 DEF CleanOK
  <1>8. Goal
    <2> HIDE DEF Goal
    <2> QED BY <1>3, <1>4, <1>5, <1>6, <1>7 DEF HealthNext, WorkerStep
  <1> QED BY <1>1, <1>2, <1>8 DEF HealthInductive

LEMMA InductiveImplies ==
    ASSUME HealthInductive
    PROVE  HealthInvariant
  <1>1. HealthTypeOK
    <2>1. HealthTypes
      BY DEF HealthInductive
    <2>2. \A b \in DOMAIN Bounds : used[b] \in 0..Bounds[b]
      BY <2>1, BoundsOf DEF HealthTypes
    <2> QED BY <2>1, <2>2 DEF HealthTypes, HealthTypeOK
  <1>2. ResetForgets
    BY DEF HealthInductive, ResetOK, ResetForgets, ResetIsFinal
  <1> QED BY <1>1, <1>2 DEF HealthInvariant

LEMMA InductiveAlways == HealthSpec => []HealthInductive
  BY InductiveInit, InductiveStep, PTL DEF HealthSpec
\* What a step can make of the row, other than a statement for an event.
LEMMA OtherRows ==
    ASSUME HealthTypes, [HealthNext]_healthVars, row # None, row' # None
    PROVE  \/ row' = row
           \/ \E i \in Replicas : \E e \in Flight(i) : e \in Events /\ Written(e)
           \/ row'.counts = {}
           \/ row'.config # row.config
  <1>0. row \in Healths /\ now \in 0..MaxTime /\ MaxTime \in Nat
        /\ "configs" \in DOMAIN Bounds
    BY BoundsOf, HealthAssumption DEF HealthTypes
  <1>1. now \in Nat
    BY <1>0
  <1>2. ResetRow.counts = {}
    BY <1>0, <1>1, ResetRowOf
  <1>3. CASE ChangeConfig
    <2>1. row.config \in 1..(used["configs"] + 1) /\ used["configs"] \in Nat
      BY BoundsOf DEF HealthTypes
    <2>2. used["configs"] < MaxConfigs /\ MaxConfigs \in Nat
      BY <1>0, <1>3, UsedOf, BoundsOf, HealthAssumption DEF ChangeConfig
    <2>3. row.config + 1 \in Configs /\ row.config \in Nat
      BY <2>1, <2>2 DEF Configs
    <2>4. row'.config = row.config + 1
      BY <1>0, <1>1, <1>3, <2>3, ChangedRowOf
    <2> QED BY <2>3, <2>4
  <1>4. CASE UNCHANGED healthVars \/ PassTime
    BY <1>4 DEF healthVars, PassTime
  <1>5. CASE \E i \in Replicas : \/ SaveProbe(i) \/ SaveProbeFails(i)
                                 \/ Persist(i) \/ PersistFails(i)
    BY <1>5, Statement
  <1>6. ASSUME NEW i \in Replicas,
           \/ Load(i) \/ Route(i)
           \/ \E c \in routed[i], v \in Verdicts : RecordResult(i, c, v)
           \/ StartProbe(i) \/ DiscardProbe(i)
           \/ \E v \in Verdicts : RecordProbe(i, v)
           \/ DropProbe(i) \/ Conflict(i) \/ Reload(i) \/ Reconcile(i)
           \/ ReconcileDeleted(i) \/ ResetHealth(i) \/ FenceQueue(i)
           \/ ReloadFails(i) \/ StartReset(i) \/ ResetFails(i)
           \/ Delete(i) \/ Forget(i) \/ Crash(i)
        PROVE  row' = row \/ row' = ResetRow
    BY <1>6 DEF Load, Route, RecordResult, StartProbe, DiscardProbe, RecordProbe,
           DropProbe, Conflict, Reload, Reconcile, ReconcileDeleted, ResetHealth,
           FenceQueue, ReloadFails, StartReset, ResetFails, Delete, Forget, Crash
  <1> QED BY <1>2, <1>3, <1>4, <1>5, <1>6 DEF HealthNext, WorkerStep

\* A queued probe whose result the row counts is not stored again.
LEMMA OnceStep ==
    ASSUME HealthInductive, [HealthNext]_healthVars, NEW i \in Replicas,
           NEW e \in ToSet(pending[i]), IsProbe(e), row # None,
           e.result \in row.counts
    PROVE  row' # Stored(e)
  <1>0. /\ HealthTypes /\ CleanOK /\ \A j \in Replicas : FlightOK(j)
    BY DEF HealthInductive
  <1>1. e \in Flight(i) /\ e \in Probing
    <2>1. pending[i] \in Seq(Events)
      BY <1>0 DEF HealthTypes
    <2>2. DOMAIN pending[i] = 1..Len(pending[i])
      BY <2>1, LenProperties
    <2>3. e \in Elems(pending[i])
      BY <2>2 DEF ToSet, Elems
    <2> QED BY <2>3 DEF Flight, Probing
  <1>2. e \in Events /\ e.gen \in Nat /\ e.snapshot \in Healths /\ row \in Healths
    BY <1>0, <1>1, ProbingTypes DEF HealthTypes
  <1>3. /\ e.snapshot.gen = e.gen + 1 /\ e.result \in e.snapshot.counts
    BY <1>0, <1>1 DEF FlightOK
  <1>4. row.gen > e.gen /\ row.gen \in Nat
    <2>1. Clean(row, nextId, Probing)
      BY <1>0 DEF CleanOK
    <2> QED BY <1>1, <1>2, <2>1, Fields DEF Clean
  <1>5. /\ Stored(e) \in Healths /\ Stored(e).config = row.config
        /\ Stored(e).gen = row.gen + 1 /\ Stored(e).counts = e.snapshot.counts
    BY <1>2, StoredOf
  <1> SUFFICES ASSUME row' = Stored(e) PROVE FALSE
    OBVIOUS
  <1>6. row' # None /\ row' # row /\ row'.counts # {} /\ row'.config = row.config
    BY <1>3, <1>4, <1>5, Fields
  <1>7. PICK j \in Replicas : \E d \in Flight(j) : d \in Events /\ Written(d)
    BY <1>0, <1>6, OtherRows
  <1>8. PICK d \in Flight(j) : d \in Events /\ Written(d)
    BY <1>7
  <1>9. Applies(d) /\ row' = Stored(d)
    BY <1>6, <1>8 DEF Written
  <1>10. CASE ~IsProbe(d)
    BY <1>2, <1>4, <1>5, <1>8, <1>9, <1>10, StoredOf
  <1>11. CASE IsProbe(d)
    <2>1. d \in Probing /\ d.gen \in Nat /\ row.gen = d.gen
      BY <1>0, <1>8, <1>9, <1>11, ProbingTypes DEF Probing, Applies
    <2>2. d.result \in d.snapshot.counts
      BY <1>0, <1>8, <1>11 DEF FlightOK
    <2>3. Stored(d).counts = d.snapshot.counts
      BY <1>2, <1>8, <1>11, StoredOf
    <2>4. d.result \in e.snapshot.counts
      BY <1>5, <1>9, <2>2, <2>3
    <2>5. Clean(e.snapshot, nextId, Probing) /\ e.snapshot # None
      BY <1>0, <1>1, <1>2, Fields DEF CleanOK
    <2>6. e.snapshot.gen > d.gen
      BY <2>1, <2>4, <2>5 DEF Clean
    <2> QED BY <1>2, <1>3, <1>4, <2>1, <2>6
  <1> QED BY <1>10, <1>11

\* Queues keep their bound, and an administrator's reset is final for the
\* results of requests: none from before it is counted after it, whichever
\* replica queued, rebased or retried it.
THEOREM HealthSafe == HealthSpec => []HealthInvariant
  BY InductiveAlways, InductiveImplies, PTL

\* A probe is stored once: the queued copy of a snapshot that was written
\* directly, or whose write reported an error after taking effect, does nothing.
THEOREM ProbeStoredOnce == HealthSpec => ProbeCountsOnce
  <1> DEFINE Once == \A i \in Replicas :
                        \A e \in ToSet(pending[i]) :
                            IsProbe(e) /\ row # None /\ e.result \in row.counts
                                => row' # Stored(e)
  <1>1. HealthInductive /\ [HealthNext]_healthVars => [Once]_healthVars
    BY OnceStep
  <1>2. ProbeCountsOnce <=> [][Once]_healthVars
    BY PTL DEF ProbeCountsOnce
  <1> HIDE DEF Once
  <1> QED BY <1>1, <1>2, InductiveAlways, PTL DEF HealthSpec

=============================================================================
