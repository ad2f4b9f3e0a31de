--------------------------- MODULE ExecutorProofs ---------------------------
(***************************************************************************)
(* Theorems about Executor, for any number of requests, every chain of     *)
(* accounts, all limits and any number of faults.                          *)
(***************************************************************************)
EXTENDS Executor, FiniteSetTheorems, SequenceTheorems, WellFoundedInduction, TLAPS

-----------------------------------------------------------------------------
(* The inductive invariant, for one request.                               *)

\* The run works on the target it is at.
Working ==
    {"queue", "authorize", "quota", "snapshot", "dispatch", "await", "stream",
     "settle", "report", "done"}

\* Nothing was sent to the target yet.
Before == {"new", "pick", "queue", "authorize", "quota", "snapshot", "dispatch"}

\* Attempt k is the last that was sent.
LastSent(q, k) == k \in Sent(q) /\ \A j \in Sent(q) : j <= k

\* Nothing was sent beyond the place of the run, and what was sent there ended
\* as the attempt did.
PlaceOK(q) ==
    /\ pc[q] \in Working => at[q] \in Chain
    /\ \A j \in Chain :
           j > at[q] \/ (j = at[q] /\ pc[q] \in Before) => outcome[q][j] = "none"
    /\ pc[q] \in {"await", "stream"} => outcome[q][at[q]] = "sent"
    /\ pc[q] \in {"settle", "report"} =>
           /\ result[q] # "none"
           /\ result[q] = "gone" => gone[q]
           /\ result[q] = "options" => Account(at[q]) \in OpenAi
           /\ \/ outcome[q][at[q]] = result[q]
              \/ /\ outcome[q][at[q]] = "none"
                 /\ result[q] \in {"denied", "gone", "lost"}

\* No attempt forbids a later one that was sent or, while there are targets
\* left, the one the run is at.
PastOK(q) ==
    \A i \in Sent(q) :
        \/ ~PerhapsExecuted(q, outcome[q][i])
        \/ outcome[q][i] = "server" /\ q \in Idempotent
        \/ ~(i < at[q] /\ at[q] \in Chain) /\ \A j \in Sent(q) : j <= i

\* The client has content only of the attempt the run is at.
ContentOK(q) ==
    /\ content[q] \subseteq {at[q]}
    /\ content[q] # {} => sent[q]
    /\ sent[q] => pc[q] \in {"stream", "settle", "report", "done", "ended"}

\* Whose completion, usage and last event the client gets.
CompletionOK(q) ==
    /\ pc[q] = "stream" => usage[q] = at[q]
    /\ completed[q] =>
           /\ pc[q] \in {"settle", "report", "done", "ended"}
           /\ executed[q] = at[q] /\ usage[q] = at[q] /\ at[q] \in Chain
    /\ pc[q] \in {"settle", "report"} => (completed[q] <=> result[q] = "ok")
    /\ pc[q] = "done" => completed[q]
    /\ pc[q] # "ended" => final[q] = "none"
    /\ final[q] = "done" => completed[q]
    /\ pc[q] = "ended" /\ completed[q] => final[q] = "done"

\* An error that is kept for the client is of the last attempt.
ErrorOK(q) ==
    /\ response[q] \in Chain => LastSent(q, response[q])
    /\ deferred[q] # 0 => q \in Native /\ LastSent(q, deferred[q])
    /\ native[q] # 0 => pc[q] = "ended" /\ LastSent(q, native[q])

\* Accounts are blamed for attempts that are over, and metered for all.
AccountOK(q) ==
    /\ \A i \in blamed[q] :
           /\ i < at[q] \/ pc[q] = "ended"
           /\ outcome[q][i] \notin {"none", "ok", "gone", "lost", "payload", "late"}
    /\ \A i \in Sent(q) : tokens[q][i] # "none"
    /\ pc[q] \in {"snapshot", "dispatch"} => tokens[q][at[q]] # "none"
    /\ faults = 0 /\ pc[q] \in {"snapshot", "dispatch", "await", "stream", "settle"}
           => slot[q][at[q]] = "held"

RunOK(q) ==
    /\ PlaceOK(q) /\ PastOK(q) /\ ContentOK(q) /\ CompletionOK(q) /\ ErrorOK(q)
    /\ AccountOK(q)

\* No account has more slots taken than its limit.
SlotsWithinLimit == \A a \in Range(Plan) : Cardinality(InFlight(a)) <= SlotLimit

\* Together: the inductive invariant.
ExecutorInductive ==
    /\ ExecutorTypeOK
    /\ SlotsWithinLimit
    /\ \A q \in Requests : RunOK(q)

-----------------------------------------------------------------------------
(* The chain.  Induction is by the least counterexample.                   *)

\* Every non-empty set of natural numbers has a least element.
LEMMA LeastNat ==
    ASSUME NEW T \in SUBSET Nat, T # {}
    PROVE  \E n \in T : \A m \in T : n <= m
  <1>1. PICK n \in T : \A m \in T : ~(<<m, n>> \in OpToRel(<, Nat))
    BY NatLessThanWellFounded, WFMin, Zenon
  <1>2. \A m \in T : ~(m < n)
    BY <1>1 DEF OpToRel
  <1> QED BY <1>2

\* Concatenation, for proofs that need not know what it does.
Join(s, t) == s \o t

\* g is the table of the concatenations of the first members of w.
Joined(w, n, g) ==
    g = [i \in 1..n |-> IF i = 1 THEN w[i] ELSE Join(g[i - 1], w[i])]

\* There is such a table.
LEMMA JoinedExists ==
    ASSUME NEW w, NEW n \in Nat
    PROVE  \E g : Joined(w, n, g)
  <1> DEFINE Bad == {m \in Nat : ~\E g : Joined(w, m, g)}
  <1> SUFFICES ASSUME Bad # {} PROVE FALSE
    OBVIOUS
  <1>1. PICK m \in Bad : \A k \in Bad : m <= k
    BY LeastNat
  <1>2. m # 0
    <2>1. Joined(w, 0, [i \in 1..0 |-> 0])
      BY DEF Joined
    <2> QED BY <1>1, <2>1
  <1>3. PICK g : Joined(w, m - 1, g)
    BY <1>1, <1>2
  <1> DEFINE h == [i \in 1..m |-> IF i = m /\ m # 1 THEN Join(g[m - 1], w[m])
                                  ELSE IF i = 1 THEN w[1] ELSE g[i]]
  <1>4. ASSUME NEW i \in 1..(m - 1)
        PROVE  h[i] = g[i] /\ g[i] = IF i = 1 THEN w[i] ELSE Join(g[i - 1], w[i])
    <2>1. g[i] = IF i = 1 THEN w[i] ELSE Join(g[i - 1], w[i])
      BY <1>3 DEF Joined
    <2>2. i \in 1..m /\ i # m
      BY <1>1, <1>2
    <2> QED BY <2>1, <2>2
  <1>5. ASSUME NEW i \in 1..m PROVE h[i] = IF i = 1 THEN w[i] ELSE Join(h[i - 1], w[i])
    <2>1. CASE i = 1
      BY <1>1, <2>1
    <2>2. CASE i # 1
      <3>1. h[i - 1] = g[i - 1]
        <4>1. i - 1 \in 1..(m - 1)
          BY <1>1, <2>2
        <4> HIDE DEF h
        <4> QED BY <1>4, <4>1
      <3>2. CASE i = m
        BY <1>1, <2>2, <3>1, <3>2
      <3>3. CASE i # m
        <4>1. i \in 1..(m - 1)
          BY <1>1, <3>3
        <4> QED BY <1>4, <2>2, <3>1, <4>1
      <3> QED BY <3>2, <3>3
    <2> QED BY <2>1, <2>2
  <1>6. Joined(w, m, h)
    BY <1>5 DEF Joined
  <1> QED BY <1>1, <1>6

\* Sequences are flattened to a sequence.
LEMMA FlattenIsSeq ==
    ASSUME NEW S, NEW w \in Seq(Seq(S))
    PROVE  FlattenSeq(w) \in Seq(S)
  <1>1. Len(w) \in Nat /\ \A i \in 1..Len(w) : w[i] \in Seq(S)
    BY LenProperties, ElementOfSeq
  <1>2. CASE Len(w) = 0
    BY <1>2, EmptySeq DEF FlattenSeq
  <1>3. CASE Len(w) # 0
    <2> DEFINE g == CHOOSE h :
            h = [i \in 1..Len(w) |-> IF i = 1 THEN w[i] ELSE h[i - 1] \o w[i]]
    <2>1. Joined(w, Len(w), g)
      <3>1. \E h : Joined(w, Len(w), h)
        BY <1>1, JoinedExists
      <3> QED BY <3>1, Zenon DEF Joined, Join
    <2>2. FlattenSeq(w) = g[Len(w)]
      BY <1>3 DEF FlattenSeq
    <2> HIDE DEF g
    <2> DEFINE Bad == {i \in Nat : i \in 1..Len(w) /\ g[i] \notin Seq(S)}
    <2>3. ASSUME Bad # {} PROVE FALSE
      <3>1. PICK i \in Bad : \A k \in Bad : i <= k
        BY <2>3, LeastNat
      <3>2. i # 1
        BY <1>1, <2>1, <3>1 DEF Joined
      <3>3. i - 1 \in 1..Len(w) /\ g[i - 1] \in Seq(S)
        BY <1>1, <3>1, <3>2
      <3>4. g[i] = Join(g[i - 1], w[i])
        BY <1>1, <2>1, <3>1, <3>2 DEF Joined
      <3>5. g[i] \in Seq(S)
        BY <1>1, <3>1, <3>3, <3>4, ConcatProperties DEF Join
      <3> QED BY <3>1, <3>5
    <2>4. g[Len(w)] \in Seq(S)
      <3>1. Len(w) \in Nat /\ Len(w) \in 1..Len(w)
        BY <1>1, <1>3
      <3> QED BY <2>3, <3>1
    <2> QED BY <2>2, <2>4
  <1> QED BY <1>2, <1>3

\* The chain has a length.
LEMMA ChainLength == Len(Targets) \in Nat
  <1> DEFINE Record == [account : Range(Plan), compat : BOOLEAN]
             Slots(a) ==
                 <<[account |-> a, compat |-> FALSE]>>
                 \o IF a \in OpenAi THEN <<[account |-> a, compat |-> TRUE]>> ELSE <<>>
             Copies(a) == FlattenSeq([n \in 1..(Retries + 1) |-> Slots(a)])
             Blocks == [n \in 1..Len(Plan) |-> Copies(Plan[n])]
  <1>1. Len(Plan) \in Nat /\ \A n \in 1..Len(Plan) : Plan[n] \in Range(Plan)
    BY ExecutorAssumption, LenProperties, ElementOfSeq
  <1>2. \A a \in Range(Plan) : Slots(a) \in Seq(Record)
    <2> SUFFICES ASSUME NEW a \in Range(Plan) PROVE Slots(a) \in Seq(Record)
      OBVIOUS
    <2>1. <<[account |-> a, compat |-> FALSE]>> \in Seq(Record)
      OBVIOUS
    <2>2. <<[account |-> a, compat |-> TRUE]>> \in Seq(Record) /\ <<>> \in Seq(Record)
      OBVIOUS
    <2> QED BY <2>1, <2>2, ConcatProperties
  <1>3. \A a \in Range(Plan) : Copies(a) \in Seq(Record)
    <2> SUFFICES ASSUME NEW a \in Range(Plan) PROVE Copies(a) \in Seq(Record)
      OBVIOUS
    <2> HIDE DEF Slots, Record
    <2>1. [n \in 1..(Retries + 1) |-> Slots(a)] \in Seq(Seq(Record))
      BY <1>2, ExecutorAssumption, IsASeq
    <2> QED BY <2>1, FlattenIsSeq
  <1>4. Blocks \in Seq(Seq(Record))
    <2> HIDE DEF Copies, Record
    <2> QED BY <1>1, <1>3, IsASeq
  <1>5. Targets = FlattenSeq(Blocks)
    BY DEF Targets
  <1>6. Targets \in Seq(Record)
    <2> HIDE DEF Blocks, Record
    <2> QED BY <1>4, <1>5, FlattenIsSeq
  <1> QED BY <1>6, LenProperties

\* The next target, if any, is further down the chain.
LEMMA LeastOrProperty ==
    ASSUME NEW S \in SUBSET Chain, NEW n
    PROVE  LeastOr(S, n) \in S \cup {n} /\ (S = {} => LeastOr(S, n) = n)
  <1>1. CASE S = {}
    BY <1>1 DEF LeastOr
  <1>2. CASE S # {}
    <2>1. PICK m \in S : \A k \in S : m <= k
      <3>1. S \in SUBSET Nat
        BY ChainLength DEF Chain
      <3> QED BY <1>2, <3>1, LeastNat
    <2>2. Min(S) \in S
      BY <2>1 DEF Min
    <2> QED BY <1>2, <2>2 DEF LeastOr
  <1> QED BY <1>1, <1>2

\* So is the next one of another account.
LEMMA NextOtherProperty ==
    ASSUME NEW i
    PROVE  NextOther(i) = Gateway \/ (NextOther(i) \in Chain /\ NextOther(i) > i)
  <1> DEFINE S == {j \in Chain : j > i /\ Account(j) # Account(i)}
  <1>1. LeastOr(S, Gateway) \in S \cup {Gateway}
    <2> S \in SUBSET Chain
      OBVIOUS
    <2> HIDE DEF S
    <2> QED BY LeastOrProperty
  <1> QED BY <1>1 DEF NextOther

\* And a failure that stops the chain has none.
LEMMA NextTargetProperty ==
    ASSUME NEW q, NEW i, NEW e, NEW C
    PROVE  \/ NextTarget(q, i, e, C) = Gateway
           \/ /\ NextTarget(q, i, e, C) \in Chain /\ NextTarget(q, i, e, C) > i
              /\ ~Stops(q, e)
  <1> DEFINE S == {j \in Chain :
            /\ j > i
            /\ Targets[j].compat => Account(j) \in C
            /\ Retryable(e) \/ Account(j) # Account(i)}
  <1>1. LeastOr(S, Gateway) \in S \cup {Gateway}
    <2> S \in SUBSET Chain
      OBVIOUS
    <2> HIDE DEF S
    <2> QED BY LeastOrProperty
  <1>2. NextTarget(q, i, e, C) \in {Gateway, LeastOr(S, Gateway)}
    BY DEF NextTarget
  <1>3. Stops(q, e) => NextTarget(q, i, e, C) = Gateway
    BY DEF NextTarget
  <1> QED BY <1>1, <1>2, <1>3

-----------------------------------------------------------------------------
(* A step of one request.                                                  *)

\* Only request q moves.
OnlyRun(q) ==
    \A r \in Requests : r # q =>
        /\ pc'[r] = pc[r] /\ at'[r] = at[r] /\ result'[r] = result[r]
        /\ sent'[r] = sent[r] /\ completed'[r] = completed[r]
        /\ deferred'[r] = deferred[r] /\ gone'[r] = gone[r]
        /\ response'[r] = response[r] /\ usage'[r] = usage[r]
        /\ executed'[r] = executed[r] /\ final'[r] = final[r]
        /\ slot'[r] = slot[r] /\ tokens'[r] = tokens[r] /\ content'[r] = content[r]
        /\ native'[r] = native[r] /\ outcome'[r] = outcome[r] /\ blamed'[r] = blamed[r]

\* It is enough to look at that request and at the slots.
LEMMA OneRun ==
    ASSUME ExecutorInductive, ExecutorTypeOK', NEW q \in Requests, OnlyRun(q),
           faults' = 0 => faults = 0, SlotsWithinLimit', RunOK(q)'
    PROVE  ExecutorInductive'
  <1>1. ASSUME NEW r \in Requests, r # q PROVE RunOK(r)'
    <2>1. RunOK(r)
      BY DEF ExecutorInductive
    <2>2. PlaceOK(r)' /\ PastOK(r)'
      BY <1>1, <2>1 DEF OnlyRun, RunOK, PlaceOK, PastOK, Sent
    <2>3. ContentOK(r)' /\ CompletionOK(r)'
      BY <1>1, <2>1 DEF OnlyRun, RunOK, ContentOK, CompletionOK
    <2>4. ErrorOK(r)'
      BY <1>1, <2>1 DEF OnlyRun, RunOK, ErrorOK, LastSent, Sent
    <2>5. AccountOK(r)'
      BY <1>1, <2>1 DEF OnlyRun, RunOK, AccountOK, Sent
    <2> QED BY <2>2, <2>3, <2>4, <2>5 DEF RunOK
  <1> QED BY <1>1 DEF ExecutorInductive

\* The slots that are taken are finitely many.
LEMMA InFlightFinite ==
    ASSUME NEW a
    PROVE  IsFiniteSet(InFlight(a)) /\ Cardinality(InFlight(a)) \in Nat
  <1>1. IsFiniteSet(Requests \X Chain)
    <2>1. IsFiniteSet(Chain)
      BY ChainLength, FS_Interval DEF Chain
    <2> QED BY <2>1, ExecutorAssumption, FS_Product
  <1>2. InFlight(a) \subseteq Requests \X Chain
    BY DEF InFlight
  <1> QED BY <1>1, <1>2, FS_Subset, FS_CardinalityType

\* A step that takes no slot.
LEMMA SlotsShrink ==
    ASSUME SlotsWithinLimit,
           \A q \in Requests, i \in Chain : slot'[q][i] = "held" => slot[q][i] = "held"
    PROVE  SlotsWithinLimit'
  <1> SUFFICES ASSUME NEW a \in Range(Plan)
               PROVE  Cardinality(InFlight(a)') <= SlotLimit
    BY DEF SlotsWithinLimit
  <1>1. InFlight(a)' \subseteq InFlight(a)
    BY DEF InFlight
  <1>2. Cardinality(InFlight(a)') <= Cardinality(InFlight(a)) /\ Cardinality(InFlight(a)') \in Nat
    BY <1>1, InFlightFinite, FS_Subset, FS_CardinalityType
  <1>3. Cardinality(InFlight(a)) <= SlotLimit
    BY DEF SlotsWithinLimit
  <1> QED BY <1>2, <1>3, InFlightFinite, ExecutorAssumption

\* A step that takes one where there is one.
LEMMA SlotsReserve ==
    ASSUME SlotsWithinLimit, NEW q \in Requests, NEW i \in Chain, HasSlot(Account(i)),
           \A r \in Requests, j \in Chain :
               slot'[r][j] = "held" => slot[r][j] = "held" \/ (r = q /\ j = i)
    PROVE  SlotsWithinLimit'
  <1> SUFFICES ASSUME NEW a \in Range(Plan)
               PROVE  Cardinality(InFlight(a)') <= SlotLimit
    BY DEF SlotsWithinLimit
  <1>0. IsFiniteSet(InFlight(a)) /\ Cardinality(InFlight(a)) \in Nat /\ SlotLimit \in Nat
    BY InFlightFinite, ExecutorAssumption
  <1>1. CASE a # Account(i)
    <2>1. InFlight(a)' \subseteq InFlight(a)
      BY <1>1 DEF InFlight
    <2>2. Cardinality(InFlight(a)') <= Cardinality(InFlight(a)) /\ Cardinality(InFlight(a)') \in Nat
      BY <1>0, <2>1, FS_Subset, FS_CardinalityType
    <2>3. Cardinality(InFlight(a)) <= SlotLimit
      BY DEF SlotsWithinLimit
    <2> QED BY <1>0, <2>2, <2>3
  <1>2. CASE a = Account(i)
    <2>1. InFlight(a)' \subseteq InFlight(a) \cup {<<q, i>>}
      BY DEF InFlight
    <2>2. /\ IsFiniteSet(InFlight(a) \cup {<<q, i>>})
          /\ Cardinality(InFlight(a) \cup {<<q, i>>}) <= Cardinality(InFlight(a)) + 1
          /\ Cardinality(InFlight(a) \cup {<<q, i>>}) \in Nat
      <3> DEFINE S == InFlight(a)
                 T == S \cup {<<q, i>>}
      <3>1. /\ IsFiniteSet(T)
            /\ Cardinality(T) = IF <<q, i>> \in S THEN Cardinality(S) ELSE Cardinality(S) + 1
        <4> HIDE DEF S
        <4>1. IsFiniteSet(S)
          BY <1>0 DEF S
        <4> QED BY <4>1, FS_AddElement
      <3> QED BY <1>0, <3>1
    <2>3. /\ Cardinality(InFlight(a)') <= Cardinality(InFlight(a) \cup {<<q, i>>})
          /\ Cardinality(InFlight(a)') \in Nat
      BY <2>1, <2>2, FS_Subset, FS_CardinalityType
    <2>4. Cardinality(InFlight(a)) < SlotLimit
      BY <1>2 DEF HasSlot
    <2> QED BY <1>0, <2>2, <2>3, <2>4
  <1> QED BY <1>1, <1>2

-----------------------------------------------------------------------------
(* The steps.                                                              *)

\* One attempt of one request is updated.
LEMMA UpdateAttempt ==
    ASSUME NEW T, NEW f \in [Requests -> [Chain -> T]], NEW q \in Requests, NEW i \in Chain,
           NEW v \in T
    PROVE  [f EXCEPT ![q][i] = v] \in [Requests -> [Chain -> T]]
  OBVIOUS

\* What is known of request q before a step.
Known(q) ==
    /\ ExecutorTypeOK /\ SlotsWithinLimit
    /\ PlaceOK(q) /\ PastOK(q) /\ ContentOK(q) /\ CompletionOK(q) /\ ErrorOK(q)
    /\ AccountOK(q)
    /\ Len(Targets) \in Nat /\ MaxFaults \in Nat

\* It follows from the inductive invariant.
LEMMA PartsOf ==
    ASSUME ExecutorInductive, NEW q \in Requests
    PROVE  Known(q)
  BY ChainLength, ExecutorAssumption DEF ExecutorInductive, RunOK, Known

\* What a reservation does to the leases.
Reserved(q) ==
    /\ slot' \in [Requests -> [Chain -> {"none", "held", "free"}]]
    /\ tokens' \in [Requests -> [Chain -> {"none", "reserved", "charged", "expired"}]]
    /\ SlotsWithinLimit'
    /\ \A r \in Requests : r # q => slot'[r] = slot[r] /\ tokens'[r] = tokens[r]
    /\ \A i \in Chain : tokens[q][i] # "none" => tokens'[q][i] # "none"
    /\ \A i \in Chain : slot[q][i] = "held" => slot'[q][i] = "held"

\* A reservation takes a slot that is there.
LEMMA ReserveKeeps ==
    ASSUME NEW q \in Requests, Known(q), pc[q] = "quota", HasSlot(Account(at[q])),
           Reserve(q, at[q])
    PROVE  Reserved(q) /\ slot'[q][at[q]] = "held" /\ tokens'[q][at[q]] = "reserved"
  <1>1. at[q] \in Chain
    BY DEF Known, PlaceOK, Working
  <1>2. /\ slot' \in [Requests -> [Chain -> {"none", "held", "free"}]]
        /\ tokens' \in [Requests -> [Chain -> {"none", "reserved", "charged", "expired"}]]
    BY <1>1, UpdateAttempt DEF Reserve, Known, ExecutorTypeOK
  <1>3. \A r \in Requests, j \in Chain :
            /\ slot'[r][j] = IF r = q /\ j = at[q] THEN "held" ELSE slot[r][j]
            /\ tokens'[r][j] = IF r = q /\ j = at[q] THEN "reserved" ELSE tokens[r][j]
    BY <1>1 DEF Reserve, Known, ExecutorTypeOK
  <1>4. SlotsWithinLimit'
    BY <1>1, <1>3, SlotsReserve DEF Known
  <1>5. \A r \in Requests : r # q => slot'[r] = slot[r] /\ tokens'[r] = tokens[r]
    BY DEF Reserve, Known, ExecutorTypeOK
  <1> QED BY <1>1, <1>2, <1>3, <1>4, <1>5 DEF Reserved

\* So does a call that is cut off, if it reserves.
LEMMA MayReserveKeeps ==
    ASSUME NEW q \in Requests, Known(q), MayReserve(q, at[q])
    PROVE  Reserved(q)
  <1>1. CASE UNCHANGED leaseVars
    BY <1>1, SlotsShrink DEF leaseVars, Reserved, Known, ExecutorTypeOK
  <1>2. CASE pc[q] = "quota" /\ HasSlot(Account(at[q])) /\ Reserve(q, at[q])
    BY <1>2, ReserveKeeps
  <1> QED BY <1>1, <1>2 DEF MayReserve

\* execute only starts the run.
LEMMA StartSafe ==
    ASSUME ExecutorInductive, NEW q \in Requests, Start(q)
    PROVE  ExecutorInductive'
  <1>1. Known(q)
    BY PartsOf
  <1>2. ExecutorTypeOK'
    BY <1>1
       DEF Start, Goto, chainVars, clientVars, accountVars, leaseVars, Known,
           ExecutorTypeOK, PlaceOK, Working, Outcomes, Refusals, Chain, Gateway
  <1>3. OnlyRun(q) /\ (faults' = 0 => faults = 0)
    BY <1>1
       DEF Start, Goto, chainVars, clientVars, accountVars, leaseVars, Known,
           ExecutorTypeOK, OnlyRun
  <1>4. SlotsWithinLimit'
    BY <1>1, SlotsShrink DEF Start, leaseVars, Known, ExecutorTypeOK
  <1>5. PlaceOK(q)' /\ PastOK(q)'
    BY <1>1
       DEF Start, Goto, chainVars, clientVars, accountVars, leaseVars, Known,
           ExecutorTypeOK, PlaceOK, PastOK, Sent, PerhapsExecuted, Working, Before,
           Chain, Gateway
  <1>6. ContentOK(q)' /\ CompletionOK(q)'
    BY <1>1
       DEF Start, Goto, chainVars, clientVars, accountVars, leaseVars, Known,
           ExecutorTypeOK, PlaceOK, ContentOK, CompletionOK, Working
  <1>7. ErrorOK(q)'
    BY <1>1
       DEF Start, Goto, chainVars, clientVars, accountVars, leaseVars, Known,
           ExecutorTypeOK, PlaceOK, ErrorOK, LastSent, Sent, Working, Before, Chain,
           Gateway
  <1>8. AccountOK(q)'
    BY <1>1
       DEF Start, Goto, chainVars, clientVars, accountVars, leaseVars, Known,
           ExecutorTypeOK, PlaceOK, AccountOK, Sent, Working, Chain, Gateway
  <1> QED BY <1>2, <1>3, <1>4, <1>5, <1>6, <1>7, <1>8, OneRun DEF RunOK

\* The head of the loop.
LEMMA PickTargetSafe ==
    ASSUME ExecutorInductive, NEW q \in Requests, PickTarget(q)
    PROVE  ExecutorInductive'
  <1>1. Known(q)
    BY PartsOf
  <1>2. ExecutorTypeOK'
    <2>1. pending' \in [Requests -> SUBSET OpenAi]
      BY <1>1 DEF PickTarget, Known, ExecutorTypeOK
    <2>2. CASE gone[q]
      BY <1>1, <2>1, <2>2
         DEF PickTarget, Goto, Fails, accountVars, leaseVars, Known, ExecutorTypeOK
    <2>3. CASE ~gone[q]
      BY <1>1, <2>1, <2>3 DEF PickTarget, Goto, accountVars, leaseVars, Known, ExecutorTypeOK
    <2> QED BY <2>2, <2>3
  <1>3. OnlyRun(q) /\ (faults' = 0 => faults = 0)
    BY <1>1
       DEF PickTarget, Goto, Fails, chainVars, clientVars, accountVars, leaseVars,
           Known, ExecutorTypeOK, OnlyRun
  <1>4. SlotsWithinLimit'
    BY <1>1, SlotsShrink DEF PickTarget, leaseVars, Known, ExecutorTypeOK
  <1>5. PlaceOK(q)' /\ PastOK(q)'
    BY <1>1
       DEF PickTarget, Goto, Fails, chainVars, clientVars, accountVars, leaseVars,
           Known, ExecutorTypeOK, PlaceOK, PastOK, Sent, PerhapsExecuted, Working,
           Before, Chain, Gateway
  <1>6. ContentOK(q)' /\ CompletionOK(q)'
    BY <1>1
       DEF PickTarget, Goto, Fails, chainVars, clientVars, accountVars, leaseVars,
           Known, ExecutorTypeOK, PlaceOK, ContentOK, CompletionOK, Working
  <1>7. ErrorOK(q)'
    BY <1>1
       DEF PickTarget, Goto, Fails, chainVars, clientVars, accountVars, leaseVars,
           Known, ExecutorTypeOK, PlaceOK, ErrorOK, LastSent, Sent, Working, Before,
           Chain, Gateway
  <1>8. AccountOK(q)'
    BY <1>1
       DEF PickTarget, Goto, Fails, chainVars, clientVars, accountVars, leaseVars,
           Known, ExecutorTypeOK, PlaceOK, AccountOK, Sent, Working, Chain, Gateway
  <1> QED BY <1>2, <1>3, <1>4, <1>5, <1>6, <1>7, <1>8, OneRun DEF RunOK

\* The authority is checked.
LEMMA AuthorizeSafe ==
    ASSUME ExecutorInductive, NEW q \in Requests, Authorize(q)
    PROVE  ExecutorInductive'
  <1>1. Known(q)
    BY PartsOf
  <1>2. ExecutorTypeOK'
    <2>1. CASE allowed[q]
      BY <1>1, <2>1
         DEF Authorize, Goto, chainVars, clientVars, accountVars, leaseVars, Known,
             ExecutorTypeOK
    <2>2. CASE ~allowed[q]
      <3>1. response' = [response EXCEPT ![q] = Gateway] /\ Gateway \in 0..Gateway
        BY <1>1, <2>2 DEF Authorize, Known, Gateway
      <3>2. response' \in [Requests -> 0..Gateway]
        BY <1>1, <3>1 DEF Known, ExecutorTypeOK
      <3> QED BY <1>1, <2>2, <3>2
         DEF Authorize, Goto, Fails, chainVars, accountVars, leaseVars, Known,
             ExecutorTypeOK
    <2> QED BY <2>1, <2>2
  <1>3. OnlyRun(q) /\ (faults' = 0 => faults = 0)
    BY <1>1
       DEF Authorize, Goto, Fails, chainVars, clientVars, accountVars, leaseVars,
           Known, ExecutorTypeOK, OnlyRun
  <1>4. SlotsWithinLimit'
    BY <1>1, SlotsShrink DEF Authorize, leaseVars, Known, ExecutorTypeOK
  <1>5. PlaceOK(q)' /\ PastOK(q)'
    BY <1>1
       DEF Authorize, Goto, Fails, chainVars, clientVars, accountVars, leaseVars,
           Known, ExecutorTypeOK, PlaceOK, PastOK, Sent, PerhapsExecuted, Working,
           Before, Chain, Gateway
  <1>6. ContentOK(q)' /\ CompletionOK(q)'
    BY <1>1
       DEF Authorize, Goto, Fails, chainVars, clientVars, accountVars, leaseVars,
           Known, ExecutorTypeOK, PlaceOK, ContentOK, CompletionOK, Working
  <1>7. ErrorOK(q)'
    BY <1>1
       DEF Authorize, Goto, Fails, chainVars, clientVars, accountVars, leaseVars,
           Known, ExecutorTypeOK, PlaceOK, ErrorOK, LastSent, Sent, Working, Before,
           Chain, Gateway
  <1>8. AccountOK(q)'
    BY <1>1
       DEF Authorize, Goto, Fails, chainVars, clientVars, accountVars, leaseVars,
           Known, ExecutorTypeOK, PlaceOK, AccountOK, Sent, Working, Chain, Gateway
  <1> QED BY <1>2, <1>3, <1>4, <1>5, <1>6, <1>7, <1>8, OneRun DEF RunOK

\* The snapshot is taken.
LEMMA TakeSnapshotSafe ==
    ASSUME ExecutorInductive, NEW q \in Requests, TakeSnapshot(q)
    PROVE  ExecutorInductive'
  <1>1. Known(q)
    BY PartsOf
  <1>2. ExecutorTypeOK'
    BY <1>1
       DEF TakeSnapshot, Goto, chainVars, clientVars, accountVars, leaseVars, Known,
           ExecutorTypeOK, PlaceOK, Working, Outcomes, Refusals, Chain, Gateway
  <1>3. OnlyRun(q) /\ (faults' = 0 => faults = 0)
    BY <1>1
       DEF TakeSnapshot, Goto, chainVars, clientVars, accountVars, leaseVars, Known,
           ExecutorTypeOK, OnlyRun
  <1>4. SlotsWithinLimit'
    BY <1>1, SlotsShrink DEF TakeSnapshot, leaseVars, Known, ExecutorTypeOK
  <1>5. PlaceOK(q)' /\ PastOK(q)'
    BY <1>1
       DEF TakeSnapshot, Goto, chainVars, clientVars, accountVars, leaseVars, Known,
           ExecutorTypeOK, PlaceOK, PastOK, Sent, PerhapsExecuted, Working, Before,
           Chain, Gateway
  <1>6. ContentOK(q)' /\ CompletionOK(q)'
    BY <1>1
       DEF TakeSnapshot, Goto, chainVars, clientVars, accountVars, leaseVars, Known,
           ExecutorTypeOK, PlaceOK, ContentOK, CompletionOK, Working
  <1>7. ErrorOK(q)'
    BY <1>1
       DEF TakeSnapshot, Goto, chainVars, clientVars, accountVars, leaseVars, Known,
           ExecutorTypeOK, PlaceOK, ErrorOK, LastSent, Sent, Working, Before, Chain,
           Gateway
  <1>8. AccountOK(q)'
    BY <1>1
       DEF TakeSnapshot, Goto, chainVars, clientVars, accountVars, leaseVars, Known,
           ExecutorTypeOK, PlaceOK, AccountOK, Sent, Working, Chain, Gateway
  <1> QED BY <1>2, <1>3, <1>4, <1>5, <1>6, <1>7, <1>8, OneRun DEF RunOK

\* It fails, and the chain with it.
LEMMA SnapshotFailsSafe ==
    ASSUME ExecutorInductive, NEW q \in Requests, SnapshotFails(q)
    PROVE  ExecutorInductive'
  <1>1. Known(q)
    BY PartsOf
  <1>2. ExecutorTypeOK'
    <2>1. at[q] \in Chain
      BY <1>1 DEF SnapshotFails, Known, ExecutorTypeOK, PlaceOK, Working
    <2>2. /\ slot' \in [Requests -> [Chain -> {"none", "held", "free"}]]
          /\ tokens' \in [Requests -> [Chain -> {"none", "reserved", "charged", "expired"}]]
      <3>1. CASE UNCHANGED leaseVars
        BY <1>1, <3>1 DEF leaseVars, Known, ExecutorTypeOK
      <3>2. CASE /\ tokens' = [tokens EXCEPT ![q][at[q]] = "charged"]
                 /\ slot' = [slot EXCEPT ![q][at[q]] = "free"]
        BY <1>1, <2>1, <3>2, UpdateAttempt DEF Known, ExecutorTypeOK
      <3> QED BY <3>1, <3>2 DEF SnapshotFails
    <2> QED BY <1>1, <2>2
       DEF SnapshotFails, Goto, Fails, Fault, chainVars, clientVars, accountVars, Known,
           ExecutorTypeOK
  <1>3. OnlyRun(q) /\ (faults' = 0 => faults = 0)
    BY <1>1
       DEF SnapshotFails, Goto, Fails, Fault, chainVars, clientVars, accountVars,
           leaseVars, Known, ExecutorTypeOK, OnlyRun
  <1>4. SlotsWithinLimit'
    <2>1. CASE UNCHANGED leaseVars
      BY <1>1, <2>1, SlotsShrink DEF leaseVars, Known
    <2>2. CASE slot' = [slot EXCEPT ![q][at[q]] = "free"]
      BY <1>1, <2>2, SlotsShrink DEF Known, ExecutorTypeOK
    <2> QED BY <2>1, <2>2 DEF SnapshotFails
  <1>5. PlaceOK(q)' /\ PastOK(q)'
    BY <1>1
       DEF SnapshotFails, Goto, Fails, Fault, chainVars, clientVars, accountVars,
           leaseVars, Known, ExecutorTypeOK, PlaceOK, PastOK, Sent, PerhapsExecuted,
           Working, Before, Chain, Gateway
  <1>6. ContentOK(q)' /\ CompletionOK(q)'
    BY <1>1
       DEF SnapshotFails, Goto, Fails, Fault, chainVars, clientVars, accountVars,
           leaseVars, Known, ExecutorTypeOK, PlaceOK, ContentOK, CompletionOK, Working
  <1>7. ErrorOK(q)'
    BY <1>1
       DEF SnapshotFails, Goto, Fails, Fault, chainVars, clientVars, accountVars,
           leaseVars, Known, ExecutorTypeOK, PlaceOK, ErrorOK, LastSent, Sent, Working,
           Before, Chain, Gateway
  <1>8. AccountOK(q)'
    BY <1>1
       DEF SnapshotFails, Goto, Fails, Fault, chainVars, clientVars, accountVars,
           leaseVars, Known, ExecutorTypeOK, PlaceOK, AccountOK, Sent, Working, Chain,
           Gateway
  <1> QED BY <1>2, <1>3, <1>4, <1>5, <1>6, <1>7, <1>8, OneRun DEF RunOK

\* What is left of earlier attempts is forgotten, and this one is the last sent.
LEMMA DispatchSafe ==
    ASSUME ExecutorInductive, NEW q \in Requests, Dispatch(q)
    PROVE  ExecutorInductive'
  <1>1. Known(q)
    BY PartsOf
  <1>2. ExecutorTypeOK'
    <2>1. at[q] \in Chain
      BY <1>1 DEF Dispatch, Known, ExecutorTypeOK, PlaceOK, Working
    <2>2. response' \in [Requests -> 0..Gateway] /\ deferred' \in [Requests -> 0..Len(Targets)]
      BY <1>1 DEF Dispatch, Known, ExecutorTypeOK, Gateway
    <2>3. CASE allowed[q] /\ ~gone[q]
      <3>1. outcome' = [outcome EXCEPT ![q][at[q]] = "sent"] /\ "sent" \in Outcomes
        BY <2>3 DEF Dispatch, Outcomes
      <3>2. outcome' \in [Requests -> [Chain -> Outcomes]]
        BY <1>1, <2>1, <3>1, UpdateAttempt DEF Known, ExecutorTypeOK
      <3>3. /\ pc' = [pc EXCEPT ![q] = "await"] /\ result' = result
            /\ UNCHANGED <<sent, completed, faults, at, pending, unsupported, full, gone,
                           allowed, final, content, native, accountVars, leaseVars>>
        BY <2>3 DEF Dispatch, Goto
      <3> QED BY <1>1, <2>2, <3>2, <3>3 DEF accountVars, leaseVars, Known, ExecutorTypeOK
    <2>4. CASE ~(allowed[q] /\ ~gone[q])
      <3>1. result' \in [Requests -> (Outcomes \ {"sent", "late"}) \cup {"denied"}]
        BY <1>1, <2>4 DEF Dispatch, Yields, Known, ExecutorTypeOK, Outcomes
      <3>2. /\ pc' = [pc EXCEPT ![q] = "settle"] /\ outcome' = outcome
            /\ UNCHANGED <<sent, completed, faults, at, pending, unsupported, full, gone,
                           allowed, final, content, native, accountVars, leaseVars>>
        BY <2>4 DEF Dispatch, Yields, Goto
      <3> QED BY <1>1, <2>2, <3>1, <3>2 DEF accountVars, leaseVars, Known, ExecutorTypeOK
    <2> QED BY <2>3, <2>4
  <1>3. OnlyRun(q) /\ (faults' = 0 => faults = 0)
    BY <1>1
       DEF Dispatch, Goto, Yields, chainVars, clientVars, accountVars, leaseVars,
           Known, ExecutorTypeOK, OnlyRun
  <1>4. SlotsWithinLimit'
    BY <1>1, SlotsShrink DEF Dispatch, leaseVars, Known, ExecutorTypeOK
  <1>5. PlaceOK(q)' /\ PastOK(q)'
    <2>1. at[q] \in Chain /\ Sent(q) \subseteq Chain /\ \A j \in Sent(q) : j < at[q]
      BY <1>1 DEF Dispatch, Known, PlaceOK, Working, Before, Sent, Chain, ExecutorTypeOK, Gateway
    <2>2. at' = at /\ gone' = gone
      BY DEF Dispatch
    <2>3. CASE allowed[q] /\ ~gone[q]
      <3>1. /\ pc'[q] = "await"
            /\ outcome'[q] = [outcome[q] EXCEPT ![at[q]] = "sent"]
            /\ outcome[q] \in [Chain -> Outcomes]
        BY <1>1, <2>3 DEF Dispatch, Goto, Known, ExecutorTypeOK
      <3>2. PlaceOK(q)'
        BY <1>1, <2>1, <2>2, <3>1
           DEF Known, ExecutorTypeOK, PlaceOK, Working, Before, Chain, Gateway
      <3>3. Sent(q)' = Sent(q) \cup {at[q]} /\ ~PerhapsExecuted(q, "sent")
        BY <2>1, <3>1 DEF Sent, PerhapsExecuted
      <3>4. \A i \in Sent(q) : outcome'[q][i] = outcome[q][i]
        BY <2>1, <3>1 DEF Sent, Chain
      <3>5. PastOK(q)'
        BY <1>1, <2>1, <2>2, <3>1, <3>3, <3>4, ChainLength DEF Known, PastOK, Chain
      <3> QED BY <3>2, <3>5
    <2>4. CASE ~(allowed[q] /\ ~gone[q])
      BY <1>1, <2>1, <2>2, <2>4
         DEF Dispatch, Yields, Goto, Known, ExecutorTypeOK, PlaceOK, PastOK, Sent, Working,
             Before, Chain, Gateway
    <2> QED BY <2>3, <2>4
  <1>6. ContentOK(q)' /\ CompletionOK(q)'
    BY <1>1
       DEF Dispatch, Goto, Yields, chainVars, clientVars, accountVars, leaseVars,
           Known, ExecutorTypeOK, PlaceOK, ContentOK, CompletionOK, Working
  <1>7. ErrorOK(q)'
    BY <1>1
       DEF Dispatch, Goto, Yields, chainVars, clientVars, accountVars, leaseVars,
           Known, ExecutorTypeOK, PlaceOK, ErrorOK, LastSent, Sent, Working, Before,
           Chain, Gateway
  <1>8. AccountOK(q)'
    BY <1>1
       DEF Dispatch, Goto, Yields, chainVars, clientVars, accountVars, leaseVars,
           Known, ExecutorTypeOK, PlaceOK, AccountOK, Sent, Working, Chain, Gateway
  <1> QED BY <1>2, <1>3, <1>4, <1>5, <1>6, <1>7, <1>8, OneRun DEF RunOK

\* The upstream refuses the attempt.
LEMMA RefusedWithSafe ==
    ASSUME ExecutorInductive, NEW q \in Requests, NEW e \in Refusals, RefusedWith(q, e)
    PROVE  ExecutorInductive'
  <1>1. Known(q)
    BY PartsOf
  <1>2. ExecutorTypeOK'
    <2>1. at[q] \in Chain /\ at[q] \in 0..Gateway
      BY <1>1 DEF RefusedWith, Known, ExecutorTypeOK, PlaceOK, Working, Chain, Gateway
    <2>2. e \in Outcomes \ {"sent", "late"}
      BY DEF Outcomes, Refusals
    <2>3. outcome' \in [Requests -> [Chain -> Outcomes]]
      BY <1>1, <2>1, <2>2, UpdateAttempt DEF RefusedWith, Ends, Known, ExecutorTypeOK
    <2>4. result' \in [Requests -> (Outcomes \ {"sent", "late"}) \cup {"denied"}]
      BY <1>1, <2>2 DEF RefusedWith, Ends, Yields, Known, ExecutorTypeOK
    <2>5. response' \in [Requests -> 0..Gateway]
      BY <1>1, <2>1 DEF RefusedWith, Known, ExecutorTypeOK
    <2> QED BY <1>1, <2>3, <2>4, <2>5
       DEF RefusedWith, Goto, Yields, Ends, chainVars, accountVars, leaseVars, Known,
           ExecutorTypeOK
  <1>3. OnlyRun(q) /\ (faults' = 0 => faults = 0)
    BY <1>1
       DEF RefusedWith, Goto, Yields, Ends, Refusals, chainVars, clientVars,
           accountVars, leaseVars, Known, ExecutorTypeOK, OnlyRun
  <1>4. SlotsWithinLimit'
    BY <1>1, SlotsShrink DEF RefusedWith, leaseVars, Known, ExecutorTypeOK
  <1>5. PlaceOK(q)' /\ PastOK(q)'
    BY <1>1
       DEF RefusedWith, Goto, Yields, Ends, Refusals, chainVars, clientVars,
           accountVars, leaseVars, Known, ExecutorTypeOK, PlaceOK, PastOK, Sent,
           PerhapsExecuted, Working, Before, Chain, Gateway
  <1>6. ContentOK(q)' /\ CompletionOK(q)'
    BY <1>1
       DEF RefusedWith, Goto, Yields, Ends, Refusals, chainVars, clientVars,
           accountVars, leaseVars, Known, ExecutorTypeOK, PlaceOK, ContentOK,
           CompletionOK, Working
  <1>7. ErrorOK(q)'
    BY <1>1
       DEF RefusedWith, Goto, Yields, Ends, Refusals, chainVars, clientVars,
           accountVars, leaseVars, Known, ExecutorTypeOK, PlaceOK, ErrorOK, LastSent,
           Sent, Working, Before, Chain, Gateway
  <1>8. AccountOK(q)'
    BY <1>1
       DEF RefusedWith, Goto, Yields, Ends, Refusals, chainVars, clientVars,
           accountVars, leaseVars, Known, ExecutorTypeOK, PlaceOK, AccountOK, Sent,
           Working, Chain, Gateway
  <1> QED BY <1>2, <1>3, <1>4, <1>5, <1>6, <1>7, <1>8, OneRun DEF RunOK

\* The upstream accepts it.
LEMMA AcceptedSafe ==
    ASSUME ExecutorInductive, NEW q \in Requests, Accepted(q)
    PROVE  ExecutorInductive'
  <1>1. Known(q)
    BY PartsOf
  <1>2. ExecutorTypeOK'
    <2>1. at[q] \in Chain
      BY <1>1 DEF Accepted, Known, ExecutorTypeOK, PlaceOK, Working
    <2>2. usage' \in [Requests -> 0..Len(Targets)]
      BY <1>1, <2>1 DEF Accepted, Chain, Known, ExecutorTypeOK
    <2> QED BY <1>1, <2>1, <2>2
       DEF Accepted, Goto, chainVars, clientVars, accountVars, leaseVars, Known,
           ExecutorTypeOK, Chain, Gateway
  <1>3. OnlyRun(q) /\ (faults' = 0 => faults = 0)
    BY <1>1
       DEF Accepted, Goto, chainVars, clientVars, accountVars, leaseVars, Known,
           ExecutorTypeOK, OnlyRun
  <1>4. SlotsWithinLimit'
    BY <1>1, SlotsShrink DEF Accepted, leaseVars, Known, ExecutorTypeOK
  <1>5. PlaceOK(q)' /\ PastOK(q)'
    BY <1>1
       DEF Accepted, Goto, chainVars, clientVars, accountVars, leaseVars, Known,
           ExecutorTypeOK, PlaceOK, PastOK, Sent, PerhapsExecuted, Working, Before,
           Chain, Gateway
  <1>6. ContentOK(q)' /\ CompletionOK(q)'
    BY <1>1
       DEF Accepted, Goto, chainVars, clientVars, accountVars, leaseVars, Known,
           ExecutorTypeOK, PlaceOK, ContentOK, CompletionOK, Working
  <1>7. ErrorOK(q)'
    BY <1>1
       DEF Accepted, Goto, chainVars, clientVars, accountVars, leaseVars, Known,
           ExecutorTypeOK, PlaceOK, ErrorOK, LastSent, Sent, Working, Before, Chain,
           Gateway
  <1>8. AccountOK(q)'
    BY <1>1
       DEF Accepted, Goto, chainVars, clientVars, accountVars, leaseVars, Known,
           ExecutorTypeOK, PlaceOK, AccountOK, Sent, Working, Chain, Gateway
  <1> QED BY <1>2, <1>3, <1>4, <1>5, <1>6, <1>7, <1>8, OneRun DEF RunOK

\* The client gets content of it.
LEMMA ContentSafe ==
    ASSUME ExecutorInductive, NEW q \in Requests, Content(q)
    PROVE  ExecutorInductive'
  <1>1. Known(q)
    BY PartsOf
  <1>2. ExecutorTypeOK'
    BY <1>1
       DEF Content, chainVars, clientVars, accountVars, leaseVars, Known,
           ExecutorTypeOK, PlaceOK, Working, Outcomes, Refusals, Chain, Gateway
  <1>3. OnlyRun(q) /\ (faults' = 0 => faults = 0)
    BY <1>1
       DEF Content, chainVars, clientVars, accountVars, leaseVars, Known,
           ExecutorTypeOK, OnlyRun
  <1>4. SlotsWithinLimit'
    BY <1>1, SlotsShrink DEF Content, leaseVars, Known, ExecutorTypeOK
  <1>5. PlaceOK(q)' /\ PastOK(q)'
    BY <1>1
       DEF Content, chainVars, clientVars, accountVars, leaseVars, Known,
           ExecutorTypeOK, PlaceOK, PastOK, Sent, PerhapsExecuted, Working, Before,
           Chain, Gateway
  <1>6. ContentOK(q)' /\ CompletionOK(q)'
    BY <1>1
       DEF Content, chainVars, clientVars, accountVars, leaseVars, Known,
           ExecutorTypeOK, PlaceOK, ContentOK, CompletionOK, Working
  <1>7. ErrorOK(q)'
    BY <1>1
       DEF Content, chainVars, clientVars, accountVars, leaseVars, Known,
           ExecutorTypeOK, PlaceOK, ErrorOK, LastSent, Sent, Working, Before, Chain,
           Gateway
  <1>8. AccountOK(q)'
    BY <1>1
       DEF Content, chainVars, clientVars, accountVars, leaseVars, Known,
           ExecutorTypeOK, PlaceOK, AccountOK, Sent, Working, Chain, Gateway
  <1> QED BY <1>2, <1>3, <1>4, <1>5, <1>6, <1>7, <1>8, OneRun DEF RunOK

\* It completes.
LEMMA StreamDoneSafe ==
    ASSUME ExecutorInductive, NEW q \in Requests, StreamDone(q)
    PROVE  ExecutorInductive'
  <1>1. Known(q)
    BY PartsOf
  <1>2. ExecutorTypeOK'
    <2>1. at[q] \in Chain
      BY <1>1 DEF StreamDone, Known, ExecutorTypeOK, PlaceOK, Working
    <2>2. outcome' \in [Requests -> [Chain -> Outcomes]]
      BY <1>1, <2>1 DEF StreamDone, Ends, Known, ExecutorTypeOK, Outcomes, Refusals
    <2>3. result' \in [Requests -> (Outcomes \ {"sent", "late"}) \cup {"denied"}]
      BY <1>1, <2>1, <2>2
         DEF StreamDone, Ends, Yields, Known, ExecutorTypeOK, Outcomes, Refusals
    <2>4. executed' \in [Requests -> 0..Len(Targets)]
      BY <1>1, <2>1, <2>2, <2>3 DEF StreamDone, Chain, Known, ExecutorTypeOK
    <2> QED BY <1>1, <2>1, <2>2, <2>3, <2>4
       DEF StreamDone, Goto, Yields, Ends, chainVars, clientVars, accountVars,
           leaseVars, Known, ExecutorTypeOK, Chain, Gateway
  <1>3. OnlyRun(q) /\ (faults' = 0 => faults = 0)
    BY <1>1
       DEF StreamDone, Goto, Yields, Ends, chainVars, clientVars, accountVars,
           leaseVars, Known, ExecutorTypeOK, OnlyRun
  <1>4. SlotsWithinLimit'
    BY <1>1, SlotsShrink DEF StreamDone, leaseVars, Known, ExecutorTypeOK
  <1>5. PlaceOK(q)' /\ PastOK(q)'
    BY <1>1
       DEF StreamDone, Goto, Yields, Ends, chainVars, clientVars, accountVars,
           leaseVars, Known, ExecutorTypeOK, PlaceOK, PastOK, Sent, PerhapsExecuted,
           Working, Before, Chain, Gateway
  <1>6. ContentOK(q)' /\ CompletionOK(q)'
    BY <1>1
       DEF StreamDone, Goto, Yields, Ends, chainVars, clientVars, accountVars,
           leaseVars, Known, ExecutorTypeOK, PlaceOK, ContentOK, CompletionOK, Working
  <1>7. ErrorOK(q)'
    BY <1>1
       DEF StreamDone, Goto, Yields, Ends, chainVars, clientVars, accountVars,
           leaseVars, Known, ExecutorTypeOK, PlaceOK, ErrorOK, LastSent, Sent, Working,
           Before, Chain, Gateway
  <1>8. AccountOK(q)'
    BY <1>1
       DEF StreamDone, Goto, Yields, Ends, chainVars, clientVars, accountVars,
           leaseVars, Known, ExecutorTypeOK, PlaceOK, AccountOK, Sent, Working, Chain,
           Gateway
  <1> QED BY <1>2, <1>3, <1>4, <1>5, <1>6, <1>7, <1>8, OneRun DEF RunOK

\* Its stream fails.
LEMMA StreamFailsSafe ==
    ASSUME ExecutorInductive, NEW q \in Requests, NEW e \in {"declared", "cut", "payload"},
           StreamFails(q, e)
    PROVE  ExecutorInductive'
  <1>1. Known(q)
    BY PartsOf
  <1>2. ExecutorTypeOK'
    <2>1. at[q] \in Chain
      BY <1>1 DEF StreamFails, Known, ExecutorTypeOK, PlaceOK, Working
    <2>2. outcome' \in [Requests -> [Chain -> Outcomes]]
      BY <1>1, <2>1 DEF StreamFails, Ends, Known, ExecutorTypeOK, Outcomes, Refusals
    <2>3. result' \in [Requests -> (Outcomes \ {"sent", "late"}) \cup {"denied"}]
      BY <1>1, <2>1, <2>2
         DEF StreamFails, Ends, Yields, Known, ExecutorTypeOK, Outcomes, Refusals
    <2>4. deferred' \in [Requests -> 0..Len(Targets)]
      BY <1>1, <2>1, <2>2, <2>3 DEF StreamFails, Chain, Known, ExecutorTypeOK
    <2> QED BY <1>1, <2>1, <2>2, <2>3, <2>4
       DEF StreamFails, Goto, Yields, Ends, chainVars, clientVars, accountVars,
           leaseVars, Known, ExecutorTypeOK, Chain, Gateway
  <1>3. OnlyRun(q) /\ (faults' = 0 => faults = 0)
    BY <1>1
       DEF StreamFails, Goto, Yields, Ends, chainVars, clientVars, accountVars,
           leaseVars, Known, ExecutorTypeOK, OnlyRun
  <1>4. SlotsWithinLimit'
    BY <1>1, SlotsShrink DEF StreamFails, leaseVars, Known, ExecutorTypeOK
  <1>5. PlaceOK(q)' /\ PastOK(q)'
    BY <1>1
       DEF StreamFails, Goto, Yields, Ends, chainVars, clientVars, accountVars,
           leaseVars, Known, ExecutorTypeOK, PlaceOK, PastOK, Sent, PerhapsExecuted,
           Working, Before, Chain, Gateway
  <1>6. ContentOK(q)' /\ CompletionOK(q)'
    BY <1>1
       DEF StreamFails, Goto, Yields, Ends, chainVars, clientVars, accountVars,
           leaseVars, Known, ExecutorTypeOK, PlaceOK, ContentOK, CompletionOK, Working
  <1>7. ErrorOK(q)'
    BY <1>1
       DEF StreamFails, Goto, Yields, Ends, chainVars, clientVars, accountVars,
           leaseVars, Known, ExecutorTypeOK, PlaceOK, ErrorOK, LastSent, Sent, Working,
           Before, Chain, Gateway
  <1>8. AccountOK(q)'
    BY <1>1
       DEF StreamFails, Goto, Yields, Ends, chainVars, clientVars, accountVars,
           leaseVars, Known, ExecutorTypeOK, PlaceOK, AccountOK, Sent, Working, Chain,
           Gateway
  <1> QED BY <1>2, <1>3, <1>4, <1>5, <1>6, <1>7, <1>8, OneRun DEF RunOK

\* The client goes in the middle of it.
LEMMA DropUpstreamSafe ==
    ASSUME ExecutorInductive, NEW q \in Requests, DropUpstream(q)
    PROVE  ExecutorInductive'
  <1>1. Known(q)
    BY PartsOf
  <1>2. ExecutorTypeOK'
    BY <1>1
       DEF DropUpstream, Goto, Yields, Ends, chainVars, clientVars, accountVars,
           leaseVars, Known, ExecutorTypeOK, PlaceOK, Working, Outcomes, Refusals,
           Chain, Gateway
  <1>3. OnlyRun(q) /\ (faults' = 0 => faults = 0)
    BY <1>1
       DEF DropUpstream, Goto, Yields, Ends, chainVars, clientVars, accountVars,
           leaseVars, Known, ExecutorTypeOK, OnlyRun
  <1>4. SlotsWithinLimit'
    BY <1>1, SlotsShrink DEF DropUpstream, leaseVars, Known, ExecutorTypeOK
  <1>5. PlaceOK(q)' /\ PastOK(q)'
    BY <1>1
       DEF DropUpstream, Goto, Yields, Ends, chainVars, clientVars, accountVars,
           leaseVars, Known, ExecutorTypeOK, PlaceOK, PastOK, Sent, PerhapsExecuted,
           Working, Before, Chain, Gateway
  <1>6. ContentOK(q)' /\ CompletionOK(q)'
    BY <1>1
       DEF DropUpstream, Goto, Yields, Ends, chainVars, clientVars, accountVars,
           leaseVars, Known, ExecutorTypeOK, PlaceOK, ContentOK, CompletionOK, Working
  <1>7. ErrorOK(q)'
    BY <1>1
       DEF DropUpstream, Goto, Yields, Ends, chainVars, clientVars, accountVars,
           leaseVars, Known, ExecutorTypeOK, PlaceOK, ErrorOK, LastSent, Sent, Working,
           Before, Chain, Gateway
  <1>8. AccountOK(q)'
    BY <1>1
       DEF DropUpstream, Goto, Yields, Ends, chainVars, clientVars, accountVars,
           leaseVars, Known, ExecutorTypeOK, PlaceOK, AccountOK, Sent, Working, Chain,
           Gateway
  <1> QED BY <1>2, <1>3, <1>4, <1>5, <1>6, <1>7, <1>8, OneRun DEF RunOK

\* Its lease is lost.
LEMMA LoseLeaseSafe ==
    ASSUME ExecutorInductive, NEW q \in Requests, LoseLease(q)
    PROVE  ExecutorInductive'
  <1>1. Known(q)
    BY PartsOf
  <1>2. ExecutorTypeOK'
    <2>1. at[q] \in Chain
      BY <1>1 DEF LoseLease, Known, ExecutorTypeOK, PlaceOK, Working
    <2>2. outcome' \in [Requests -> [Chain -> Outcomes]]
      BY <1>1, <2>1 DEF LoseLease, Known, ExecutorTypeOK, Outcomes, Refusals
    <2>3. result' \in [Requests -> (Outcomes \ {"sent", "late"}) \cup {"denied"}]
      BY <1>1 DEF LoseLease, Yields, Known, ExecutorTypeOK, Outcomes, Refusals
    <2>4. faults' \in 0..MaxFaults
      BY <1>1 DEF LoseLease, Fault, Known, ExecutorTypeOK
    <2> QED BY <1>1, <2>2, <2>3, <2>4
       DEF LoseLease, Goto, Yields, chainVars, clientVars, accountVars, leaseVars, Known,
           ExecutorTypeOK
  <1>3. OnlyRun(q) /\ (faults' = 0 => faults = 0)
    BY <1>1
       DEF LoseLease, Goto, Yields, Fault, chainVars, clientVars, accountVars,
           leaseVars, Known, ExecutorTypeOK, OnlyRun
  <1>4. SlotsWithinLimit'
    BY <1>1, SlotsShrink DEF LoseLease, leaseVars, Known, ExecutorTypeOK
  <1>5. PlaceOK(q)' /\ PastOK(q)'
    BY <1>1
       DEF LoseLease, Goto, Yields, Fault, chainVars, clientVars, accountVars,
           leaseVars, Known, ExecutorTypeOK, PlaceOK, PastOK, Sent, PerhapsExecuted,
           Working, Before, Chain, Gateway
  <1>6. ContentOK(q)' /\ CompletionOK(q)'
    BY <1>1
       DEF LoseLease, Goto, Yields, Fault, chainVars, clientVars, accountVars,
           leaseVars, Known, ExecutorTypeOK, PlaceOK, ContentOK, CompletionOK, Working
  <1>7. ErrorOK(q)'
    BY <1>1
       DEF LoseLease, Goto, Yields, Fault, chainVars, clientVars, accountVars,
           leaseVars, Known, ExecutorTypeOK, PlaceOK, ErrorOK, LastSent, Sent, Working,
           Before, Chain, Gateway
  <1>8. AccountOK(q)'
    BY <1>1
       DEF LoseLease, Goto, Yields, Fault, chainVars, clientVars, accountVars,
           leaseVars, Known, ExecutorTypeOK, PlaceOK, AccountOK, Sent, Working, Chain,
           Gateway
  <1> QED BY <1>2, <1>3, <1>4, <1>5, <1>6, <1>7, <1>8, OneRun DEF RunOK

\* Its lease is finished.
LEMMA FinishLeaseSafe ==
    ASSUME ExecutorInductive, NEW q \in Requests, FinishLease(q)
    PROVE  ExecutorInductive'
  <1>1. Known(q)
    BY PartsOf
  <1>2. ExecutorTypeOK'
    BY <1>1
       DEF FinishLease, Goto, chainVars, clientVars, accountVars, leaseVars, Known,
           ExecutorTypeOK, PlaceOK, Working, Outcomes, Refusals, Chain, Gateway
  <1>3. OnlyRun(q) /\ (faults' = 0 => faults = 0)
    BY <1>1
       DEF FinishLease, Goto, chainVars, clientVars, accountVars, leaseVars, Known,
           ExecutorTypeOK, OnlyRun
  <1>4. SlotsWithinLimit'
    BY <1>1, SlotsShrink DEF FinishLease, leaseVars, Known, ExecutorTypeOK
  <1>5. PlaceOK(q)' /\ PastOK(q)'
    BY <1>1
       DEF FinishLease, Goto, chainVars, clientVars, accountVars, leaseVars, Known,
           ExecutorTypeOK, PlaceOK, PastOK, Sent, PerhapsExecuted, Working, Before,
           Chain, Gateway
  <1>6. ContentOK(q)' /\ CompletionOK(q)'
    BY <1>1
       DEF FinishLease, Goto, chainVars, clientVars, accountVars, leaseVars, Known,
           ExecutorTypeOK, PlaceOK, ContentOK, CompletionOK, Working
  <1>7. ErrorOK(q)'
    BY <1>1
       DEF FinishLease, Goto, chainVars, clientVars, accountVars, leaseVars, Known,
           ExecutorTypeOK, PlaceOK, ErrorOK, LastSent, Sent, Working, Before, Chain,
           Gateway
  <1>8. AccountOK(q)'
    BY <1>1
       DEF FinishLease, Goto, chainVars, clientVars, accountVars, leaseVars, Known,
           ExecutorTypeOK, PlaceOK, AccountOK, Sent, Working, Chain, Gateway
  <1> QED BY <1>2, <1>3, <1>4, <1>5, <1>6, <1>7, <1>8, OneRun DEF RunOK

\* Or could not be.
LEMMA FinishFailsSafe ==
    ASSUME ExecutorInductive, NEW q \in Requests, FinishFails(q)
    PROVE  ExecutorInductive'
  <1>1. Known(q)
    BY PartsOf
  <1>2. ExecutorTypeOK'
    <2>1. at[q] \in Chain
      BY <1>1 DEF FinishFails, Known, ExecutorTypeOK, PlaceOK, Working
    <2>2. tokens' \in [Requests -> [Chain -> {"none", "reserved", "charged", "expired"}]]
      <3>1. CASE UNCHANGED tokens
        BY <1>1, <3>1 DEF Known, ExecutorTypeOK
      <3>2. CASE tokens' = [tokens EXCEPT ![q][at[q]] = "charged"]
        BY <1>1, <2>1, <3>2, UpdateAttempt DEF Known, ExecutorTypeOK
      <3> QED BY <3>1, <3>2 DEF FinishFails
    <2> QED BY <1>1, <2>2
       DEF FinishFails, Goto, Fault, chainVars, clientVars, accountVars, Known,
           ExecutorTypeOK
  <1>3. OnlyRun(q) /\ (faults' = 0 => faults = 0)
    BY <1>1
       DEF FinishFails, Goto, Fault, chainVars, clientVars, accountVars, leaseVars,
           Known, ExecutorTypeOK, OnlyRun
  <1>4. SlotsWithinLimit'
    BY <1>1, SlotsShrink DEF FinishFails, leaseVars, Known, ExecutorTypeOK
  <1>5. PlaceOK(q)' /\ PastOK(q)'
    BY <1>1
       DEF FinishFails, Goto, Fault, chainVars, clientVars, accountVars, leaseVars,
           Known, ExecutorTypeOK, PlaceOK, PastOK, Sent, PerhapsExecuted, Working,
           Before, Chain, Gateway
  <1>6. ContentOK(q)' /\ CompletionOK(q)'
    BY <1>1
       DEF FinishFails, Goto, Fault, chainVars, clientVars, accountVars, leaseVars,
           Known, ExecutorTypeOK, PlaceOK, ContentOK, CompletionOK, Working
  <1>7. ErrorOK(q)'
    BY <1>1
       DEF FinishFails, Goto, Fault, chainVars, clientVars, accountVars, leaseVars,
           Known, ExecutorTypeOK, PlaceOK, ErrorOK, LastSent, Sent, Working, Before,
           Chain, Gateway
  <1>8. AccountOK(q)'
    BY <1>1
       DEF FinishFails, Goto, Fault, chainVars, clientVars, accountVars, leaseVars,
           Known, ExecutorTypeOK, PlaceOK, AccountOK, Sent, Working, Chain, Gateway
  <1> QED BY <1>2, <1>3, <1>4, <1>5, <1>6, <1>7, <1>8, OneRun DEF RunOK

\* A success is recorded.
LEMMA ReportSuccessSafe ==
    ASSUME ExecutorInductive, NEW q \in Requests, ReportSuccess(q)
    PROVE  ExecutorInductive'
  <1>1. Known(q)
    BY PartsOf
  <1>2. ExecutorTypeOK'
    BY <1>1
       DEF ReportSuccess, Goto, chainVars, clientVars, accountVars, leaseVars,
           Known, ExecutorTypeOK, PlaceOK, Working, Outcomes, Refusals, Chain, Gateway
  <1>3. OnlyRun(q) /\ (faults' = 0 => faults = 0)
    BY <1>1
       DEF ReportSuccess, Goto, chainVars, clientVars, accountVars, leaseVars,
           Known, ExecutorTypeOK, OnlyRun
  <1>4. SlotsWithinLimit'
    BY <1>1, SlotsShrink DEF ReportSuccess, leaseVars, Known, ExecutorTypeOK
  <1>5. PlaceOK(q)' /\ PastOK(q)'
    BY <1>1
       DEF ReportSuccess, Goto, chainVars, clientVars, accountVars, leaseVars,
           Known, ExecutorTypeOK, PlaceOK, PastOK, Sent, PerhapsExecuted, Working,
           Before, Chain, Gateway
  <1>6. ContentOK(q)' /\ CompletionOK(q)'
    BY <1>1
       DEF ReportSuccess, Goto, chainVars, clientVars, accountVars, leaseVars,
           Known, ExecutorTypeOK, PlaceOK, ContentOK, CompletionOK, Working
  <1>7. ErrorOK(q)'
    BY <1>1
       DEF ReportSuccess, Goto, chainVars, clientVars, accountVars, leaseVars,
           Known, ExecutorTypeOK, PlaceOK, ErrorOK, LastSent, Sent, Working, Before,
           Chain, Gateway
  <1>8. AccountOK(q)'
    BY <1>1
       DEF ReportSuccess, Goto, chainVars, clientVars, accountVars, leaseVars,
           Known, ExecutorTypeOK, PlaceOK, AccountOK, Sent, Working, Chain, Gateway
  <1> QED BY <1>2, <1>3, <1>4, <1>5, <1>6, <1>7, <1>8, OneRun DEF RunOK

\* And sent to the client.
LEMMA SendDoneSafe ==
    ASSUME ExecutorInductive, NEW q \in Requests, SendDone(q)
    PROVE  ExecutorInductive'
  <1>1. Known(q)
    BY PartsOf
  <1>2. ExecutorTypeOK'
    BY <1>1
       DEF SendDone, Goto, chainVars, clientVars, accountVars, leaseVars, Known,
           ExecutorTypeOK, PlaceOK, Working, Outcomes, Refusals, Chain, Gateway
  <1>3. OnlyRun(q) /\ (faults' = 0 => faults = 0)
    BY <1>1
       DEF SendDone, Goto, chainVars, clientVars, accountVars, leaseVars, Known,
           ExecutorTypeOK, OnlyRun
  <1>4. SlotsWithinLimit'
    BY <1>1, SlotsShrink DEF SendDone, leaseVars, Known, ExecutorTypeOK
  <1>5. PlaceOK(q)' /\ PastOK(q)'
    BY <1>1
       DEF SendDone, Goto, chainVars, clientVars, accountVars, leaseVars, Known,
           ExecutorTypeOK, PlaceOK, PastOK, Sent, PerhapsExecuted, Working, Before,
           Chain, Gateway
  <1>6. ContentOK(q)' /\ CompletionOK(q)'
    BY <1>1
       DEF SendDone, Goto, chainVars, clientVars, accountVars, leaseVars, Known,
           ExecutorTypeOK, PlaceOK, ContentOK, CompletionOK, Working
  <1>7. ErrorOK(q)'
    BY <1>1
       DEF SendDone, Goto, chainVars, clientVars, accountVars, leaseVars, Known,
           ExecutorTypeOK, PlaceOK, ErrorOK, LastSent, Sent, Working, Before, Chain,
           Gateway
  <1>8. AccountOK(q)'
    BY <1>1
       DEF SendDone, Goto, chainVars, clientVars, accountVars, leaseVars, Known,
           ExecutorTypeOK, PlaceOK, AccountOK, Sent, Working, Chain, Gateway
  <1> QED BY <1>2, <1>3, <1>4, <1>5, <1>6, <1>7, <1>8, OneRun DEF RunOK

\* A failure of the gateway's own ends the run.
LEMMA ReportLocalSafe ==
    ASSUME ExecutorInductive, NEW q \in Requests, ReportLocal(q)
    PROVE  ExecutorInductive'
  <1>1. Known(q)
    BY PartsOf
  <1>2. ExecutorTypeOK'
    BY <1>1
       DEF ReportLocal, Goto, Fails, chainVars, clientVars, accountVars, leaseVars,
           Known, ExecutorTypeOK, PlaceOK, Working, Outcomes, Refusals, Chain, Gateway
  <1>3. OnlyRun(q) /\ (faults' = 0 => faults = 0)
    BY <1>1
       DEF ReportLocal, Goto, Fails, chainVars, clientVars, accountVars, leaseVars,
           Known, ExecutorTypeOK, OnlyRun
  <1>4. SlotsWithinLimit'
    BY <1>1, SlotsShrink DEF ReportLocal, leaseVars, Known, ExecutorTypeOK
  <1>5. PlaceOK(q)' /\ PastOK(q)'
    BY <1>1
       DEF ReportLocal, Goto, Fails, chainVars, clientVars, accountVars, leaseVars,
           Known, ExecutorTypeOK, PlaceOK, PastOK, Sent, PerhapsExecuted, Working,
           Before, Chain, Gateway
  <1>6. ContentOK(q)' /\ CompletionOK(q)'
    BY <1>1
       DEF ReportLocal, Goto, Fails, chainVars, clientVars, accountVars, leaseVars,
           Known, ExecutorTypeOK, PlaceOK, ContentOK, CompletionOK, Working
  <1>7. ErrorOK(q)'
    BY <1>1
       DEF ReportLocal, Goto, Fails, chainVars, clientVars, accountVars, leaseVars,
           Known, ExecutorTypeOK, PlaceOK, ErrorOK, LastSent, Sent, Working, Before,
           Chain, Gateway
  <1>8. AccountOK(q)'
    BY <1>1
       DEF ReportLocal, Goto, Fails, chainVars, clientVars, accountVars, leaseVars,
           Known, ExecutorTypeOK, PlaceOK, AccountOK, Sent, Working, Chain, Gateway
  <1> QED BY <1>2, <1>3, <1>4, <1>5, <1>6, <1>7, <1>8, OneRun DEF RunOK

\* So does one that nobody waits for.
LEMMA ReportGoneSafe ==
    ASSUME ExecutorInductive, NEW q \in Requests, ReportGone(q)
    PROVE  ExecutorInductive'
  <1>1. Known(q)
    BY PartsOf
  <1>2. ExecutorTypeOK'
    BY <1>1
       DEF ReportGone, Goto, Fails, Upstream, chainVars, clientVars, accountVars,
           leaseVars, Known, ExecutorTypeOK, PlaceOK, Working, Outcomes, Refusals,
           Chain, Gateway
  <1>3. OnlyRun(q) /\ (faults' = 0 => faults = 0)
    BY <1>1
       DEF ReportGone, Goto, Fails, Upstream, chainVars, clientVars, accountVars,
           leaseVars, Known, ExecutorTypeOK, OnlyRun
  <1>4. SlotsWithinLimit'
    BY <1>1, SlotsShrink DEF ReportGone, leaseVars, Known, ExecutorTypeOK
  <1>5. PlaceOK(q)' /\ PastOK(q)'
    BY <1>1
       DEF ReportGone, Goto, Fails, Upstream, chainVars, clientVars, accountVars,
           leaseVars, Known, ExecutorTypeOK, PlaceOK, PastOK, Sent, PerhapsExecuted,
           Working, Before, Chain, Gateway
  <1>6. ContentOK(q)' /\ CompletionOK(q)'
    BY <1>1
       DEF ReportGone, Goto, Fails, Upstream, chainVars, clientVars, accountVars,
           leaseVars, Known, ExecutorTypeOK, PlaceOK, ContentOK, CompletionOK, Working
  <1>7. ErrorOK(q)'
    BY <1>1
       DEF ReportGone, Goto, Fails, Upstream, chainVars, clientVars, accountVars,
           leaseVars, Known, ExecutorTypeOK, PlaceOK, ErrorOK, LastSent, Sent, Working,
           Before, Chain, Gateway
  <1>8. AccountOK(q)'
    BY <1>1
       DEF ReportGone, Goto, Fails, Upstream, chainVars, clientVars, accountVars,
           leaseVars, Known, ExecutorTypeOK, PlaceOK, AccountOK, Sent, Working, Chain,
           Gateway
  <1> QED BY <1>2, <1>3, <1>4, <1>5, <1>6, <1>7, <1>8, OneRun DEF RunOK

\* And one after content, which is the account's fault.
LEMMA ReportBrokenSafe ==
    ASSUME ExecutorInductive, NEW q \in Requests, ReportBroken(q)
    PROVE  ExecutorInductive'
  <1>1. Known(q)
    BY PartsOf
  <1>2. ExecutorTypeOK'
    BY <1>1
       DEF ReportBroken, Goto, Fails, Upstream, Blames, chainVars, clientVars,
           accountVars, leaseVars, Known, ExecutorTypeOK, PlaceOK, Working, Outcomes,
           Refusals, Chain, Gateway
  <1>3. OnlyRun(q) /\ (faults' = 0 => faults = 0)
    BY <1>1
       DEF ReportBroken, Goto, Fails, Upstream, Blames, chainVars, clientVars,
           accountVars, leaseVars, Known, ExecutorTypeOK, OnlyRun
  <1>4. SlotsWithinLimit'
    BY <1>1, SlotsShrink DEF ReportBroken, leaseVars, Known, ExecutorTypeOK
  <1>5. PlaceOK(q)' /\ PastOK(q)'
    BY <1>1
       DEF ReportBroken, Goto, Fails, Upstream, Blames, chainVars, clientVars,
           accountVars, leaseVars, Known, ExecutorTypeOK, PlaceOK, PastOK, Sent,
           PerhapsExecuted, Working, Before, Chain, Gateway
  <1>6. ContentOK(q)' /\ CompletionOK(q)'
    BY <1>1
       DEF ReportBroken, Goto, Fails, Upstream, Blames, chainVars, clientVars,
           accountVars, leaseVars, Known, ExecutorTypeOK, PlaceOK, ContentOK,
           CompletionOK, Working
  <1>7. ErrorOK(q)'
    BY <1>1
       DEF ReportBroken, Goto, Fails, Upstream, Blames, chainVars, clientVars,
           accountVars, leaseVars, Known, ExecutorTypeOK, PlaceOK, ErrorOK, LastSent,
           Sent, Working, Before, Chain, Gateway
  <1>8. AccountOK(q)'
    BY <1>1
       DEF ReportBroken, Goto, Fails, Upstream, Blames, chainVars, clientVars,
           accountVars, leaseVars, Known, ExecutorTypeOK, PlaceOK, AccountOK, Sent,
           Working, Chain, Gateway
  <1> QED BY <1>2, <1>3, <1>4, <1>5, <1>6, <1>7, <1>8, OneRun DEF RunOK

\* The chain is exhausted.
LEMMA AllFailedSafe ==
    ASSUME ExecutorInductive, NEW q \in Requests, AllFailed(q)
    PROVE  ExecutorInductive'
  <1>1. Known(q)
    BY PartsOf
  <1>2. ExecutorTypeOK'
    <2>1. native' \in [Requests -> 0..Len(Targets)]
      BY <1>1 DEF AllFailed, Known, ExecutorTypeOK
    <2>2. Gateway \in 0..Gateway
      BY <1>1 DEF Known, Gateway
    <2>3. response' \in [Requests -> 0..Gateway]
      BY <1>1, <2>2 DEF AllFailed, Known, ExecutorTypeOK
    <2> QED BY <1>1, <2>1, <2>3
       DEF AllFailed, Goto, Fails, chainVars, accountVars, leaseVars, Known, ExecutorTypeOK
  <1>3. OnlyRun(q) /\ (faults' = 0 => faults = 0)
    BY <1>1
       DEF AllFailed, Goto, Fails, chainVars, clientVars, accountVars, leaseVars,
           Known, ExecutorTypeOK, OnlyRun
  <1>4. SlotsWithinLimit'
    BY <1>1, SlotsShrink DEF AllFailed, leaseVars, Known, ExecutorTypeOK
  <1>5. PlaceOK(q)' /\ PastOK(q)'
    BY <1>1
       DEF AllFailed, Goto, Fails, chainVars, clientVars, accountVars, leaseVars,
           Known, ExecutorTypeOK, PlaceOK, PastOK, Sent, PerhapsExecuted, Working,
           Before, Chain, Gateway
  <1>6. ContentOK(q)' /\ CompletionOK(q)'
    BY <1>1
       DEF AllFailed, Goto, Fails, chainVars, clientVars, accountVars, leaseVars,
           Known, ExecutorTypeOK, PlaceOK, ContentOK, CompletionOK, Working
  <1>7. ErrorOK(q)'
    BY <1>1
       DEF AllFailed, Goto, Fails, chainVars, clientVars, accountVars, leaseVars,
           Known, ExecutorTypeOK, PlaceOK, ErrorOK, LastSent, Sent, Working, Before,
           Chain, Gateway
  <1>8. AccountOK(q)'
    BY <1>1
       DEF AllFailed, Goto, Fails, chainVars, clientVars, accountVars, leaseVars,
           Known, ExecutorTypeOK, PlaceOK, AccountOK, Sent, Working, Chain, Gateway
  <1> QED BY <1>2, <1>3, <1>4, <1>5, <1>6, <1>7, <1>8, OneRun DEF RunOK

\* The client goes.
LEMMA ClientGoesSafe ==
    ASSUME ExecutorInductive, NEW q \in Requests, ClientGoes(q)
    PROVE  ExecutorInductive'
  <1>1. Known(q)
    BY PartsOf
  <1>2. ExecutorTypeOK'
    BY <1>1
       DEF ClientGoes, chainVars, clientVars, accountVars, leaseVars, Known,
           ExecutorTypeOK, PlaceOK, Working, Outcomes, Refusals, Chain, Gateway
  <1>3. OnlyRun(q) /\ (faults' = 0 => faults = 0)
    BY <1>1
       DEF ClientGoes, chainVars, clientVars, accountVars, leaseVars, Known,
           ExecutorTypeOK, OnlyRun
  <1>4. SlotsWithinLimit'
    BY <1>1, SlotsShrink DEF ClientGoes, leaseVars, Known, ExecutorTypeOK
  <1>5. PlaceOK(q)' /\ PastOK(q)'
    BY <1>1
       DEF ClientGoes, chainVars, clientVars, accountVars, leaseVars, Known,
           ExecutorTypeOK, PlaceOK, PastOK, Sent, PerhapsExecuted, Working, Before,
           Chain, Gateway
  <1>6. ContentOK(q)' /\ CompletionOK(q)'
    BY <1>1
       DEF ClientGoes, chainVars, clientVars, accountVars, leaseVars, Known,
           ExecutorTypeOK, PlaceOK, ContentOK, CompletionOK, Working
  <1>7. ErrorOK(q)'
    BY <1>1
       DEF ClientGoes, chainVars, clientVars, accountVars, leaseVars, Known,
           ExecutorTypeOK, PlaceOK, ErrorOK, LastSent, Sent, Working, Before, Chain,
           Gateway
  <1>8. AccountOK(q)'
    BY <1>1
       DEF ClientGoes, chainVars, clientVars, accountVars, leaseVars, Known,
           ExecutorTypeOK, PlaceOK, AccountOK, Sent, Working, Chain, Gateway
  <1> QED BY <1>2, <1>3, <1>4, <1>5, <1>6, <1>7, <1>8, OneRun DEF RunOK

\* The authority is revoked.
LEMMA RevokeAuthoritySafe ==
    ASSUME ExecutorInductive, NEW q \in Requests, RevokeAuthority(q)
    PROVE  ExecutorInductive'
  <1>1. Known(q)
    BY PartsOf
  <1>2. ExecutorTypeOK'
    BY <1>1
       DEF RevokeAuthority, chainVars, clientVars, accountVars, leaseVars, Known,
           ExecutorTypeOK, PlaceOK, Working, Outcomes, Refusals, Chain, Gateway
  <1>3. OnlyRun(q) /\ (faults' = 0 => faults = 0)
    BY <1>1
       DEF RevokeAuthority, chainVars, clientVars, accountVars, leaseVars, Known,
           ExecutorTypeOK, OnlyRun
  <1>4. SlotsWithinLimit'
    BY <1>1, SlotsShrink DEF RevokeAuthority, leaseVars, Known, ExecutorTypeOK
  <1>5. PlaceOK(q)' /\ PastOK(q)'
    BY <1>1
       DEF RevokeAuthority, chainVars, clientVars, accountVars, leaseVars, Known,
           ExecutorTypeOK, PlaceOK, PastOK, Sent, PerhapsExecuted, Working, Before,
           Chain, Gateway
  <1>6. ContentOK(q)' /\ CompletionOK(q)'
    BY <1>1
       DEF RevokeAuthority, chainVars, clientVars, accountVars, leaseVars, Known,
           ExecutorTypeOK, PlaceOK, ContentOK, CompletionOK, Working
  <1>7. ErrorOK(q)'
    BY <1>1
       DEF RevokeAuthority, chainVars, clientVars, accountVars, leaseVars, Known,
           ExecutorTypeOK, PlaceOK, ErrorOK, LastSent, Sent, Working, Before, Chain,
           Gateway
  <1>8. AccountOK(q)'
    BY <1>1
       DEF RevokeAuthority, chainVars, clientVars, accountVars, leaseVars, Known,
           ExecutorTypeOK, PlaceOK, AccountOK, Sent, Working, Chain, Gateway
  <1> QED BY <1>2, <1>3, <1>4, <1>5, <1>6, <1>7, <1>8, OneRun DEF RunOK

\* A permit is granted or refused.
LEMMA AcquirePermitSafe ==
    ASSUME ExecutorInductive, NEW q \in Requests, AcquirePermit(q)
    PROVE  ExecutorInductive'
  <1>1. Known(q)
    BY PartsOf
  <1>9. /\ at' \in [Requests -> 1..Gateway]
        /\ \/ at'[q] = at[q]
           \/ pc'[q] = "pick" /\ at'[q] = Gateway
           \/ pc'[q] = "pick" /\ at'[q] \in Chain /\ at'[q] > at[q]
    <2>1. NextOther(at[q]) = Gateway \/ (NextOther(at[q]) \in Chain /\ NextOther(at[q]) > at[q])
      BY NextOtherProperty
    <2>2. CASE at' = at
      BY <1>1, <2>2 DEF Known, ExecutorTypeOK
    <2>3. CASE SkipAccount(q)
      BY <1>1, <2>1, <2>3 DEF SkipAccount, Goto, Known, ExecutorTypeOK, Chain, Gateway
    <2> QED BY <2>2, <2>3 DEF AcquirePermit
  <1>2. ExecutorTypeOK'
    <2>1. CASE ~gone[q] /\ Goto(q, "authorize") /\ UNCHANGED <<at, full, final>>
      BY <1>1, <2>1 DEF AcquirePermit, Goto, accountVars, leaseVars, Known, ExecutorTypeOK
    <2>2. CASE ~gone[q] /\ SkipAccount(q) /\ UNCHANGED final
      BY <1>1, <1>9, <2>2
         DEF AcquirePermit, SkipAccount, Goto, accountVars, leaseVars, Known, ExecutorTypeOK
    <2>3. CASE gone[q] /\ Fails(q) /\ UNCHANGED <<at, full>>
      BY <1>1, <2>3 DEF AcquirePermit, Goto, Fails, accountVars, leaseVars, Known, ExecutorTypeOK
    <2> QED BY <2>1, <2>2, <2>3 DEF AcquirePermit
  <1>3. OnlyRun(q) /\ (faults' = 0 => faults = 0)
    BY <1>1
       DEF AcquirePermit, Goto, Fails, SkipAccount, chainVars, clientVars,
           accountVars, leaseVars, Known, ExecutorTypeOK, OnlyRun
  <1>4. SlotsWithinLimit'
    BY <1>1, SlotsShrink DEF AcquirePermit, leaseVars, Known, ExecutorTypeOK
  <1>5. PlaceOK(q)' /\ PastOK(q)'
    <2>1. /\ at[q] \in Chain /\ at'[q] \in 1..Gateway /\ pc'[q] \in {"pick", "authorize", "ended"}
          /\ pc'[q] = "authorize" => at'[q] = at[q]
      BY <1>1, <1>9 DEF AcquirePermit, SkipAccount, Goto, Fails, Known, ExecutorTypeOK, PlaceOK,
                        Working
    <2>2. UNCHANGED <<outcome, result, gone>> /\ pc[q] = "queue"
      BY DEF AcquirePermit
    <2> QED BY <1>1, <1>9, <2>1, <2>2
       DEF Known, PlaceOK, PastOK, Sent, Working, Before, Chain, Gateway
  <1>6. ContentOK(q)' /\ CompletionOK(q)'
    BY <1>1
       DEF AcquirePermit, Goto, Fails, SkipAccount, chainVars, clientVars,
           accountVars, leaseVars, Known, ExecutorTypeOK, PlaceOK, ContentOK,
           CompletionOK, Working
  <1>7. ErrorOK(q)'
    BY <1>1
       DEF AcquirePermit, Goto, Fails, SkipAccount, chainVars, clientVars,
           accountVars, leaseVars, Known, ExecutorTypeOK, PlaceOK, ErrorOK, LastSent,
           Sent, Working, Before, Chain, Gateway
  <1>8. AccountOK(q)'
    <2>1. pc'[q] \in {"pick", "authorize", "ended"} /\ pc[q] = "queue" /\ at[q] \in Chain
      BY <1>1 DEF AcquirePermit, SkipAccount, Goto, Fails, Known, ExecutorTypeOK, PlaceOK, Working
    <2>2. UNCHANGED <<outcome, tokens, slot, faults, blamed>>
      BY DEF AcquirePermit, accountVars, leaseVars
    <2>3. \A i \in blamed[q] : i \in Chain
      BY <1>1 DEF Known, ExecutorTypeOK
    <2> QED BY <1>1, <1>9, <2>1, <2>2, <2>3 DEF Known, AccountOK, Sent, Chain, Gateway
  <1> QED BY <1>2, <1>3, <1>4, <1>5, <1>6, <1>7, <1>8, OneRun DEF RunOK

\* So is the account's quota.
LEMMA AdmitAccountSafe ==
    ASSUME ExecutorInductive, NEW q \in Requests, AdmitAccount(q)
    PROVE  ExecutorInductive'
  <1>1. Known(q)
    BY PartsOf
  <1>2. pc[q] = "quota" /\ at[q] \in Chain
    BY <1>1 DEF AdmitAccount, Known, PlaceOK, Working
  <1>3. UNCHANGED <<result, sent, completed, outcome, faults, deferred, pending, unsupported,
                    gone, allowed, response, content, native, usage, executed, blamed>>
    BY DEF AdmitAccount, accountVars
  <1>4. CASE /\ HasSlot(Account(at[q])) /\ Reserve(q, at[q]) /\ Goto(q, "snapshot")
             /\ UNCHANGED <<at, full, final>>
    <2>1. Reserved(q) /\ slot'[q][at[q]] = "held" /\ tokens'[q][at[q]] = "reserved"
      BY <1>1, <1>2, <1>4, ReserveKeeps
    <2>2. ExecutorTypeOK'
      BY <1>1, <1>3, <1>4, <2>1 DEF Reserved, Goto, Known, ExecutorTypeOK
    <2>3. OnlyRun(q) /\ pc'[q] = "snapshot"
      BY <1>1, <1>3, <1>4, <2>1 DEF Reserved, Goto, Known, ExecutorTypeOK, OnlyRun
    <2>4. PlaceOK(q)' /\ PastOK(q)'
      BY <1>1, <1>2, <1>3, <1>4, <2>3
         DEF Known, PlaceOK, PastOK, Sent, Working, Before
    <2>5. ContentOK(q)' /\ CompletionOK(q)' /\ ErrorOK(q)'
      BY <1>1, <1>2, <1>3, <1>4, <2>3
         DEF Known, ContentOK, CompletionOK, ErrorOK, LastSent, Sent
    <2>6. AccountOK(q)'
      BY <1>1, <1>2, <1>3, <1>4, <2>1, <2>3 DEF Known, AccountOK, Sent, Reserved
    <2> QED BY <1>3, <2>1, <2>2, <2>3, <2>4, <2>5, <2>6, OneRun DEF RunOK, Reserved
  <1>5. CASE SkipAccount(q) /\ UNCHANGED <<leaseVars, final>>
    <2>1. NextOther(at[q]) = Gateway \/ (NextOther(at[q]) \in Chain /\ NextOther(at[q]) > at[q])
      BY NextOtherProperty
    <2>2. /\ at' \in [Requests -> 1..Gateway] /\ at'[q] = NextOther(at[q]) /\ pc'[q] = "pick"
      BY <1>1, <1>5, <2>1 DEF SkipAccount, Goto, Known, ExecutorTypeOK, Chain, Gateway
    <2>3. ExecutorTypeOK'
      BY <1>1, <1>3, <1>5, <2>2 DEF SkipAccount, Goto, leaseVars, Known, ExecutorTypeOK
    <2>4. OnlyRun(q)
      BY <1>1, <1>3, <1>5 DEF SkipAccount, Goto, leaseVars, Known, ExecutorTypeOK, OnlyRun
    <2>5. SlotsWithinLimit'
      BY <1>1, <1>5, SlotsShrink DEF leaseVars, Known
    <2>6. PlaceOK(q)' /\ PastOK(q)'
      BY <1>1, <1>2, <1>3, <2>1, <2>2
         DEF Known, ExecutorTypeOK, PlaceOK, PastOK, Sent, Working, Before, Chain, Gateway
    <2>7. ContentOK(q)' /\ CompletionOK(q)' /\ ErrorOK(q)'
      BY <1>1, <1>2, <1>3, <1>5, <2>2
         DEF Known, ContentOK, CompletionOK, ErrorOK, LastSent, Sent
    <2>8. AccountOK(q)'
      BY <1>1, <1>2, <1>3, <1>5, <2>1, <2>2
         DEF leaseVars, Known, ExecutorTypeOK, AccountOK, Sent, Chain, Gateway
    <2> QED BY <1>3, <2>3, <2>4, <2>5, <2>6, <2>7, <2>8, OneRun DEF RunOK
  <1>6. CASE Fails(q) /\ MayReserve(q, at[q]) /\ UNCHANGED <<at, full>>
    <2>1. Reserved(q)
      BY <1>1, <1>6, MayReserveKeeps
    <2>2. ExecutorTypeOK'
      BY <1>1, <1>3, <1>6, <2>1 DEF Reserved, Fails, Goto, Known, ExecutorTypeOK
    <2>3. OnlyRun(q) /\ pc'[q] = "ended" /\ final'[q] = "error"
      BY <1>1, <1>3, <1>6, <2>1 DEF Reserved, Fails, Goto, Known, ExecutorTypeOK, OnlyRun
    <2>4. PlaceOK(q)' /\ PastOK(q)'
      BY <1>1, <1>2, <1>3, <1>6, <2>3
         DEF Known, PlaceOK, PastOK, Sent, Working, Before
    <2>5. ContentOK(q)' /\ CompletionOK(q)' /\ ErrorOK(q)'
      BY <1>1, <1>2, <1>3, <1>6, <2>3
         DEF Known, ContentOK, CompletionOK, ErrorOK, LastSent, Sent
    <2>6. AccountOK(q)'
      BY <1>1, <1>2, <1>3, <1>6, <2>1, <2>3 DEF Known, AccountOK, Sent, Reserved
    <2> QED BY <1>3, <2>1, <2>2, <2>3, <2>4, <2>5, <2>6, OneRun DEF RunOK, Reserved
  <1> QED BY <1>4, <1>5, <1>6 DEF AdmitAccount

\* The quota cannot be asked.
LEMMA AdmitUnavailableSafe ==
    ASSUME ExecutorInductive, NEW q \in Requests, AdmitUnavailable(q)
    PROVE  ExecutorInductive'
  <1>1. Known(q)
    BY PartsOf
  <1>2. pc[q] = "quota" /\ at[q] \in Chain
    BY <1>1 DEF AdmitUnavailable, Known, PlaceOK, Working
  <1>3. Reserved(q)
    BY <1>1, MayReserveKeeps DEF AdmitUnavailable
  <1>4. /\ at' \in [Requests -> 1..Gateway] /\ at'[q] = Gateway /\ pc'[q] = "pick"
    <2>1. Gateway \in 1..Gateway
      BY <1>1 DEF Known, Gateway
    <2>2. at' = [at EXCEPT ![q] = Gateway] /\ pc' = [pc EXCEPT ![q] = "pick"]
      BY DEF AdmitUnavailable, Goto
    <2> QED BY <1>1, <2>1, <2>2 DEF Known, ExecutorTypeOK
  <1>5. ExecutorTypeOK'
    <2>1. /\ faults' = faults + 1 /\ faults < MaxFaults
          /\ pc' = [pc EXCEPT ![q] = "pick"] /\ full' = [full EXCEPT ![q] = TRUE]
          /\ UNCHANGED <<result, sent, completed, outcome, deferred, pending, unsupported,
                         clientVars, accountVars>>
      BY DEF AdmitUnavailable, Fault, Goto
    <2> QED BY <1>1, <1>3, <1>4, <2>1
       DEF Reserved, clientVars, accountVars, Known, ExecutorTypeOK
  <1>6. OnlyRun(q) /\ (faults' = 0 => faults = 0)
    BY <1>1, <1>3
       DEF AdmitUnavailable, Reserved, Fault, Goto, clientVars, accountVars, Known,
           ExecutorTypeOK, OnlyRun
  <1>7. UNCHANGED <<result, sent, completed, outcome, deferred, clientVars, accountVars>>
    BY DEF AdmitUnavailable
  <1>8. PlaceOK(q)' /\ PastOK(q)'
    BY <1>1, <1>2, <1>4, <1>7
       DEF clientVars, Known, ExecutorTypeOK, PlaceOK, PastOK, Sent, Working, Before, Chain,
           Gateway
  <1>9. ContentOK(q)' /\ CompletionOK(q)' /\ ErrorOK(q)'
    BY <1>1, <1>2, <1>4, <1>7
       DEF clientVars, accountVars, Known, ContentOK, CompletionOK, ErrorOK, LastSent, Sent
  <1>10. AccountOK(q)'
    BY <1>1, <1>2, <1>3, <1>4, <1>7
       DEF accountVars, Known, ExecutorTypeOK, AccountOK, Sent, Reserved, Chain, Gateway
  <1> QED BY <1>3, <1>5, <1>6, <1>8, <1>9, <1>10, OneRun DEF RunOK, Reserved

\* A failure before content: only one that stops nothing leads to another target.
LEMMA ReportFailureSafe ==
    ASSUME ExecutorInductive, NEW q \in Requests, ReportFailure(q)
    PROVE  ExecutorInductive'
  <1>1. Known(q)
    BY PartsOf
  <1>2. /\ pc[q] = "report" /\ at[q] \in Chain /\ ~sent[q] /\ ~gone[q]
        /\ result[q] \notin {"ok", "lost", "payload", "gone", "none"}
        /\ \/ outcome[q][at[q]] = result[q]
           \/ outcome[q][at[q]] = "none" /\ result[q] = "denied"
    BY <1>1 DEF ReportFailure, Upstream, Known, PlaceOK, Working
  <1> DEFINE C == IF result[q] = "options" THEN pending[q] \cup {Account(at[q])}
                  ELSE pending[q]
             n == NextTarget(q, at[q], result[q], C)
  <1>3. C \in SUBSET OpenAi
    BY <1>1, <1>2 DEF Known, ExecutorTypeOK, PlaceOK
  <1>4. n = Gateway \/ (n \in Chain /\ n > at[q] /\ ~Stops(q, result[q]))
    BY NextTargetProperty
  <1>5. /\ at' = [at EXCEPT ![q] = n] /\ pending' = [pending EXCEPT ![q] = C]
        /\ pc' = [pc EXCEPT ![q] = "pick"] /\ full' = [full EXCEPT ![q] = FALSE]
        /\ blamed' = [blamed EXCEPT ![q] =
               IF result[q] = "denied" THEN @ ELSE @ \cup {at[q]}]
        /\ unsupported' = [unsupported EXCEPT ![q] =
               IF result[q] = "options" THEN @ \cup {Account(at[q])} ELSE @]
        /\ UNCHANGED <<result, sent, completed, outcome, faults, deferred, gone, allowed,
                       response, final, content, native, usage, executed, slot, tokens>>
    BY DEF ReportFailure, Goto, Blames, clientVars, leaseVars
  <1> HIDE DEF C, n
  <1>6. ExecutorTypeOK'
    <2>1. at' \in [Requests -> 1..Gateway]
      BY <1>1, <1>4, <1>5 DEF Known, ExecutorTypeOK, Chain, Gateway
    <2>2. pending' \in [Requests -> SUBSET OpenAi]
      BY <1>1, <1>3, <1>5 DEF Known, ExecutorTypeOK
    <2>3. unsupported' \in [Requests -> SUBSET OpenAi]
      BY <1>1, <1>2, <1>5 DEF Known, ExecutorTypeOK, PlaceOK
    <2>4. blamed' \in [Requests -> SUBSET Chain]
      BY <1>1, <1>2, <1>5 DEF Known, ExecutorTypeOK
    <2> QED BY <1>1, <1>5, <2>1, <2>2, <2>3, <2>4 DEF Known, ExecutorTypeOK
  <1>7. OnlyRun(q)
    BY <1>1, <1>5 DEF Known, ExecutorTypeOK, OnlyRun
  <1>8. SlotsWithinLimit'
    BY <1>1, <1>5, SlotsShrink DEF Known
  <1>9. pc'[q] = "pick" /\ at'[q] = n
    BY <1>1, <1>5 DEF Known, ExecutorTypeOK
  <1>10. PlaceOK(q)'
    BY <1>1, <1>4, <1>5, <1>9
       DEF Known, ExecutorTypeOK, PlaceOK, Working, Before, Chain, Gateway
  <1>11. PastOK(q)'
    <2>1. n \in Chain /\ PerhapsExecuted(q, result[q]) => result[q] = "server" /\ q \in Idempotent
      BY <1>1, <1>2, <1>4
         DEF PerhapsExecuted, Stops, Known, ExecutorTypeOK, Chain, Gateway
    <2>2. \A i \in Sent(q) : i <= at[q] /\ i \in Chain /\ i \in Nat
      BY <1>1, <1>2 DEF Sent, Known, ExecutorTypeOK, PlaceOK, Chain, Gateway
    <2>3. Sent(q)' = Sent(q) /\ \A i \in Chain : outcome'[q][i] = outcome[q][i]
      BY <1>5 DEF Sent
    <2>4. at[q] \in Sent(q) => outcome[q][at[q]] = result[q]
      BY <1>2 DEF Sent
    <2>5. \A i \in Sent(q) : i < at[q] =>
              \/ ~PerhapsExecuted(q, outcome[q][i])
              \/ outcome[q][i] = "server" /\ q \in Idempotent
      BY <1>1, <1>2, <2>2 DEF Known, PastOK
    <2>6. ASSUME NEW i \in Sent(q), i = at[q], n \notin Chain
          PROVE  ~(i < at'[q] /\ at'[q] \in Chain) /\ \A j \in Sent(q) : j <= i
      BY <1>9, <2>2, <2>6
    <2>7. \A i \in Sent(q) : i < at[q] \/ i = at[q]
      BY <1>1, <1>2, <2>2 DEF Chain
    <2>8. ASSUME NEW i \in Sent(q)
          PROVE  \/ ~PerhapsExecuted(q, outcome[q][i])
                 \/ outcome[q][i] = "server" /\ q \in Idempotent
                 \/ ~(i < at'[q] /\ at'[q] \in Chain) /\ \A j \in Sent(q) : j <= i
      BY <2>1, <2>4, <2>5, <2>6, <2>7
    <2>9. outcome' = outcome
      BY <1>5
    <2> QED BY <2>3, <2>8, <2>9 DEF PastOK
  <1>12. ContentOK(q)' /\ CompletionOK(q)' /\ ErrorOK(q)'
    BY <1>1, <1>2, <1>5, <1>9
       DEF Known, ContentOK, CompletionOK, ErrorOK, LastSent, Sent
  <1>13. AccountOK(q)'
    <2>1. n > at[q] /\ at[q] \in Nat /\ n \in Nat
      BY <1>1, <1>2, <1>4 DEF Known, Chain, Gateway
    <2>2. ASSUME NEW i \in blamed'[q]
          PROVE  /\ i < n
                 /\ outcome[q][i] \notin {"none", "ok", "gone", "lost", "payload", "late"}
      <3>1. CASE i \in blamed[q]
        <4>1. i \in Nat
          BY <1>1, <3>1 DEF Known, ExecutorTypeOK, Chain
        <4> QED BY <1>1, <1>2, <2>1, <3>1, <4>1 DEF Known, AccountOK
      <3>2. CASE i = at[q] /\ result[q] # "denied"
        <4>1. result[q] # "late"
          BY <1>1 DEF Known, ExecutorTypeOK
        <4> QED BY <1>2, <2>1, <3>2, <4>1
      <3> QED BY <1>1, <1>5, <2>2, <3>1, <3>2 DEF Known, ExecutorTypeOK
    <2> QED BY <1>1, <1>5, <1>9, <2>2 DEF Known, AccountOK, Sent
  <1> QED BY <1>5, <1>6, <1>7, <1>8, <1>10, <1>11, <1>12, <1>13, OneRun DEF RunOK

\* The timeout ends the run wherever it is.
LEMMA TimeOutSafe ==
    ASSUME ExecutorInductive, NEW q \in Requests, TimeOut(q)
    PROVE  ExecutorInductive'
  <1>1. Known(q)
    BY PartsOf
  <1>2. Reserved(q)
    BY <1>1, MayReserveKeeps DEF TimeOut
  <1>3. /\ pc[q] \notin {"new", "done", "ended"} /\ pc' = [pc EXCEPT ![q] = "ended"]
        /\ final' = [final EXCEPT ![q] = IF completed[q] THEN "done" ELSE "error"]
        /\ UNCHANGED <<result, sent, completed, faults, at, deferred, pending, unsupported,
                       full, gone, allowed, response, content, native, usage, executed,
                       blamed>>
    BY DEF TimeOut, Goto, chainVars, accountVars
  <1>4. /\ outcome[q] \in [Chain -> Outcomes] /\ outcome' \in [Requests -> [Chain -> Outcomes]]
        /\ \A r \in Requests : r # q => outcome'[r] = outcome[r]
        /\ \/ outcome'[q] = outcome[q]
           \/ /\ pc[q] \in {"await", "stream"} /\ at[q] \in Chain
              /\ outcome'[q] = [outcome[q] EXCEPT ![at[q]] = "late"]
    <2>1. pc[q] \in {"await", "stream"} => at[q] \in Chain
      BY <1>1 DEF Known, PlaceOK, Working
    <2>2. outcome \in [Requests -> [Chain -> Outcomes]] /\ "late" \in Outcomes
      BY <1>1 DEF Known, ExecutorTypeOK, Outcomes
    <2>3. outcome' = [outcome EXCEPT ![q] =
              IF pc[q] \in {"await", "stream"} THEN [@ EXCEPT ![at[q]] = "late"] ELSE @]
      BY DEF TimeOut
    <2>4. CASE pc[q] \in {"await", "stream"}
      BY <2>1, <2>2, <2>3, <2>4
    <2>5. CASE pc[q] \notin {"await", "stream"}
      BY <2>2, <2>3, <2>5
    <2> QED BY <2>4, <2>5
  <1>5. ExecutorTypeOK'
    BY <1>1, <1>2, <1>3, <1>4 DEF Reserved, Known, ExecutorTypeOK
  <1>6. OnlyRun(q) /\ pc'[q] = "ended"
    BY <1>1, <1>2, <1>3, <1>4 DEF Reserved, Known, ExecutorTypeOK, OnlyRun
  <1>7. Sent(q)' = Sent(q)
    BY <1>1, <1>4 DEF Sent, Known, PlaceOK
  <1>8. PlaceOK(q)'
    <2>1. \A j \in Chain : j > at[q] => outcome'[q][j] = "none"
      BY <1>1, <1>4 DEF Known, PlaceOK, Chain
    <2> QED BY <1>3, <1>6, <2>1 DEF PlaceOK, Working, Before
  <1>9. PastOK(q)'
    <2>1. CASE outcome'[q] = outcome[q]
      BY <1>1, <1>3, <1>7, <2>1 DEF Known, PastOK
    <2>2. CASE /\ pc[q] \in {"await", "stream"} /\ at[q] \in Chain
               /\ outcome'[q] = [outcome[q] EXCEPT ![at[q]] = "late"]
      <3>1. \A j \in Sent(q) : j <= at[q]
        BY <1>1, <2>2 DEF Sent, Known, ExecutorTypeOK, PlaceOK, Chain, Gateway
      <3>2. \A i \in Sent(q) : i # at[q] => outcome'[q][i] = outcome[q][i]
        BY <1>4, <2>2 DEF Sent
      <3> QED BY <1>1, <1>3, <1>7, <2>2, <3>1, <3>2 DEF Known, PastOK, Chain
    <2> QED BY <1>4, <2>1, <2>2
  <1>10. ContentOK(q)' /\ CompletionOK(q)'
    BY <1>1, <1>3, <1>6 DEF Known, ExecutorTypeOK, ContentOK, CompletionOK
  <1>11. ErrorOK(q)'
    BY <1>1, <1>3, <1>6, <1>7 DEF Known, ErrorOK, LastSent
  <1>12. AccountOK(q)'
    <2>1. \A i \in blamed[q] : i \in Chain /\ i # at[q]
      BY <1>1, <1>3 DEF Known, ExecutorTypeOK, AccountOK, Chain
    <2>2. \A i \in blamed[q] : outcome'[q][i] = outcome[q][i]
      BY <1>4, <2>1
    <2> QED BY <1>1, <1>2, <1>3, <1>6, <1>7, <2>2 DEF Known, AccountOK, Reserved, Sent
  <1> QED BY <1>2, <1>3, <1>5, <1>6, <1>8, <1>9, <1>10, <1>11, <1>12, OneRun
          DEF RunOK, Reserved

\* A reservation expires.
LEMMA ExpireLeaseSafe ==
    ASSUME ExecutorInductive, NEW q \in Requests, NEW i \in Chain, ExpireLease(q, i)
    PROVE  ExecutorInductive'
  <1>1. Known(q)
    BY PartsOf
  <1>2. /\ slot[q][i] = "held" /\ slot' = [slot EXCEPT ![q][i] = "free"]
        /\ tokens' = [tokens EXCEPT ![q][i] = IF @ = "reserved" THEN "expired" ELSE @]
        /\ UNCHANGED <<pc, result, sent, completed, outcome, chainVars, clientVars,
                       accountVars>>
    BY DEF ExpireLease
  <1>3. faults' \in 0..MaxFaults /\ faults' >= faults /\ (KeptAlive(q, i) => faults' # 0)
    <2>1. faults \in 0..MaxFaults
      BY <1>1 DEF Known, ExecutorTypeOK
    <2>2. CASE KeptAlive(q, i)
      BY <1>1, <2>1, <2>2 DEF ExpireLease, Fault, Known
    <2>3. CASE ~KeptAlive(q, i)
      BY <2>1, <2>3 DEF ExpireLease
    <2> QED BY <2>2, <2>3
  <1>4. /\ slot' \in [Requests -> [Chain -> {"none", "held", "free"}]]
        /\ tokens' \in [Requests -> [Chain -> {"none", "reserved", "charged", "expired"}]]
        /\ \A r \in Requests : r # q => slot'[r] = slot[r] /\ tokens'[r] = tokens[r]
        /\ \A j \in Chain : /\ slot'[q][j] = IF j = i THEN "free" ELSE slot[q][j]
                            /\ tokens[q][j] # "none" => tokens'[q][j] # "none"
    BY <1>1, <1>2 DEF Known, ExecutorTypeOK
  <1>5. ExecutorTypeOK'
    BY <1>1, <1>2, <1>3, <1>4 DEF chainVars, clientVars, accountVars, Known, ExecutorTypeOK
  <1>6. OnlyRun(q) /\ (faults' = 0 => faults = 0)
    BY <1>1, <1>2, <1>3, <1>4
       DEF chainVars, clientVars, accountVars, Known, ExecutorTypeOK, OnlyRun
  <1>7. SlotsWithinLimit'
    <2>1. \A r \in Requests, j \in Chain : slot'[r][j] = "held" => slot[r][j] = "held"
      BY <1>4
    <2> QED BY <1>1, <2>1, SlotsShrink DEF Known
  <1>8. PlaceOK(q)' /\ PastOK(q)' /\ ContentOK(q)' /\ CompletionOK(q)' /\ ErrorOK(q)'
    BY <1>1, <1>2
       DEF chainVars, clientVars, accountVars, Known, PlaceOK, PastOK, ContentOK,
           CompletionOK, ErrorOK, LastSent, Sent
  <1>9. AccountOK(q)'
    <2>1. UNCHANGED <<pc, at, outcome, blamed>>
      BY <1>2 DEF chainVars, accountVars
    <2>2. pc[q] \in {"snapshot", "dispatch"} => at[q] \in Chain
      BY <1>1 DEF Known, PlaceOK, Working
    <2>3. faults' = 0 /\ pc[q] \in {"snapshot", "dispatch", "await", "stream", "settle"}
              => slot'[q][at[q]] = "held"
      <3>1. pc[q] \in {"snapshot", "dispatch", "await", "stream", "settle"} => at[q] \in Chain
        BY <1>1 DEF Known, PlaceOK, Working
      <3> QED BY <1>1, <1>3, <1>4, <1>6, <3>1 DEF KeptAlive, Known, AccountOK
    <2> QED BY <1>1, <1>4, <2>1, <2>2, <2>3 DEF Known, AccountOK, Sent
  <1> QED BY <1>5, <1>6, <1>7, <1>8, <1>9, OneRun DEF RunOK

-----------------------------------------------------------------------------
(* The theorems.                                                           *)

\* It holds at the start.
LEMMA ExecutorStarts ==
    ASSUME ExecutorInit
    PROVE  ExecutorInductive
  <1>1. Len(Targets) \in Nat /\ MaxFaults \in Nat /\ SlotLimit \in Nat
    BY ChainLength, ExecutorAssumption
  <1>2. ExecutorTypeOK
    BY <1>1 DEF ExecutorInit, ExecutorTypeOK, Outcomes, Gateway
  <1>3. SlotsWithinLimit
    <2> SUFFICES ASSUME NEW a \in Range(Plan) PROVE Cardinality(InFlight(a)) <= SlotLimit
      BY DEF SlotsWithinLimit
    <2>1. InFlight(a) = {}
      BY DEF ExecutorInit, InFlight
    <2> QED BY <1>1, <2>1, FS_EmptySet
  <1>4. ASSUME NEW q \in Requests PROVE RunOK(q)
    <2>1. PlaceOK(q) /\ PastOK(q) /\ ContentOK(q) /\ CompletionOK(q)
      BY DEF ExecutorInit, PlaceOK, PastOK, ContentOK, CompletionOK, Sent, Working
    <2>2. ErrorOK(q) /\ AccountOK(q)
      BY <1>1 DEF ExecutorInit, ErrorOK, AccountOK, Sent, Chain
    <2> QED BY <2>1, <2>2 DEF RunOK
  <1> QED BY <1>2, <1>3, <1>4 DEF ExecutorInductive

\* Every step preserves it.
LEMMA ExecutorMoves ==
    ASSUME ExecutorInductive, [ExecutorNext]_executorVars
    PROVE  ExecutorInductive'
  <1>1. CASE UNCHANGED executorVars
    <2>1. ExecutorTypeOK'
      BY <1>1 DEF ExecutorInductive, ExecutorTypeOK, executorVars, chainVars, clientVars,
                  accountVars, leaseVars
    <2>2. SlotsWithinLimit'
      BY <1>1, SlotsShrink DEF ExecutorInductive, executorVars, leaseVars
    <2>3. ASSUME NEW q \in Requests PROVE RunOK(q)'
      <3>1. RunOK(q)
        BY DEF ExecutorInductive
      <3>2. PlaceOK(q)' /\ PastOK(q)' /\ ContentOK(q)' /\ CompletionOK(q)'
        BY <1>1, <3>1
           DEF RunOK, PlaceOK, PastOK, ContentOK, CompletionOK, Sent, executorVars,
               chainVars, clientVars, accountVars
      <3>3. ErrorOK(q)' /\ AccountOK(q)'
        BY <1>1, <3>1
           DEF RunOK, ErrorOK, AccountOK, LastSent, Sent, executorVars, chainVars,
               clientVars, accountVars, leaseVars
      <3> QED BY <3>2, <3>3 DEF RunOK
    <2> QED BY <2>1, <2>2, <2>3 DEF ExecutorInductive
  <1>2. ASSUME NEW q \in Requests, RunStep(q) PROVE ExecutorInductive'
    BY <1>2, PickTargetSafe, AcquirePermitSafe, AuthorizeSafe, AdmitAccountSafe,
       TakeSnapshotSafe, DispatchSafe, DropUpstreamSafe, FinishLeaseSafe, ReportSuccessSafe,
       SendDoneSafe, ReportLocalSafe, ReportGoneSafe, ReportBrokenSafe, ReportFailureSafe,
       AllFailedSafe
       DEF RunStep
  <1>3. ASSUME NEW q \in Requests, UpstreamStep(q) PROVE ExecutorInductive'
    BY <1>3, RefusedWithSafe, AcceptedSafe, ContentSafe, StreamDoneSafe, StreamFailsSafe
       DEF UpstreamStep
  <1>4. CASE ExecutorNext
    BY <1>2, <1>3, <1>4, StartSafe, AdmitUnavailableSafe, SnapshotFailsSafe, LoseLeaseSafe,
       FinishFailsSafe, TimeOutSafe, ClientGoesSafe, RevokeAuthoritySafe, ExpireLeaseSafe
       DEF ExecutorNext
  <1> QED BY <1>1, <1>4

\* The last of a set of attempts is its maximum.
LEMMA LastIsMax ==
    ASSUME NEW q, NEW k, LastSent(q, k)
    PROVE  k = Max(Sent(q))
  <1>1. Sent(q) \subseteq Nat
    BY ChainLength DEF Sent, Chain
  <1>2. k \in Sent(q) /\ \A y \in Sent(q) : k >= y
    BY <1>1 DEF LastSent
  <1>3. Max(Sent(q)) \in Sent(q) /\ \A y \in Sent(q) : Max(Sent(q)) >= y
    BY <1>2 DEF Max
  <1> QED BY <1>1, <1>2, <1>3

\* What the inductive invariant says of sending, answering and accounting.
LEMMA ExecutorImplies ==
    ASSUME ExecutorInductive
    PROVE  NotSentTwice /\ OneAnswer /\ AccountsTreatedFairly
  <1>1. \A q \in Requests : Known(q)
    BY PartsOf
  <1>2. NotSentTwice
    BY <1>1 DEF NotSentTwice, Known, PastOK, Sent, Chain
  <1>3. OneSource
    <2> SUFFICES ASSUME NEW q \in Requests
                 PROVE  /\ Cardinality(content[q]) <= 1
                        /\ final[q] = "done" =>
                               executed[q] # 0 /\ usage[q] = executed[q]
                               /\ content[q] \subseteq {executed[q]}
      BY DEF OneSource
    <2>1. Cardinality(content[q]) <= 1
      <3>1. content[q] \subseteq {at[q]}
        BY <1>1 DEF Known, ContentOK
      <3>2. IsFiniteSet({at[q]}) /\ Cardinality({at[q]}) = 1
        BY FS_Singleton
      <3>3. Cardinality(content[q]) <= Cardinality({at[q]})
        BY <3>1, <3>2, FS_Subset
      <3> QED BY <3>2, <3>3
    <2>2. final[q] = "done" => executed[q] = at[q] /\ usage[q] = at[q] /\ at[q] \in Chain
      BY <1>1 DEF Known, CompletionOK
    <2> QED BY <1>1, <2>1, <2>2 DEF Known, ContentOK, Chain
  <1>4. CompletedIsDone
    BY <1>1 DEF CompletedIsDone, Known, CompletionOK
  <1>5. ErrorIsLast
    BY <1>1, LastIsMax DEF ErrorIsLast, Known, ErrorOK
  <1>6. BlameIsDue /\ SentIsMetered
    BY <1>1 DEF BlameIsDue, SentIsMetered, Known, AccountOK
  <1>7. InFlightBounded
    <2> SUFFICES ASSUME faults = 0, NEW a \in Range(Plan)
                 PROVE  Cardinality({x \in Requests \X Chain :
                            /\ Account(x[2]) = a /\ at[x[1]] = x[2]
                            /\ pc[x[1]] \in {"await", "stream"}}) <= SlotLimit
      BY DEF InFlightBounded
    <2> DEFINE S == {x \in Requests \X Chain :
                        /\ Account(x[2]) = a /\ at[x[1]] = x[2]
                        /\ pc[x[1]] \in {"await", "stream"}}
    <2>1. S \subseteq InFlight(a)
      BY <1>1 DEF InFlight, Known, AccountOK
    <2> HIDE DEF S
    <2>2. Cardinality(S) <= Cardinality(InFlight(a)) /\ Cardinality(S) \in Nat
      BY <2>1, InFlightFinite, FS_Subset, FS_CardinalityType
    <2>3. Cardinality(InFlight(a)) <= SlotLimit
      BY DEF ExecutorInductive, SlotsWithinLimit
    <2>4. Cardinality(S) <= SlotLimit
      BY <2>2, <2>3, InFlightFinite, ExecutorAssumption
    <2> QED BY <2>4 DEF S
  <1> QED BY <1>2, <1>3, <1>4, <1>5, <1>6, <1>7
          DEF OneAnswer, AccountsTreatedFairly, ExecutorInductive

\* So it always holds.
LEMMA ExecutorHolds == ExecutorSpec => []ExecutorInductive
  <1>1. ExecutorInit => ExecutorInductive
    BY ExecutorStarts
  <1>2. ExecutorInductive /\ [ExecutorNext]_executorVars => ExecutorInductive'
    BY ExecutorMoves
  <1> QED BY <1>1, <1>2, PTL DEF ExecutorSpec

\* What an upstream may have executed is never sent again, unless it answered
\* with a 5xx and the request carries an idempotency key: for every chain of
\* accounts and however the timeout, the client, the authority, the lease and
\* the upstream end the attempts.
THEOREM SentOnce == ExecutorSpec => []NotSentTwice
  <1>1. ExecutorInductive => NotSentTwice
    BY ExecutorImplies
  <1> QED BY <1>1, ExecutorHolds, PTL

\* The client gets content of one attempt only, Done only when that attempt
\* completed and always when it did, and otherwise the error of the attempt
\* that was sent last.
THEOREM AnsweredOnce == ExecutorSpec => []OneAnswer
  <1>1. ExecutorInductive => OneAnswer
    BY ExecutorImplies
  <1> QED BY <1>1, ExecutorHolds, PTL

\* Accounts are blamed only for what their upstream did, metered for whatever
\* they were sent, and without faults never have more attempts in flight than
\* slots, for any number of requests that compete for them.
THEOREM AccountsSafe == ExecutorSpec => []AccountsTreatedFairly
  <1>1. ExecutorInductive => AccountsTreatedFairly
    BY ExecutorImplies
  <1> QED BY <1>1, ExecutorHolds, PTL
=============================================================================
