-------------------------- MODULE RateLimitProofs ---------------------------
(***************************************************************************)
(* Theorems about the limits of one key: about RequestWindow, for every    *)
(* number of threads, every limit and any number of windows, and about     *)
(* TokenBudget, for every number of attempts and of faults, every way they *)
(* share terminal ids, every limit and every length of the window.         *)
(***************************************************************************)
EXTENDS RequestWindow, TokenBudget, FiniteSetTheorems, WellFoundedInduction,
        TLAPS

-----------------------------------------------------------------------------
(* Arithmetic modulo the width of the counter.                             *)

\* A number is its quotient and its remainder.
LEMMA Division ==
    ASSUME NEW x \in Int
    PROVE  \E q \in Int, r \in 0..(Width - 1) : x = q * Width + r /\ x % Width = r
  <1>1. Width \in Nat \ {0}
    BY RequestAssumption, FS_CardinalityType
  <1>2. /\ (x % Width) \in 0..(Width - 1) /\ (x \div Width) \in Int
        /\ x = Width * (x \div Width) + (x % Width)
    BY <1>1
  <1>3. Width * (x \div Width) = (x \div Width) * Width
    BY <1>1, <1>2
  <1> QED BY <1>2, <1>3

\* Numbers that differ by a multiple of the width have one remainder.
LEMMA SameRemainder ==
    ASSUME NEW x \in Int, NEW m \in Int
    PROVE  (x + m * Width) % Width = x % Width
  <1>1. Width \in Nat \ {0}
    BY RequestAssumption, FS_CardinalityType
  <1>2. PICK q \in Int, r \in 0..(Width - 1) : x = q * Width + r /\ x % Width = r
    BY Division
  <1>3. (q + m) * Width = q * Width + m * Width /\ q + m \in Int
    BY <1>1
  <1>4. ((q + m) * Width + r) % Width = r
    <2>1. \A k \in Int : (k * Width + r) % Width = r
      BY <1>1
    <2> QED BY <1>3, <2>1
  <1>5. x + m * Width = (q + m) * Width + r
    <2>1. q * Width \in Int /\ m * Width \in Int
      BY <1>1
    <2> QED BY <1>2, <1>3, <2>1
  <1> QED BY <1>2, <1>4, <1>5, Zenon

\* fetch_add and fetch_sub wrap round once.
LEMMA Wraps ==
    ASSUME NEW x \in 0..(Width - 1)
    PROVE  /\ (x + 1) % Width = IF x + 1 = Width THEN 0 ELSE x + 1
           /\ (x + Width - 1) % Width = IF x = 0 THEN Width - 1 ELSE x - 1
  <1>1. Width \in Nat \ {0} /\ Width > 1
    BY RequestAssumption, FS_CardinalityType
  <1>2. \A y \in 0..(Width - 1) : y % Width = y
    BY <1>1
  <1>3. \A y \in 0..(Width - 1) : (y + 1 * Width) % Width = y % Width
    BY SameRemainder
  <1>4. \A y \in 0..(Width - 1) : (y + Width) % Width = y
    <2> TAKE y \in 0..(Width - 1)
    <2>1. y + 1 * Width = y + Width
      BY <1>1
    <2> QED BY <1>2, <1>3, <2>1
  <1>5. CASE x + 1 = Width
    <2>1. (0 + Width) % Width = 0
      BY <1>1, <1>4
    <2>2. 0 + Width = x + 1 /\ x + Width - 1 \in Int
      BY <1>1, <1>5
    <2>3. (x + 1) % Width = 0
      BY <2>1, <2>2
    <2>4. x # 0 /\ x - 1 \in 0..(Width - 1) /\ (x - 1) + Width = x + Width - 1
      BY <1>1, <1>5
    <2>5. (x + Width - 1) % Width = x - 1
      BY <1>4, <2>4
    <2> QED BY <1>5, <2>3, <2>4, <2>5
  <1>6. CASE x + 1 # Width
    <2>1. x + 1 \in 0..(Width - 1)
      BY <1>1, <1>6
    <2>2. (x + 1) % Width = x + 1
      BY <1>2, <2>1
    <2>3. CASE x = 0
      <3>1. x + Width - 1 = Width - 1 /\ Width - 1 \in 0..(Width - 1)
        BY <1>1, <2>3
      <3> QED BY <1>2, <1>6, <2>2, <2>3, <3>1
    <2>4. CASE x # 0
      <3>1. x - 1 \in 0..(Width - 1) /\ (x - 1) + Width = x + Width - 1
        BY <1>1, <2>4
      <3>2. (x + Width - 1) % Width = x - 1
        BY <1>4, <3>1
      <3> QED BY <1>6, <2>2, <2>4, <3>2
    <2> QED BY <2>3, <2>4
  <1> QED BY <1>5, <1>6

-----------------------------------------------------------------------------
(* The inductive invariant.                                                *)

\* The types.
RequestTypeOK ==
    /\ count \in 0..(Width - 1) /\ windows \in Nat
    /\ pc \in [Threads -> {"idle", "count", "undo"}]
    /\ counted \in [Threads -> Nat]
    /\ window \in Nat /\ admitted \in Nat /\ stale \in Nat
    /\ \A t \in Threads : counted[t] <= window

\* Refused requests that this window still counts.
Refused == {t \in Threads : pc[t] = "undo" /\ counted[t] = window}

\* The counter is what was admitted and what is still to be taken back, less what
\* was taken back from the wrong window, up to the times it wrapped round.
CountExplained ==
    \E m \in Int :
        admitted + Cardinality(Refused) = count + stale + m * Width

\* Together: the inductive invariant.
RequestInductive == RequestTypeOK /\ CountExplained /\ ExcessIsStale

\* There are never more refused requests than threads.
LEMMA RefusedCount ==
    /\ IsFiniteSet(Refused) /\ Cardinality(Refused) \in Nat
    /\ Cardinality(Threads) \in Nat
    /\ \A t \in Threads : t \notin Refused => Cardinality(Refused) + 1 <= Cardinality(Threads)
  <1>1. Refused \in SUBSET Threads /\ IsFiniteSet(Threads)
    BY RequestAssumption DEF Refused
  <1>2. IsFiniteSet(Refused) /\ Cardinality(Refused) \in Nat /\ Cardinality(Threads) \in Nat
    BY <1>1, FS_Subset, FS_CardinalityType
  <1>3. ASSUME NEW t \in Threads, t \notin Refused
        PROVE  Cardinality(Refused) + 1 <= Cardinality(Threads)
    <2>1. Refused \in SUBSET (Threads \ {t})
      BY <1>1, <1>3
    <2>2. IsFiniteSet(Threads \ {t}) /\ Cardinality(Threads \ {t}) = Cardinality(Threads) - 1
      BY <1>1, FS_RemoveElement
    <2>3. Cardinality(Refused) <= Cardinality(Threads \ {t})
      BY <2>1, <2>2, FS_Subset
    <2> QED BY <1>2, <2>2, <2>3
  <1> QED BY <1>2, <1>3

\* An empty window counts nobody.
LEMMA RequestInitially == RequestInit => RequestInductive
  <1> SUFFICES ASSUME RequestInit PROVE RequestInductive
    OBVIOUS
  <1>1. Width \in Nat /\ Width > 0 /\ RpmLimit \in Nat
    BY RequestAssumption, FS_CardinalityType
  <1>2. RequestTypeOK
    BY <1>1 DEF RequestInit, RequestTypeOK
  <1>3. Refused = {}
    BY DEF RequestInit, Refused
  <1>4. Cardinality(Refused) = 0
    BY <1>3, FS_EmptySet
  <1>5. admitted + Cardinality(Refused) = count + stale + 0 * Width
    BY <1>1, <1>4 DEF RequestInit
  <1>6. CountExplained
    BY <1>5 DEF CountExplained
  <1>7. ExcessIsStale
    BY <1>1 DEF RequestInit, ExcessIsStale
  <1> QED BY <1>2, <1>6, <1>7 DEF RequestInductive

\* reset_if_expired starts the window at zero; what is still to be taken back was
\* counted in an earlier one.
LEMMA ResetKeeps ==
    ASSUME RequestInductive, NEW t \in Threads, Reset(t)
    PROVE  RequestInductive'
  <1> USE DEF RequestInductive
  <1>0. Width \in Nat /\ Width > 0 /\ RpmLimit \in Nat
    BY RequestAssumption, FS_CardinalityType
  <1>1. RequestTypeOK'
    BY <1>0 DEF RequestTypeOK, Reset
  <1>2. CASE over
    <2>1. count' = 0 /\ admitted' = 0 /\ stale' = 0 /\ window' = window + 1 /\ counted' = counted
      BY <1>2 DEF Reset
    <2>2. Refused' = {}
      BY <2>1 DEF Refused, RequestTypeOK
    <2>3. Cardinality(Refused') = 0
      BY <2>2, FS_EmptySet
    <2>4. admitted' + Cardinality(Refused') = count' + stale' + 0 * Width
      BY <1>0, <2>1, <2>3
    <2> QED BY <1>0, <1>1, <2>1, <2>4 DEF CountExplained, ExcessIsStale
  <1>3. CASE ~over
    <2>1. UNCHANGED <<count, window, admitted, stale, counted>>
      BY <1>3 DEF Reset
    <2>2. Refused' = Refused
      BY <2>1 DEF Refused, Reset, RequestTypeOK
    <2> QED BY <1>1, <2>1, <2>2 DEF CountExplained, ExcessIsStale
  <1> QED BY <1>2, <1>3

\* A request that is counted is admitted or is to be taken back.
LEMMA CountKeeps ==
    ASSUME RequestInductive, NEW t \in Threads, Count(t)
    PROVE  RequestInductive'
  <1> USE DEF RequestInductive
  <1> DEFINE new == (count + 1) % Width
             n == Cardinality(Refused)
  <1>0. /\ Width \in Nat /\ RpmLimit \in Nat /\ Width > RpmLimit + Cardinality(Threads)
        /\ Cardinality(Threads) \in Nat /\ n \in Nat
        /\ count \in 0..(Width - 1) /\ admitted \in Nat /\ stale \in Nat
    BY RequestAssumption, FS_CardinalityType, RefusedCount DEF RequestTypeOK
  <1>1. new = IF count + 1 = Width THEN 0 ELSE count + 1
    BY <1>0, Wraps
  <1>2. PICK m \in Int : admitted + n = count + stale + m * Width
    BY DEF CountExplained
  <1> HIDE DEF new, n
  <1>3. PICK k \in Int : admitted + n + 1 = new + stale + k * Width
    <2>1. CASE count + 1 = Width
      <3>1. (m + 1) * Width = m * Width + Width /\ m * Width \in Int
        BY <1>0
      <3>2. admitted + n + 1 = new + stale + (m + 1) * Width
        BY <1>0, <1>1, <1>2, <2>1, <3>1
      <3> QED BY <3>2
    <2>2. CASE count + 1 # Width
      <3>1. m * Width \in Int
        BY <1>0
      <3>2. admitted + n + 1 = new + stale + m * Width
        BY <1>0, <1>1, <1>2, <2>2, <3>1
      <3> QED BY <3>2
    <2> QED BY <2>1, <2>2
  <1>4. new \in 0..(Width - 1)
    BY <1>0, <1>1
  <1>5. /\ count' = new /\ stale' = stale /\ window' = window /\ pc[t] = "count"
        /\ counted' = [counted EXCEPT ![t] = window]
        /\ UNCHANGED <<over, windows>>
    BY DEF Count, new
  <1>6. t \notin Refused /\ n + 1 <= Cardinality(Threads)
    BY <1>5, RefusedCount DEF Refused, n
  <1>7. CASE new > RpmLimit
    <2>1. pc' = [pc EXCEPT ![t] = "undo"] /\ admitted' = admitted
      BY <1>7 DEF Count, new
    <2>2. RequestTypeOK'
      BY <1>4, <1>5, <2>1 DEF RequestTypeOK
    <2>3. Refused' = Refused \cup {t}
      BY <1>5, <2>1 DEF Refused, RequestTypeOK
    <2>4. Cardinality(Refused') = n + 1
      BY <1>6, <2>3, RefusedCount, FS_AddElement DEF n
    <2>5. admitted' + Cardinality(Refused') = count' + stale' + k * Width
      BY <1>0, <1>3, <1>5, <2>1, <2>4
    <2> QED BY <1>5, <2>1, <2>2, <2>5 DEF CountExplained, ExcessIsStale
  <1>8. CASE new <= RpmLimit
    <2>1. pc' = [pc EXCEPT ![t] = "idle"] /\ admitted' = admitted + 1
      BY <1>0, <1>4, <1>8 DEF Count, new
    <2>2. RequestTypeOK'
      BY <1>4, <1>5, <2>1 DEF RequestTypeOK
    <2>3. Refused' = Refused
      BY <1>5, <2>1 DEF Refused, RequestTypeOK
    <2>4. admitted' + Cardinality(Refused') = count' + stale' + k * Width
      BY <1>0, <1>3, <1>5, <2>1, <2>3 DEF n
    <2>5. admitted + 1 <= RpmLimit + stale
      <3>1. CASE k >= 1
        <4>1. k * Width >= Width /\ k * Width \in Int
          BY <1>0, <3>1
        <4>2. admitted <= RpmLimit + stale
          BY DEF ExcessIsStale
        <4> QED BY <1>0, <1>3, <1>4, <1>6, <4>1, <4>2
      <3>2. CASE k <= 0
        <4>1. k * Width <= 0 /\ k * Width \in Int
          BY <1>0, <3>2
        <4> QED BY <1>0, <1>3, <1>4, <1>8, <4>1
      <3> QED BY <3>1, <3>2
    <2> QED BY <1>5, <2>1, <2>2, <2>4, <2>5 DEF CountExplained, ExcessIsStale
  <1> QED BY <1>0, <1>4, <1>7, <1>8

\* A refused request is taken back, from its own window or from a later one.
LEMMA UndoKeeps ==
    ASSUME RequestInductive, NEW t \in Threads, Undo(t)
    PROVE  RequestInductive'
  <1> USE DEF RequestInductive
  <1> DEFINE new == (count + Width - 1) % Width
             n == Cardinality(Refused)
  <1>0. /\ Width \in Nat /\ Width > 0 /\ n \in Nat /\ RpmLimit \in Nat
        /\ count \in 0..(Width - 1) /\ admitted \in Nat /\ stale \in Nat
    BY RequestAssumption, FS_CardinalityType, RefusedCount DEF RequestTypeOK
  <1>1. new = IF count = 0 THEN Width - 1 ELSE count - 1
    BY <1>0, Wraps
  <1>2. PICK m \in Int : admitted + n = count + stale + m * Width
    BY DEF CountExplained
  <1> HIDE DEF new, n
  <1>3. PICK k \in Int : admitted + n = new + 1 + stale + k * Width
    <2>1. CASE count = 0
      <3>1. (m - 1) * Width = m * Width - Width /\ m * Width \in Int
        BY <1>0
      <3>2. admitted + n = new + 1 + stale + (m - 1) * Width
        BY <1>0, <1>1, <1>2, <2>1, <3>1
      <3> QED BY <3>2
    <2>2. CASE count # 0
      <3>1. m * Width \in Int
        BY <1>0
      <3>2. admitted + n = new + 1 + stale + m * Width
        BY <1>0, <1>1, <1>2, <2>2, <3>1
      <3> QED BY <3>2
    <2> QED BY <2>1, <2>2
  <1>4. new \in 0..(Width - 1) /\ k * Width \in Int
    BY <1>0, <1>1
  <1>5. /\ count' = new /\ pc[t] = "undo" /\ pc' = [pc EXCEPT ![t] = "idle"]
        /\ stale' = stale + IF counted[t] = window THEN 0 ELSE 1
        /\ UNCHANGED <<over, windows, counted, window, admitted>>
    BY DEF Undo, new
  <1>6. RequestTypeOK'
    BY <1>0, <1>4, <1>5 DEF RequestTypeOK
  <1>7. Refused' = Refused \ {t} /\ (t \in Refused <=> counted[t] = window)
    BY <1>5 DEF Refused, RequestTypeOK
  <1>8. Cardinality(Refused') = IF counted[t] = window THEN n - 1 ELSE n
    BY <1>7, RefusedCount, FS_RemoveElement DEF n
  <1>9. admitted' + Cardinality(Refused') = count' + stale' + k * Width
    BY <1>0, <1>3, <1>4, <1>5, <1>8
  <1>10. ExcessIsStale'
    BY <1>0, <1>5 DEF ExcessIsStale
  <1> QED BY <1>6, <1>9, <1>10 DEF CountExplained

\* One case for each of the three atomic steps.
LEMMA RequestStep ==
    RequestInductive /\ [RequestNext]_requestVars => RequestInductive'
  <1> SUFFICES ASSUME RequestInductive, [RequestNext]_requestVars
               PROVE  RequestInductive'
    OBVIOUS
  <1>1. CASE WindowEnds \/ UNCHANGED requestVars
    <2>1. UNCHANGED <<count, pc, counted, window, admitted, stale>>
      BY <1>1 DEF WindowEnds, requestVars
    <2>2. RequestTypeOK'
      BY <1>1 DEF WindowEnds, requestVars, RequestInductive, RequestTypeOK
    <2>3. Refused' = Refused
      BY <2>1 DEF Refused
    <2> QED BY <2>1, <2>2, <2>3 DEF RequestInductive, CountExplained, ExcessIsStale
  <1> QED BY <1>1, ResetKeeps, CountKeeps, UndoKeeps DEF RequestNext

\* With every thread between calls nothing is left to take back.
LEMMA CountIsExplained == RequestInductive => WindowInvariant
  <1> SUFFICES ASSUME RequestInductive, \A t \in Threads : pc[t] = "idle"
               PROVE  (count + stale) % Width = admitted % Width
    BY DEF RequestInductive, WindowInvariant, CountIsAdmitted
  <1>0. /\ Width \in Nat /\ count \in Nat /\ admitted \in Nat /\ stale \in Nat
    BY RequestAssumption DEF RequestInductive, RequestTypeOK
  <1>1. Refused = {}
    BY DEF Refused
  <1>2. Cardinality(Refused) = 0
    BY <1>1, FS_EmptySet
  <1>3. PICK m \in Int : admitted + 0 = count + stale + m * Width
    BY <1>2 DEF RequestInductive, CountExplained
  <1>4. admitted = (count + stale) + m * Width
    BY <1>0, <1>3
  <1>5. PICK x \in Int : x = count + stale
    BY <1>0
  <1>6. (x + m * Width) % Width = x % Width
    BY SameRemainder
  <1> QED BY <1>4, <1>5, <1>6, Zenon

-----------------------------------------------------------------------------

\* However check_and_record_with_config interleaves in any number of threads and
\* windows, the requests admitted beyond rpm_limit are at most those that were
\* counted in one window and taken back from a later one, and between calls the
\* counter differs from the admitted requests by exactly those.
THEOREM WindowSafe == RequestSpec => []WindowInvariant
  BY RequestInitially, RequestStep, CountIsExplained, PTL DEF RequestSpec

-----------------------------------------------------------------------------
(* Sums over finite sets.  Induction is by a smallest counterexample.      *)

\* Every non-empty set of finite sets has a smallest member.
LEMMA Smallest ==
    ASSUME NEW B, B # {}, \A T \in B : IsFiniteSet(T)
    PROVE  \E T \in B : \A U \in B : Cardinality(T) <= Cardinality(U)
  <1> DEFINE N == {Cardinality(T) : T \in B}
  <1>1. \A T \in B : Cardinality(T) \in Nat
    BY FS_CardinalityType
  <1>2. N \in SUBSET Nat /\ N # {}
    BY <1>1
  <1>3. PICK n \in N : \A m \in N : ~(<<m, n>> \in OpToRel(<, Nat))
    BY <1>2, NatLessThanWellFounded, WFMin, Zenon
  <1>4. \A m \in N : ~(m < n)
    BY <1>2, <1>3 DEF OpToRel
  <1>5. PICK T \in B : n = Cardinality(T)
    BY <1>3
  <1>6. ASSUME NEW U \in B PROVE Cardinality(T) <= Cardinality(U)
    BY <1>1, <1>4, <1>5
  <1> QED BY <1>6

\* A finite set without one of its elements is finite and smaller.
LEMMA WithoutOne ==
    ASSUME NEW S, IsFiniteSet(S), NEW x \in S
    PROVE  /\ IsFiniteSet(S \ {x})
           /\ Cardinality(S) \in Nat /\ Cardinality(S \ {x}) \in Nat
           /\ Cardinality(S \ {x}) < Cardinality(S)
  <1>1. IsFiniteSet(S \ {x}) /\ Cardinality(S \ {x}) = Cardinality(S) - 1
    BY FS_RemoveElement
  <1>2. Cardinality(S) \in Nat /\ Cardinality(S \ {x}) \in Nat
    BY <1>1, FS_CardinalityType
  <1> QED BY <1>1, <1>2

\* The element that a sum takes first.
First(s) == CHOOSE x \in s : TRUE

\* g is the table of the sums of w over the subsets of S.
Grid(w, S, g) ==
    g = [s \in SUBSET S |-> IF s = {} THEN 0 ELSE w[First(s)] + g[s \ {First(s)}]]

\* Tables agree on the finite sets that both have.
LEMMA GridsAgree ==
    ASSUME NEW w, NEW S, NEW T, NEW g, NEW h, Grid(w, S, g), Grid(w, T, h),
           NEW u, u \subseteq S, u \subseteq T, IsFiniteSet(u)
    PROVE  g[u] = h[u]
  <1> DEFINE Bad == {s \in SUBSET u : g[s] # h[s]}
  <1> SUFFICES ASSUME Bad # {} PROVE FALSE
    OBVIOUS
  <1>1. \A s \in Bad : IsFiniteSet(s)
    BY FS_Subset
  <1>2. PICK s \in Bad : \A t \in Bad : Cardinality(s) <= Cardinality(t)
    <2> HIDE DEF Bad
    <2> QED BY <1>1, Smallest
  <1>3. s # {}
    BY <1>2 DEF Grid
  <1>4. First(s) \in s
    BY <1>3 DEF First
  <1>5. s \ {First(s)} \notin Bad
    BY <1>1, <1>2, <1>4, WithoutOne
  <1>6. g[s \ {First(s)}] = h[s \ {First(s)}]
    BY <1>5
  <1>7. g[s] = w[First(s)] + g[s \ {First(s)}]
    BY <1>3 DEF Grid
  <1>8. h[s] = w[First(s)] + h[s \ {First(s)}]
    BY <1>3 DEF Grid
  <1> QED BY <1>2, <1>6, <1>7, <1>8

\* The last row of the table.
SumOf(w, S) == (CHOOSE g : Grid(w, S, g))[S]

\* There is such a table.
LEMMA GridExists ==
    ASSUME NEW w, NEW S, IsFiniteSet(S)
    PROVE  \E g : Grid(w, S, g)
  <1> DEFINE Bad == {s \in SUBSET S : ~\E g : Grid(w, s, g)}
  <1> SUFFICES ASSUME Bad # {} PROVE FALSE
    OBVIOUS
  <1>1. \A s \in Bad : IsFiniteSet(s)
    BY FS_Subset
  <1>2. PICK s \in Bad : \A t \in Bad : Cardinality(s) <= Cardinality(t)
    <2> HIDE DEF Bad
    <2> QED BY <1>1, Smallest
  <1> DEFINE
        last == IF s = {} THEN 0 ELSE w[First(s)] + SumOf(w, s \ {First(s)})
        g == [t \in SUBSET s |-> IF t = s THEN last ELSE SumOf(w, t)]
  <1>3. ASSUME NEW t \in SUBSET s, t # s
        PROVE  /\ \E h : Grid(w, t, h)
               /\ IsFiniteSet(t)
    <2>1. IsFiniteSet(s)
      BY <1>1, <1>2
    <2>2. Cardinality(t) < Cardinality(s) /\ IsFiniteSet(t)
      <3>1. PICK x \in s : t \subseteq s \ {x}
        BY <1>3
      <3>2. /\ IsFiniteSet(s \ {x}) /\ Cardinality(s) \in Nat
            /\ Cardinality(s \ {x}) \in Nat
            /\ Cardinality(s \ {x}) < Cardinality(s)
        BY <2>1, WithoutOne
      <3>3. IsFiniteSet(t) /\ Cardinality(t) <= Cardinality(s \ {x})
        BY <3>1, <3>2, FS_Subset
      <3>4. Cardinality(t) \in Nat
        BY <3>3, FS_CardinalityType
      <3> QED BY <3>2, <3>3, <3>4
    <2>3. Cardinality(t) \in Nat /\ Cardinality(s) \in Nat
      BY <2>1, <2>2, FS_CardinalityType
    <2>4. t \notin Bad
      BY <1>2, <2>2, <2>3
    <2> QED BY <2>2, <2>4
  <1>4. ASSUME NEW t \in SUBSET s, t # s, t # {}
        PROVE  SumOf(w, t) = w[First(t)] + SumOf(w, t \ {First(t)})
    <2> DEFINE u == t \ {First(t)}
               a == CHOOSE h : Grid(w, t, h)
               b == CHOOSE h : Grid(w, u, h)
    <2>1. First(t) \in t
      BY <1>4 DEF First
    <2>2. u \in SUBSET s /\ u # s
      BY <1>4, <2>1
    <2>3. Grid(w, t, a)
      BY <1>3, <1>4
    <2>4. Grid(w, u, b) /\ IsFiniteSet(u)
      BY <1>3, <2>2
    <2>5. a[u] = b[u]
      <3> HIDE DEF a, b
      <3> QED BY <2>3, <2>4, GridsAgree
    <2>6. a[t] = w[First(t)] + a[u]
      <3> HIDE DEF a
      <3> QED BY <1>4, <2>3 DEF Grid
    <2> QED BY <2>5, <2>6 DEF SumOf
  <1>5. ASSUME NEW t \in SUBSET s
        PROVE  g[t] = IF t = {} THEN 0 ELSE w[First(t)] + g[t \ {First(t)}]
    <2>1. CASE t = s /\ t # {}
      <3>1. First(s) \in s
        BY <2>1 DEF First
      <3> QED BY <2>1, <3>1
    <2>2. CASE t = {} /\ t # s
      <3>1. PICK h : Grid(w, t, h)
        BY <1>3, <2>2
      <3>2. Grid(w, t, CHOOSE k : Grid(w, t, k))
        BY <3>1
      <3>3. SumOf(w, t) = 0
        BY <2>2, <3>2 DEF SumOf, Grid
      <3> QED BY <2>2, <3>3
    <2>3. CASE t # {} /\ t # s
      <3>1. First(t) \in t
        BY <2>3 DEF First
      <3>2. t \ {First(t)} \in SUBSET s /\ t \ {First(t)} # s
        BY <2>3, <3>1
      <3> QED BY <1>4, <2>3, <3>2
    <2> QED BY <2>1, <2>2, <2>3
  <1>6. Grid(w, s, g)
    BY <1>5 DEF Grid
  <1> QED BY <1>2, <1>6

\* The sum is the last row of some table.
LEMMA SumGrid ==
    ASSUME NEW w, NEW S, IsFiniteSet(S)
    PROVE  \E g : Grid(w, S, g) /\ SumOf(w, S) = g[S]
  <1>1. Grid(w, S, CHOOSE g : Grid(w, S, g))
    BY GridExists
  <1> QED BY <1>1 DEF SumOf

\* A sum, one element at a time.
LEMMA SumStart ==
    ASSUME NEW w
    PROVE  SumOf(w, {}) = 0
  <1>1. PICK g : Grid(w, {}, g) /\ SumOf(w, {}) = g[{}]
    BY SumGrid, FS_EmptySet
  <1> QED BY <1>1 DEF Grid

LEMMA SumFirst ==
    ASSUME NEW w, NEW S, IsFiniteSet(S), S # {}
    PROVE  /\ First(S) \in S
           /\ SumOf(w, S) = w[First(S)] + SumOf(w, S \ {First(S)})
  <1> DEFINE T == S \ {First(S)}
  <1>1. First(S) \in S
    BY DEF First
  <1>2. IsFiniteSet(T)
    BY <1>1, WithoutOne
  <1>3. PICK g : Grid(w, S, g) /\ SumOf(w, S) = g[S]
    BY SumGrid
  <1>4. PICK h : Grid(w, T, h) /\ SumOf(w, T) = h[T]
    BY <1>2, SumGrid
  <1>5. g[T] = h[T]
    BY <1>2, <1>3, <1>4, GridsAgree
  <1>6. g[S] = w[First(S)] + g[T]
    BY <1>3 DEF Grid
  <1> QED BY <1>1, <1>3, <1>4, <1>5, <1>6

\* A sum of natural numbers is one.
LEMMA SumIsNat ==
    ASSUME NEW S, IsFiniteSet(S), NEW w, \A x \in S : w[x] \in Nat
    PROVE  SumOf(w, S) \in Nat
  <1> DEFINE Bad == {s \in SUBSET S : SumOf(w, s) \notin Nat}
  <1> SUFFICES ASSUME Bad # {} PROVE FALSE
    OBVIOUS
  <1>1. \A s \in Bad : IsFiniteSet(s)
    BY FS_Subset
  <1>2. PICK s \in Bad : \A t \in Bad : Cardinality(s) <= Cardinality(t)
    <2> HIDE DEF Bad
    <2> QED BY <1>1, Smallest
  <1>3. s # {}
    BY <1>2, SumStart
  <1>4. First(s) \in s /\ SumOf(w, s) = w[First(s)] + SumOf(w, s \ {First(s)})
    BY <1>1, <1>2, <1>3, SumFirst
  <1>5. s \ {First(s)} \notin Bad
    BY <1>1, <1>2, <1>4, WithoutOne
  <1>6. SumOf(w, s \ {First(s)}) \in Nat /\ w[First(s)] \in Nat
    BY <1>4, <1>5
  <1> QED BY <1>2, <1>4, <1>6

\* The elements may be taken in any order.
LEMMA SumAny ==
    ASSUME NEW S, IsFiniteSet(S), NEW w, \A x \in S : w[x] \in Nat, NEW y \in S
    PROVE  SumOf(w, S) = w[y] + SumOf(w, S \ {y})
  <1> DEFINE Wrong(s) == \E z \in s : SumOf(w, s) # w[z] + SumOf(w, s \ {z})
             Bad == {s \in SUBSET S : Wrong(s)}
  <1> SUFFICES ASSUME Bad # {} PROVE FALSE
    OBVIOUS
  <1>1. \A s \in SUBSET S : IsFiniteSet(s)
    BY FS_Subset
  <1>2. PICK s \in Bad : \A t \in Bad : Cardinality(s) <= Cardinality(t)
    <2>1. \A s \in Bad : IsFiniteSet(s)
      BY <1>1
    <2> HIDE DEF Bad
    <2> QED BY <2>1, Smallest
  <1>3. PICK z \in s : SumOf(w, s) # w[z] + SumOf(w, s \ {z})
    BY <1>2
  <1> DEFINE x == First(s)
  <1>4. x \in s /\ SumOf(w, s) = w[x] + SumOf(w, s \ {x})
    BY <1>1, <1>2, <1>3, SumFirst
  <1>5. x # z
    BY <1>3, <1>4
  <1>6. s \ {x} \notin Bad /\ s \ {z} \notin Bad
    <2>1. IsFiniteSet(s)
      BY <1>1, <1>2
    <2>2. /\ Cardinality(s) \in Nat
          /\ Cardinality(s \ {x}) \in Nat /\ Cardinality(s \ {x}) < Cardinality(s)
          /\ Cardinality(s \ {z}) \in Nat /\ Cardinality(s \ {z}) < Cardinality(s)
      BY <1>3, <1>4, <2>1, WithoutOne
    <2> HIDE DEF Bad
    <2> QED BY <1>2, <2>2
  <1> HIDE DEF x
  <1>7. SumOf(w, s \ {x}) = w[z] + SumOf(w, (s \ {x}) \ {z})
    BY <1>3, <1>5, <1>6
  <1>8. SumOf(w, s \ {z}) = w[x] + SumOf(w, (s \ {z}) \ {x})
    BY <1>4, <1>5, <1>6
  <1>9. (s \ {x}) \ {z} = (s \ {z}) \ {x}
    OBVIOUS
  <1>10. w[x] \in Nat /\ w[z] \in Nat /\ SumOf(w, (s \ {z}) \ {x}) \in Nat
    <2>1. (s \ {z}) \ {x} \in SUBSET S
      OBVIOUS
    <2>2. SumOf(w, (s \ {z}) \ {x}) \in Nat
      BY <1>1, <2>1, SumIsNat
    <2> QED BY <1>3, <1>4, <2>2
  <1> QED BY <1>3, <1>4, <1>7, <1>8, <1>9, <1>10

\* A sum splits over a subset.
LEMMA SumSplit ==
    ASSUME NEW S, IsFiniteSet(S), NEW w, \A x \in S : w[x] \in Nat,
           NEW T \in SUBSET S
    PROVE  SumOf(w, S) = SumOf(w, T) + SumOf(w, S \ T)
  <1> DEFINE Bad == {t \in SUBSET S : SumOf(w, S) # SumOf(w, t) + SumOf(w, S \ t)}
  <1> SUFFICES ASSUME Bad # {} PROVE FALSE
    OBVIOUS
  <1>1. \A s \in SUBSET S : IsFiniteSet(s) /\ SumOf(w, s) \in Nat
    BY FS_Subset, SumIsNat
  <1>2. PICK t \in Bad : \A u \in Bad : Cardinality(t) <= Cardinality(u)
    <2>1. \A s \in Bad : IsFiniteSet(s)
      BY <1>1
    <2> HIDE DEF Bad
    <2> QED BY <2>1, Smallest
  <1>3. t # {}
    <2>1. S \ {} = S /\ SumOf(w, S) \in Nat
      BY <1>1
    <2>2. SumOf(w, S) = SumOf(w, {}) + SumOf(w, S \ {})
      BY <2>1, SumStart
    <2> QED BY <1>2, <2>2
  <1>4. PICK x : x \in t
    BY <1>3
  <1>5. t \ {x} \notin Bad
    <2>1. IsFiniteSet(t)
      BY <1>1, <1>2
    <2>2. /\ Cardinality(t) \in Nat
          /\ Cardinality(t \ {x}) \in Nat /\ Cardinality(t \ {x}) < Cardinality(t)
      BY <1>4, <2>1, WithoutOne
    <2> HIDE DEF Bad
    <2> QED BY <1>2, <2>2
  <1>6. SumOf(w, S) = SumOf(w, t \ {x}) + SumOf(w, S \ (t \ {x}))
    BY <1>5
  <1>7. SumOf(w, t) = w[x] + SumOf(w, t \ {x})
    BY <1>1, <1>4, SumAny
  <1>8. SumOf(w, S \ (t \ {x})) = w[x] + SumOf(w, S \ t)
    <2>1. (S \ (t \ {x})) \ {x} = S \ t /\ x \in S \ (t \ {x})
      BY <1>4
    <2>2. \A y \in S \ (t \ {x}) : w[y] \in Nat
      OBVIOUS
    <2>3. IsFiniteSet(S \ (t \ {x}))
      BY <1>1
    <2> QED BY <2>1, <2>2, <2>3, SumAny
  <1>9. /\ w[x] \in Nat /\ SumOf(w, t \ {x}) \in Nat
        /\ SumOf(w, S \ t) \in Nat
    BY <1>1, <1>4
  <1>10. SumOf(w, S) = SumOf(w, t) + SumOf(w, S \ t)
    BY <1>6, <1>7, <1>8, <1>9
  <1> QED BY <1>2, <1>10

\* Sums of the same numbers are the same.
LEMMA SumSame ==
    ASSUME NEW S, IsFiniteSet(S), NEW v, NEW w, \A x \in S : v[x] = w[x]
    PROVE  SumOf(v, S) = SumOf(w, S)
  <1> DEFINE Bad == {s \in SUBSET S : SumOf(v, s) # SumOf(w, s)}
  <1> SUFFICES ASSUME Bad # {} PROVE FALSE
    OBVIOUS
  <1>1. \A s \in Bad : IsFiniteSet(s)
    BY FS_Subset
  <1>2. PICK s \in Bad : \A t \in Bad : Cardinality(s) <= Cardinality(t)
    <2> HIDE DEF Bad
    <2> QED BY <1>1, Smallest
  <1>3. s # {}
    <2>1. SumOf(v, {}) = 0 /\ SumOf(w, {}) = 0
      BY SumStart
    <2> QED BY <1>2, <2>1
  <1>4. /\ First(s) \in s
        /\ SumOf(v, s) = v[First(s)] + SumOf(v, s \ {First(s)})
        /\ SumOf(w, s) = w[First(s)] + SumOf(w, s \ {First(s)})
    BY <1>1, <1>2, <1>3, SumFirst
  <1>5. s \ {First(s)} \notin Bad
    BY <1>1, <1>2, <1>4, WithoutOne
  <1>6. SumOf(v, s \ {First(s)}) = SumOf(w, s \ {First(s)})
    BY <1>4, <1>5
  <1> QED BY <1>2, <1>4, <1>6

\* A sum of nothing but zeros is zero.
LEMMA SumOfZeros ==
    ASSUME NEW S, IsFiniteSet(S), NEW w, \A x \in S : w[x] = 0
    PROVE  SumOf(w, S) = 0
  <1> DEFINE Bad == {s \in SUBSET S : SumOf(w, s) # 0}
  <1> SUFFICES ASSUME Bad # {} PROVE FALSE
    OBVIOUS
  <1>1. \A s \in Bad : IsFiniteSet(s)
    BY FS_Subset
  <1>2. PICK s \in Bad : \A t \in Bad : Cardinality(s) <= Cardinality(t)
    <2> HIDE DEF Bad
    <2> QED BY <1>1, Smallest
  <1>3. s # {}
    BY <1>2, SumStart
  <1>4. First(s) \in s /\ SumOf(w, s) = w[First(s)] + SumOf(w, s \ {First(s)})
    BY <1>1, <1>2, <1>3, SumFirst
  <1>5. s \ {First(s)} \notin Bad
    BY <1>1, <1>2, <1>4, WithoutOne
  <1>6. SumOf(w, s \ {First(s)}) = 0 /\ w[First(s)] = 0
    BY <1>4, <1>5
  <1> QED BY <1>2, <1>4, <1>6

-----------------------------------------------------------------------------
(* The inductive invariant.                                                *)

Caches ==
    [records : [Ids -> Records \cup {None}],
     expirations : SUBSET ((0..Window) \X Ids), total : Nat]

\* A cache of the limiter is consistent.
CacheOK(c) ==
    /\ c \in Caches
    /\ c.total = Weight(c, Ids)
    /\ \A id \in Ids :
          c.records[id] # None => <<c.records[id].left, id>> \in c.expirations

\* The types of what the requests keep.
GuardTypes ==
    /\ phase \in [Attempts -> {"new", "armed", "releasing", "dropped",
                               "settling", "freeing", "orphaned", "over"}]
    /\ beat \in [Attempts -> {"off", "wait", "renew", "restore", "release"}]
    /\ cancelled \in [Attempts -> BOOLEAN] /\ stopped \in [Attempts -> BOOLEAN]
    /\ usage \in [Attempts -> Usages \cup {None}]
    /\ age \in [Attempts -> 0..Window]
    /\ charged \in [Attempts -> Nat]
    /\ faults \in 0..MaxFaults

\* A usage that was entered stays in the window until it is as old as that.
ChargeOK(r) ==
    /\ phase[r] \in {"settling", "freeing", "orphaned"} => usage[r] # None
    /\ charged[r] <= 1
    /\ charged[r] = 1 =>
          /\ usage[r] # None
          /\ \/ age[r] = Window
             \/ /\ KindIn(Cache, Terminal[r]) = "terminal"
                /\ records[Terminal[r]].left = Window - age[r]

\* Without faults, a heartbeat that goes on after the attempt is told to stop,
\* and then releases what it put back.
EndOK(r) ==
    /\ phase[r] = "new" => beat[r] = "off"
    /\ phase[r] = "dropped" => cancelled[r] \/ beat[r] = "off"
    /\ phase[r] = "releasing" => cancelled[r]
    /\ phase[r] = "freeing" => stopped[r]
    /\ phase[r] = "over" =>
          /\ beat[r] # "off" => Stopped(r)
          /\ beat[r] = "off" => KindIn(Cache, r) # "reserved"

TokenInductive ==
    /\ CacheOK(Cache)
    /\ GuardTypes
    /\ \A r \in Attempts : ChargeOK(r)
    /\ faults = 0 => \A r \in Attempts : EndOK(r)

-----------------------------------------------------------------------------
(* What the calls of the cache do.                                         *)

\* The tokens of each record.
Tokens(c) ==
    [id \in Ids |-> IF c.records[id] = None THEN 0 ELSE c.records[id].tokens]

\* What is left of the records when the expired ones are gone.
LiveOf(c) ==
    [id \in Ids |-> IF c.records[id] = None \/ c.records[id].left = 0
                        THEN None ELSE c.records[id]]

\* There are finitely many ids.
LEMMA IdsFinite == IsFiniteSet(Ids)
  <1>1. IsFiniteSet({Terminal[r] : r \in Attempts})
    <2> DEFINE T == {Terminal[r] : r \in Attempts}
               f == [r \in Attempts |-> Terminal[r]]
    <2>1. f \in Surjection(Attempts, T)
      BY DEF Surjection
    <2> HIDE DEF T, f
    <2>2. IsFiniteSet(T)
      BY <2>1, TokenAssumption, FS_Surjection
    <2> QED BY <2>2 DEF T
  <1> QED BY <1>1, TokenAssumption, FS_Union DEF Ids

\* A record is not None, and has its fields.
LEMMA RecordFields ==
    ASSUME NEW kind \in {"reserved", "terminal"}, NEW n \in Nat,
           NEW left \in 0..Window
    PROVE  /\ Rec(kind, n, left) \in Records /\ Rec(kind, n, left) # None
           /\ Rec(kind, n, left).kind = kind /\ Rec(kind, n, left).tokens = n
           /\ Rec(kind, n, left).left = left
  <1>1. Rec(kind, n, left) \in Records
    BY DEF Rec, Records
  <1> QED BY <1>1, TokenAssumption DEF Rec

\* The weight of a set of records is the sum of their tokens.
LEMMA WeightIsSum ==
    ASSUME NEW c, NEW S \in SUBSET Ids
    PROVE  Weight(c, S) = SumOf(Tokens(c), S)
  <1> DEFINE
        Tok(x) == IF c.records[x] = None THEN 0 ELSE c.records[x].tokens
        Same(h) == h = [s \in SUBSET S |-> IF s = {} THEN 0
                            ELSE Tok(CHOOSE x \in s : TRUE)
                                     + h[s \ {CHOOSE x \in s : TRUE}]]
        h == CHOOSE g : Same(g)
  <1>1. PICK g : Grid(Tokens(c), S, g) /\ SumOf(Tokens(c), S) = g[S]
    BY IdsFinite, FS_Subset, SumGrid
  <1>2. ASSUME NEW k PROVE Same(k) <=> Grid(Tokens(c), S, k)
    <2>1. \A s \in SUBSET S : s # {} => Tokens(c)[First(s)] = Tok(First(s))
      BY DEF First, Tokens
    <2>2. ASSUME NEW s \in SUBSET S
          PROVE  (IF s = {} THEN 0 ELSE Tok(First(s)) + k[s \ {First(s)}])
                     = IF s = {} THEN 0
                       ELSE Tokens(c)[First(s)] + k[s \ {First(s)}]
      BY <2>1
    <2> HIDE DEF Tok
    <2> QED BY <2>2 DEF Grid, First
  <1>3. Same(g)
    BY <1>1, <1>2
  <1>4. Same(h)
    <2> HIDE DEF Same
    <2> QED BY <1>3
  <1>5. Grid(Tokens(c), S, h)
    BY <1>2, <1>4
  <1>6. h[S] = g[S]
    <2> HIDE DEF h
    <2> QED BY <1>1, <1>5, IdsFinite, FS_Subset, GridsAgree
  <1>7. Weight(c, S) = h[S]
    BY DEF Weight, MapThenSumSet, MapThenFoldSet
  <1> QED BY <1>1, <1>6, <1>7

\* The tokens of a cache are natural numbers.
LEMMA TokensNat ==
    ASSUME NEW c, c \in Caches
    PROVE  \A id \in Ids : Tokens(c)[id] \in Nat
  BY DEF Tokens, Caches, Records

\* Removing records keeps the cache consistent.
LEMMA RemoveOK ==
    ASSUME NEW c, CacheOK(c), NEW S \in SUBSET Ids
    PROVE  /\ CacheOK(Remove(c, S))
           /\ Remove(c, S).expirations = c.expirations
           /\ Remove(c, S).records =
                  [id \in Ids |-> IF id \in S THEN None ELSE c.records[id]]
  <1> DEFINE d == Remove(c, S)
             v == Tokens(c)
             w == Tokens(d)
  <1>1. /\ c \in Caches
        /\ c.total = Weight(c, Ids)
        /\ \A id \in Ids :
              c.records[id] # None => <<c.records[id].left, id>> \in c.expirations
    BY DEF CacheOK
  <1>2. /\ d.expirations = c.expirations
        /\ d.records = [id \in Ids |-> IF id \in S THEN None ELSE c.records[id]]
        /\ d.total = Minus(c.total, Weight(c, S))
        /\ d = [records |-> d.records, expirations |-> d.expirations, total |-> d.total]
    <2> DEFINE rest == [id \in Ids |-> IF id \in S THEN None ELSE c.records[id]]
               sum == Minus(c.total, Weight(c, S))
    <2>1. d = [c EXCEPT !.records = rest, !.total = sum]
      BY DEF Remove
    <2> HIDE DEF d, rest, sum
    <2>2. /\ d.expirations = c.expirations /\ d.records = rest /\ d.total = sum
          /\ d = [records |-> rest, expirations |-> c.expirations, total |-> sum]
      BY <1>1, <2>1 DEF Caches
    <2> QED BY <2>2 DEF rest, sum
  <1> HIDE DEF d
  <1>3. IsFiniteSet(S) /\ IsFiniteSet(Ids \ S) /\ Ids \ S \in SUBSET Ids
    BY IdsFinite, FS_Subset
  <1>4. Weight(c, Ids) = SumOf(v, Ids) /\ Weight(c, S) = SumOf(v, S)
    BY WeightIsSum
  <1>5. \A id \in Ids : v[id] \in Nat
    BY <1>1, TokensNat
  <1>6. \A id \in Ids : w[id] = IF id \in S THEN 0 ELSE v[id]
    BY <1>2 DEF Tokens
  <1> HIDE DEF v, w
  <1>7. SumOf(v, Ids) = SumOf(v, S) + SumOf(v, Ids \ S)
    BY <1>5, IdsFinite, SumSplit
  <1>8. SumOf(w, Ids) = SumOf(w, S) + SumOf(w, Ids \ S)
    <2>1. \A id \in Ids : w[id] \in Nat
      BY <1>5, <1>6
    <2> QED BY <2>1, IdsFinite, SumSplit
  <1>9. SumOf(w, S) = 0
    BY <1>3, <1>6, SumOfZeros
  <1>10. SumOf(w, Ids \ S) = SumOf(v, Ids \ S)
    BY <1>3, <1>6, SumSame
  <1>11. SumOf(v, S) \in Nat /\ SumOf(v, Ids \ S) \in Nat
    <2>1. \A x \in Ids \ S : v[x] \in Nat
      BY <1>5
    <2> QED BY <1>3, <1>5, <2>1, SumIsNat
  <1>12. d.total = SumOf(w, Ids) /\ d.total \in Nat
    BY <1>1, <1>2, <1>4, <1>7, <1>8, <1>9, <1>10, <1>11 DEF Minus
  <1>13. d.total = Weight(d, Ids)
    BY <1>12, WeightIsSum DEF w
  <1>14. d \in Caches
    BY <1>1, <1>2, <1>12 DEF Caches
  <1>15. CacheOK(d)
    BY <1>1, <1>2, <1>13, <1>14 DEF CacheOK
  <1> QED BY <1>2, <1>15 DEF d

\* Entering a record keeps the cache consistent.
LEMMA InsertOK ==
    ASSUME NEW c, CacheOK(c), NEW id \in Ids, NEW kind \in {"reserved", "terminal"},
           NEW n \in Nat, NEW left \in 0..Window
    PROVE  /\ CacheOK(Insert(c, id, kind, n, left))
           /\ Insert(c, id, kind, n, left).records =
                  [c.records EXCEPT ![id] = Rec(kind, n, left)]
  <1> DEFINE d == Remove(c, {id})
             e == Insert(c, id, kind, n, left)
             v == Tokens(d)
             w == Tokens(e)
  <1>1. /\ CacheOK(d) /\ d.expirations = c.expirations
        /\ d.records = [x \in Ids |-> IF x \in {id} THEN None ELSE c.records[x]]
    BY RemoveOK
  <1>2. /\ d \in Caches
        /\ d.total = Weight(d, Ids)
        /\ \A x \in Ids :
              d.records[x] # None => <<d.records[x].left, x>> \in d.expirations
    BY <1>1 DEF CacheOK
  <1>3. /\ e.expirations = d.expirations \cup {<<left, id>>}
        /\ e.records = [d.records EXCEPT ![id] = Rec(kind, n, left)]
        /\ e.total = d.total + n
        /\ e = [records |-> e.records, expirations |-> e.expirations, total |-> e.total]
    BY DEF Insert
  <1> HIDE DEF d, e
  <1>4. /\ Rec(kind, n, left) \in Records /\ Rec(kind, n, left) # None
        /\ Rec(kind, n, left).tokens = n /\ Rec(kind, n, left).left = left
    BY RecordFields
  <1>5. /\ e.records \in [Ids -> Records \cup {None}]
        /\ e.expirations \in SUBSET ((0..Window) \X Ids)
    BY <1>2, <1>3, <1>4 DEF Caches
  <1>6. /\ \A x \in Ids : v[x] \in Nat
        /\ \A x \in Ids : w[x] = IF x = id THEN n ELSE v[x]
        /\ v[id] = 0
    BY <1>1, <1>2, <1>3, <1>4, TokensNat DEF Tokens, Caches
  <1>7. d.total = SumOf(v, Ids) /\ Weight(e, Ids) = SumOf(w, Ids)
    BY <1>2, WeightIsSum
  <1> HIDE DEF v, w
  <1>8. SumOf(v, Ids) = v[id] + SumOf(v, Ids \ {id})
    BY <1>6, IdsFinite, SumAny
  <1>9. SumOf(w, Ids) = w[id] + SumOf(w, Ids \ {id})
    <2>1. \A x \in Ids : w[x] \in Nat
      BY <1>6
    <2> QED BY <2>1, IdsFinite, SumAny
  <1>10. /\ SumOf(w, Ids \ {id}) = SumOf(v, Ids \ {id})
         /\ SumOf(v, Ids \ {id}) \in Nat
    <2>1. IsFiniteSet(Ids \ {id})
      BY IdsFinite, FS_Subset
    <2>2. \A x \in Ids \ {id} : w[x] = v[x] /\ v[x] \in Nat
      BY <1>6
    <2> QED BY <2>1, <2>2, SumSame, SumIsNat
  <1>11. e.total = Weight(e, Ids) /\ e.total \in Nat
    BY <1>2, <1>3, <1>6, <1>7, <1>8, <1>9, <1>10
  <1>12. e \in Caches
    BY <1>3, <1>5, <1>11 DEF Caches
  <1>13. \A x \in Ids :
            e.records[x] # None => <<e.records[x].left, x>> \in e.expirations
    BY <1>2, <1>3, <1>4 DEF Caches
  <1>14. e.records = [c.records EXCEPT ![id] = Rec(kind, n, left)]
    <2>1. c.records \in [Ids -> Records \cup {None}]
      BY DEF CacheOK, Caches
    <2> QED BY <1>1, <1>3, <2>1
  <1>15. CacheOK(e)
    BY <1>11, <1>12, <1>13 DEF CacheOK
  <1> QED BY <1>14, <1>15 DEF e

\* Pruning keeps the cache consistent and leaves the live records: each expired
\* one has its expiry on the heap.
LEMMA PruneOK ==
    ASSUME NEW c, CacheOK(c)
    PROVE  CacheOK(Prune(c)) /\ Prune(c).records = LiveOf(c)
  <1> DEFINE due == {x \in c.expirations : x[1] = 0}
             expired == {id \in {x[2] : x \in due} :
                            c.records[id] # None /\ c.records[id].left = 0}
             d == Remove(c, expired)
             e == Prune(c)
  <1>1. /\ c \in Caches
        /\ \A id \in Ids :
              c.records[id] # None => <<c.records[id].left, id>> \in c.expirations
    BY DEF CacheOK
  <1>2. expired \in SUBSET Ids
    BY <1>1 DEF Caches
  <1>3. \A id \in Ids :
           id \in expired <=> c.records[id] # None /\ c.records[id].left = 0
    <2> SUFFICES ASSUME NEW id \in Ids, c.records[id] # None, c.records[id].left = 0
                 PROVE  id \in expired
      OBVIOUS
    <2>1. <<0, id>> \in c.expirations
      BY <1>1
    <2>2. <<0, id>> \in due /\ id = <<0, id>>[2]
      BY <2>1
    <2> QED BY <2>2
  <1>4. e = [d EXCEPT !.expirations = @ \ due]
    BY DEF Prune
  <1> HIDE DEF expired
  <1>5. /\ CacheOK(d) /\ d.expirations = c.expirations
        /\ d.records = [id \in Ids |-> IF id \in expired THEN None ELSE c.records[id]]
    BY <1>2, RemoveOK
  <1>6. d \in Caches /\ d.total = Weight(d, Ids)
    BY <1>5 DEF CacheOK
  <1> HIDE DEF d, e
  <1>7. /\ e.records = d.records /\ e.total = d.total
        /\ e.expirations = c.expirations \ due
        /\ e \in Caches
    BY <1>4, <1>5, <1>6 DEF Caches
  <1>8. e.total = Weight(e, Ids)
    <2>1. Tokens(e) = Tokens(d)
      BY <1>7 DEF Tokens
    <2> QED BY <1>6, <1>7, <2>1, WeightIsSum
  <1>9. e.records = LiveOf(c)
    BY <1>3, <1>5, <1>7 DEF LiveOf
  <1>10. ASSUME NEW id \in Ids, e.records[id] # None
         PROVE  <<e.records[id].left, id>> \in e.expirations
    <2>1. e.records[id] = c.records[id] /\ c.records[id] # None /\ c.records[id].left # 0
      BY <1>9, <1>10 DEF LiveOf
    <2>2. <<c.records[id].left, id>> \in c.expirations
      BY <1>1, <2>1
    <2> QED BY <1>7, <2>1, <2>2
  <1>11. CacheOK(e)
    BY <1>7, <1>8, <1>10 DEF CacheOK
  <1> QED BY <1>9, <1>11 DEF e

\* The constants that the calls enter are of the right kind.
LEMMA ConstantsFit ==
    /\ Window \in Nat /\ Window > 0 /\ Window \in 0..Window
    /\ \A r \in Attempts :
          Predicted[r] \in Nat /\ r \in Ids /\ Terminal[r] \in Ids
  BY TokenAssumption DEF Ids

\* The record of an id, by its kind.
LEMMA KindOfRecord ==
    ASSUME NEW c, CacheOK(c), NEW id \in Ids
    PROVE  /\ KindIn(c, id) \in {"none", "reserved", "terminal"}
           /\ KindIn(c, id) = "none" <=> c.records[id] = None
           /\ c.records[id] # None =>
                  c.records[id] \in Records /\ KindIn(c, id) = c.records[id].kind
  <1>1. c.records[id] \in Records \cup {None}
    BY DEF CacheOK, Caches
  <1> QED BY <1>1 DEF KindIn, Records

LEMMA RestoredOK ==
    ASSUME NEW c, CacheOK(c), NEW r \in Attempts
    PROVE  /\ CacheOK(Restored(c, r))
           /\ Restored(c, r).records =
                  [c.records EXCEPT ![r] = Rec("reserved", Predicted[r], Window)]
  BY ConstantsFit, InsertOK DEF Restored

LEMMA ReservedOK ==
    ASSUME NEW c, CacheOK(c), NEW r \in Attempts
    PROVE  /\ CacheOK(Reserved(c, r))
           /\ Reserved(c, r).records =
                  IF c.records[r] = None
                      THEN [c.records EXCEPT ![r] =
                                Rec("reserved", Predicted[r], Window)]
                      ELSE c.records
  BY ConstantsFit, InsertOK DEF Reserved

LEMMA ReleasedOK ==
    ASSUME NEW c, CacheOK(c), NEW r \in Attempts
    PROVE  /\ CacheOK(Released(c, r))
           /\ Released(c, r).records =
                  IF KindIn(c, r) = "reserved"
                      THEN [c.records EXCEPT ![r] = None] ELSE c.records
  <1>1. r \in Ids /\ {r} \in SUBSET Ids
    BY ConstantsFit
  <1>2. c.records \in [Ids -> Records \cup {None}]
    BY DEF CacheOK, Caches
  <1>3. /\ CacheOK(Remove(c, {r}))
        /\ Remove(c, {r}).records = [id \in Ids |-> IF id \in {r} THEN None ELSE c.records[id]]
    BY <1>1, RemoveOK
  <1>4. [id \in Ids |-> IF id \in {r} THEN None ELSE c.records[id]]
            = [c.records EXCEPT ![r] = None]
    BY <1>2
  <1> QED BY <1>3, <1>4 DEF Released

\* A renewal moves an expiry and no tokens.
LEMMA RenewedOK ==
    ASSUME NEW c, CacheOK(c), NEW r \in Attempts, Renewable(c, r)
    PROVE  /\ CacheOK(Renewed(c, r))
           /\ Renewed(c, r).records =
                  [c.records EXCEPT ![r] = Rec("reserved", Predicted[r], Window)]
  <1> DEFINE new == Rec("reserved", Predicted[r], Window)
             d == Renewed(c, r)
  <1>1. /\ c \in Caches /\ c.records \in [Ids -> Records \cup {None}]
        /\ c.total = Weight(c, Ids)
        /\ \A id \in Ids :
              c.records[id] # None => <<c.records[id].left, id>> \in c.expirations
    BY DEF CacheOK, Caches
  <1>2. r \in Ids
    BY ConstantsFit
  <1>3. /\ c.records[r] # None /\ c.records[r] \in Records
        /\ c.records[r].kind = "reserved" /\ c.records[r].tokens = Predicted[r]
    BY <1>2, KindOfRecord DEF Renewable
  <1>4. [c.records[r] EXCEPT !.left = Window] = new
    BY <1>3, ConstantsFit DEF Records, Rec
  <1>5. d = [records |-> [c.records EXCEPT ![r] = new],
             expirations |-> c.expirations \cup {<<Window, r>>}, total |-> c.total]
    <2>1. d = [[c EXCEPT !.records = [c.records EXCEPT ![r] =
                                         [c.records[r] EXCEPT !.left = Window]]]
                  EXCEPT !.expirations = c.expirations \cup {<<Window, r>>}]
      <3>1. d = [[c EXCEPT !.records[r].left = Window]
                  EXCEPT !.expirations = @ \cup {<<Window, r>>}]
        BY Zenon DEF Renewed
      <3>2. [c EXCEPT !.records[r].left = Window]
              = [c EXCEPT !.records = [c.records EXCEPT ![r] =
                                          [c.records[r] EXCEPT !.left = Window]]]
        BY <1>1, <1>2, <1>3 DEF Caches
      <3> QED BY <3>1, <3>2, <1>1 DEF Caches
    <2> HIDE DEF d, new
    <2> QED BY <1>1, <1>4, <2>1 DEF Caches
  <1>6. /\ new \in Records /\ new # None /\ new.tokens = Predicted[r]
        /\ new.left = Window
    BY ConstantsFit, RecordFields
  <1> HIDE DEF d, new
  <1>7. d \in Caches
    BY <1>1, <1>2, <1>5, <1>6, ConstantsFit DEF Caches
  <1>8. Tokens(d) = Tokens(c)
    BY <1>1, <1>2, <1>3, <1>5, <1>6 DEF Tokens
  <1>9. d.total = Weight(d, Ids)
    BY <1>1, <1>5, <1>8, WeightIsSum
  <1>10. \A id \in Ids :
            d.records[id] # None => <<d.records[id].left, id>> \in d.expirations
    BY <1>1, <1>2, <1>5, <1>6
  <1>11. CacheOK(d)
    BY <1>7, <1>9, <1>10 DEF CacheOK
  <1> QED BY <1>5, <1>11 DEF d, new

\* A settlement enters the usage once, and takes nothing of others away.
LEMMA ReconciledOK ==
    ASSUME NEW c, CacheOK(c), NEW r \in Attempts, NEW n \in Nat, NEW a \in 0..Window
    PROVE  /\ CacheOK(Reconciled(c, r, n, a))
           /\ Reconciled(c, r, n, a).records =
                  IF Enters(c, r, a)
                      THEN [Released(c, r).records EXCEPT ![Terminal[r]] =
                                Rec("terminal", n, Window - a)]
                      ELSE Released(c, r).records
  <1>1. CacheOK(Released(c, r))
    BY ReleasedOK
  <1>2. Window - a \in 0..Window /\ Terminal[r] \in Ids
    BY ConstantsFit
  <1>3. LET d == Insert(Released(c, r), Terminal[r], "terminal", n, Window - a)
        IN  /\ CacheOK(d)
            /\ d.records = [Released(c, r).records EXCEPT ![Terminal[r]] =
                                Rec("terminal", n, Window - a)]
    BY <1>1, <1>2, InsertOK
  <1> QED BY <1>1, <1>3 DEF Reconciled

-----------------------------------------------------------------------------
(* A call of attempt r takes the cache from c to d.                        *)

\* Usage that is in the window stays there.
UsageKept(c, d) ==
    \A id \in Ids :
        KindIn(c, id) = "terminal" /\ c.records[id].left # 0 =>
            d.records[id] = c.records[id]

\* Nobody gets a reservation but r.
OthersNotReserved(c, d, r) ==
    \A id \in Ids \ {r} : KindIn(d, id) = "reserved" => KindIn(c, id) = "reserved"

Call(c, d, r) == CacheOK(d) /\ UsageKept(c, d) /\ OthersNotReserved(c, d, r)

LEMMA CallNothing ==
    ASSUME NEW c, CacheOK(c), NEW r
    PROVE  Call(c, c, r)
  BY DEF Call, UsageKept, OthersNotReserved

LEMMA CallPrune ==
    ASSUME NEW c, CacheOK(c), NEW r
    PROVE  Call(c, Prune(c), r)
  <1>1. CacheOK(Prune(c)) /\ Prune(c).records = LiveOf(c)
    BY PruneOK
  <1>2. UsageKept(c, Prune(c))
    <2> SUFFICES ASSUME NEW id \in Ids, KindIn(c, id) = "terminal",
                        c.records[id].left # 0
                 PROVE  Prune(c).records[id] = c.records[id]
      BY DEF UsageKept
    <2> QED BY <1>1 DEF LiveOf, KindIn
  <1>3. OthersNotReserved(c, Prune(c), r)
    BY <1>1 DEF OthersNotReserved, LiveOf, KindIn
  <1> QED BY <1>1, <1>2, <1>3 DEF Call

\* Calls follow one another: after a prune nothing in the window is expired.
LEMMA CallAfterPrune ==
    ASSUME NEW c, CacheOK(c), NEW r, NEW d, Call(Prune(c), d, r)
    PROVE  Call(c, d, r)
  <1>1. Call(c, Prune(c), r)
    BY CallPrune
  <1>2. UsageKept(c, d)
    <2> SUFFICES ASSUME NEW id \in Ids, KindIn(c, id) = "terminal",
                        c.records[id].left # 0
                 PROVE  d.records[id] = c.records[id]
      BY DEF UsageKept
    <2>1. Prune(c).records[id] = c.records[id]
      BY <1>1 DEF Call, UsageKept
    <2>2. KindIn(Prune(c), id) = "terminal"
      BY <2>1 DEF KindIn
    <2> QED BY <2>1, <2>2 DEF Call, UsageKept
  <1> QED BY <1>1, <1>2 DEF Call, OthersNotReserved

\* A reservation that is made where there is none, or renewed, is such a call.
LEMMA CallReserves ==
    ASSUME NEW c, CacheOK(c), NEW r \in Attempts, NEW d, CacheOK(d),
           KindIn(c, r) # "terminal",
           d.records = [c.records EXCEPT ![r] = Rec("reserved", Predicted[r], Window)]
    PROVE  Call(c, d, r)
  <1>1. c.records \in [Ids -> Records \cup {None}]
    BY DEF CacheOK, Caches
  <1>2. \A id \in Ids \ {r} : d.records[id] = c.records[id]
    BY <1>1
  <1>3. UsageKept(c, d)
    BY <1>2 DEF UsageKept
  <1>4. OthersNotReserved(c, d, r)
    BY <1>2 DEF OthersNotReserved, KindIn
  <1> QED BY <1>3, <1>4 DEF Call

LEMMA CallReserved ==
    ASSUME NEW c, CacheOK(c), NEW r \in Attempts, ReserveFits(Prune(c), r)
    PROVE  Call(c, Reserved(Prune(c), r), r)
  <1> DEFINE p == Prune(c)
  <1>1. CacheOK(p)
    BY PruneOK
  <1> HIDE DEF p
  <1>2. Call(p, Reserved(p, r), r)
    <2>1. CASE p.records[r] = None
      <3>1. KindIn(p, r) # "terminal"
        BY <2>1 DEF KindIn
      <3> QED BY <1>1, <2>1, <3>1, ReservedOK, CallReserves
    <2>2. CASE p.records[r] # None
      BY <1>1, <2>2, CallNothing DEF Reserved
    <2> QED BY <2>1, <2>2
  <1> QED BY <1>2, CallAfterPrune DEF p

LEMMA CallRestored ==
    ASSUME NEW c, CacheOK(c), NEW r \in Attempts, Restorable(Prune(c), r)
    PROVE  Call(c, Restored(Prune(c), r), r)
  <1>1. CacheOK(Prune(c)) /\ KindIn(Prune(c), r) # "terminal"
    BY PruneOK DEF Restorable, KindIn
  <1>2. Call(Prune(c), Restored(Prune(c), r), r)
    BY <1>1, RestoredOK, CallReserves
  <1> QED BY <1>2, CallAfterPrune

LEMMA CallRenewed ==
    ASSUME NEW c, CacheOK(c), NEW r \in Attempts, Renewable(Prune(c), r)
    PROVE  Call(c, Renewed(Prune(c), r), r)
  <1>1. CacheOK(Prune(c)) /\ KindIn(Prune(c), r) # "terminal"
    BY PruneOK DEF Renewable
  <1>2. Call(Prune(c), Renewed(Prune(c), r), r)
    BY <1>1, RenewedOK, CallReserves
  <1> QED BY <1>2, CallAfterPrune

\* After a release the attempt has no reservation.
LEMMA CallReleased ==
    ASSUME NEW c, CacheOK(c), NEW r \in Attempts
    PROVE  /\ Call(c, Released(Prune(c), r), r)
           /\ Call(Prune(c), Released(Prune(c), r), r)
           /\ KindIn(Released(Prune(c), r), r) # "reserved"
  <1> DEFINE p == Prune(c)
             d == Released(p, r)
  <1>1. CacheOK(p)
    BY PruneOK
  <1> HIDE DEF p
  <1>2. /\ CacheOK(d)
        /\ d.records = IF KindIn(p, r) = "reserved"
                           THEN [p.records EXCEPT ![r] = None] ELSE p.records
    BY <1>1, ReleasedOK
  <1> HIDE DEF d
  <1>3. p.records \in [Ids -> Records \cup {None}] /\ r \in Ids
    BY <1>1, ConstantsFit DEF CacheOK, Caches
  <1>4. UsageKept(p, d)
    <2> SUFFICES ASSUME NEW id \in Ids, KindIn(p, id) = "terminal"
                 PROVE  d.records[id] = p.records[id]
      BY DEF UsageKept
    <2> QED BY <1>2, <1>3
  <1>5. OthersNotReserved(p, d, r)
    <2> SUFFICES ASSUME NEW id \in Ids \ {r}
                 PROVE  d.records[id] = p.records[id]
      BY DEF OthersNotReserved, KindIn
    <2> QED BY <1>2, <1>3
  <1>6. KindIn(d, r) # "reserved"
    BY <1>2, <1>3 DEF KindIn
  <1>7. Call(p, d, r)
    BY <1>2, <1>4, <1>5 DEF Call
  <1> QED BY <1>6, <1>7, CallAfterPrune DEF p, d

\* A settlement leaves no reservation, and its usage if it entered it.
LEMMA CallReconciled ==
    ASSUME NEW c, CacheOK(c), NEW r \in Attempts, NEW n \in Nat, NEW a \in 0..Window
    PROVE  LET p == Prune(c)
               d == Reconciled(p, r, n, a)
           IN  /\ Call(c, d, r)
               /\ KindIn(d, r) # "reserved"
               /\ Enters(p, r, a) =>
                      /\ KindIn(d, Terminal[r]) = "terminal"
                      /\ d.records[Terminal[r]].left = Window - a
               /\ Enters(p, r, a) =>
                      /\ a # Window
                      /\ KindIn(c, Terminal[r]) = "terminal" =>
                             c.records[Terminal[r]].left = 0
  <1> DEFINE p == Prune(c)
             f == Released(p, r)
             d == Reconciled(p, r, n, a)
             new == Rec("terminal", n, Window - a)
  <1>1. CacheOK(p) /\ CacheOK(f) /\ Call(c, f, r) /\ KindIn(f, r) # "reserved"
    BY PruneOK, CallReleased DEF Call
  <1>2. /\ CacheOK(d)
        /\ d.records = IF Enters(p, r, a)
                           THEN [f.records EXCEPT ![Terminal[r]] = new]
                           ELSE f.records
    BY <1>1, ReconciledOK
  <1>3. Enters(p, r, a) <=> f.records[Terminal[r]] = None /\ a < Window
    BY DEF Enters
  <1>4. Window - a \in 0..Window /\ Terminal[r] \in Ids /\ r \in Ids
    BY ConstantsFit
  <1>5. new # None /\ new.kind = "terminal" /\ new.left = Window - a
    BY <1>4, RecordFields
  <1>6. f.records \in [Ids -> Records \cup {None}]
    BY <1>1 DEF CacheOK, Caches
  <1> HIDE DEF p, f, d, new
  <1>7. UsageKept(c, d)
    <2> SUFFICES ASSUME NEW id \in Ids, KindIn(c, id) = "terminal",
                        c.records[id].left # 0
                 PROVE  d.records[id] = c.records[id]
      BY DEF UsageKept
    <2>1. f.records[id] = c.records[id] /\ c.records[id] # None
      BY <1>1 DEF Call, UsageKept, KindIn
    <2> QED BY <1>2, <1>3, <1>6, <2>1
  <1>8. ASSUME NEW id \in Ids, KindIn(d, id) = "reserved"
        PROVE  id # r /\ KindIn(c, id) = "reserved"
    <2>1. d.records[id] = f.records[id] \/ d.records[id] = new
      BY <1>2, <1>6
    <2>2. KindIn(f, id) = "reserved"
      BY <1>5, <1>8, <2>1 DEF KindIn
    <2> QED BY <1>1, <2>2 DEF Call, OthersNotReserved
  <1>9. Call(c, d, r) /\ KindIn(d, r) # "reserved"
    BY <1>2, <1>4, <1>7, <1>8 DEF Call, OthersNotReserved
  <1>10. ASSUME Enters(p, r, a)
         PROVE  /\ KindIn(d, Terminal[r]) = "terminal"
                /\ d.records[Terminal[r]].left = Window - a
    <2>1. d.records[Terminal[r]] = new
      BY <1>2, <1>4, <1>6, <1>10
    <2> QED BY <1>5, <2>1 DEF KindIn
  <1>11. ASSUME Enters(p, r, a), KindIn(c, Terminal[r]) = "terminal"
         PROVE  c.records[Terminal[r]].left = 0
    <2>1. c.records[Terminal[r]] # None
      BY <1>11 DEF KindIn
    <2> QED BY <1>1, <1>3, <1>4, <1>11, <2>1 DEF Call, UsageKept
  <1> QED BY <1>3, <1>9, <1>10, <1>11, ConstantsFit DEF p, d

-----------------------------------------------------------------------------
(* The steps keep the invariant.                                           *)

LEMMA BecomesIs ==
    ASSUME NEW d, CacheOK(d), Becomes(d)
    PROVE  Cache' = d
  BY DEF CacheOK, Caches, Becomes, Cache

\* A call of r, in the state.
LEMMA CallStep ==
    ASSUME NEW r, NEW d, Call(Cache, d, r), Becomes(d)
    PROVE  Call(Cache, Cache', r) /\ Cache' = d
  <1>1. Cache' = d
    BY BecomesIs DEF Call
  <1> QED BY <1>1

LEMMA NoCallStep ==
    ASSUME CacheOK(Cache), UNCHANGED cacheVars, NEW r
    PROVE  Call(Cache, Cache', r) /\ Cache' = Cache
  <1>1. Cache' = Cache
    BY DEF Cache, cacheVars
  <1> QED BY <1>1, CallNothing

\* What was entered for an attempt stays entered while its own state stays.
LEMMA ChargeKept ==
    ASSUME TokenInductive, NEW r, Call(Cache, Cache', r), NEW q \in Attempts,
           UNCHANGED <<usage[q], age[q], charged[q]>>,
           phase'[q] \in {"settling", "freeing", "orphaned"} =>
               phase[q] \in {"settling", "freeing", "orphaned"}
    PROVE  ChargeOK(q)'
  <1>1. ChargeOK(q) /\ Terminal[q] \in Ids /\ GuardTypes
    BY ConstantsFit DEF TokenInductive
  <1>2. ASSUME charged[q] = 1, age[q] # Window
        PROVE  /\ KindIn(Cache', Terminal[q]) = "terminal"
               /\ records'[Terminal[q]].left = Window - age[q]
    <2>1. /\ KindIn(Cache, Terminal[q]) = "terminal"
          /\ records[Terminal[q]].left = Window - age[q]
      BY <1>1, <1>2 DEF ChargeOK
    <2>2. records[Terminal[q]].left # 0
      BY <1>1, <1>2, <2>1, ConstantsFit DEF GuardTypes
    <2>3. records'[Terminal[q]] = records[Terminal[q]]
      BY <1>1, <2>1, <2>2 DEF Call, UsageKept, Cache
    <2> QED BY <2>1, <2>3 DEF KindIn, Cache
  <1> QED BY <1>1, <1>2 DEF ChargeOK

\* An attempt whose own state stays still ends without a reservation.
LEMMA EndKept ==
    ASSUME NEW r, Call(Cache, Cache', r), NEW q \in Attempts, q # r, EndOK(q),
           UNCHANGED <<phase[q], beat[q], cancelled[q], stopped[q]>>
    PROVE  EndOK(q)'
  <1>1. KindIn(Cache', q) = "reserved" => KindIn(Cache, q) = "reserved"
    BY ConstantsFit DEF Call, OthersNotReserved
  <1> QED BY <1>1 DEF EndOK, Stopped

\* What remains to be shown of a step of attempt r.
LEMMA StepOf ==
    ASSUME TokenInductive, NEW r \in Attempts, Call(Cache, Cache', r), GuardTypes',
           \A q \in Attempts \ {r} :
               UNCHANGED <<phase[q], beat[q], cancelled[q], stopped[q], usage[q],
                           age[q], charged[q]>>,
           faults' = 0 => faults = 0,
           ChargeOK(r)', faults' = 0 => EndOK(r)'
    PROVE  TokenInductive'
  <1>1. \A q \in Attempts \ {r} : ChargeOK(q)'
    BY ChargeKept
  <1>2. ASSUME faults' = 0, NEW q \in Attempts \ {r} PROVE EndOK(q)'
    <2>1. EndOK(q)
      BY <1>2 DEF TokenInductive
    <2> QED BY <2>1, EndKept
  <1> QED BY <1>1, <1>2 DEF TokenInductive, Call

\* Types, read off the invariant.
LEMMA Typed ==
    ASSUME TokenInductive
    PROVE  CacheOK(Cache) /\ GuardTypes
  BY DEF TokenInductive

LEMMA AdmitOK ==
    ASSUME TokenInductive, NEW r \in Attempts, Admit(r)
    PROVE  TokenInductive'
  <1>1. CacheOK(Cache) /\ GuardTypes
    BY Typed
  <1>2. Call(Cache, Cache', r)
    <2>1. CASE ReserveFits(Prune(Cache), r) /\ Becomes(Reserved(Prune(Cache), r))
      BY <1>1, <2>1, CallReserved, CallStep
    <2>2. CASE Becomes(Prune(Cache))
      BY <1>1, <2>2, CallPrune, CallStep
    <2> QED BY <2>1, <2>2 DEF Admit
  <1>3. phase' \in {[phase EXCEPT ![r] = "armed"], [phase EXCEPT ![r] = "dropped"]}
    BY DEF Admit
  <1>4. GuardTypes'
    BY <1>1 DEF Admit, GuardTypes
  <1>5. ChargeOK(r)'
    BY <1>1, <1>2, <1>3, ChargeKept DEF Admit, GuardTypes
  <1>6. ASSUME faults' = 0 PROVE EndOK(r)'
    <2>1. EndOK(r)
      BY <1>6 DEF Admit, TokenInductive
    <2> QED BY <1>1, <2>1 DEF Admit, EndOK, GuardTypes
  <1> QED BY <1>1, <1>2, <1>4, <1>5, <1>6, StepOf DEF Admit, GuardTypes

LEMMA AdmitFailsOK ==
    ASSUME TokenInductive, NEW r \in Attempts, AdmitFails(r)
    PROVE  TokenInductive'
  <1>1. CacheOK(Cache) /\ GuardTypes
    BY Typed
  <1>2. Call(Cache, Cache', r)
    <2>1. CASE ReserveFits(Prune(Cache), r) /\ Becomes(Reserved(Prune(Cache), r))
      BY <1>1, <2>1, CallReserved, CallStep
    <2>2. CASE UNCHANGED cacheVars
      BY <1>1, <2>2, NoCallStep
    <2> QED BY <2>1, <2>2 DEF AdmitFails
  <1>3. GuardTypes' /\ faults' # 0
    BY <1>1, TokenAssumption DEF AdmitFails, GuardTypes, Fault
  <1>4. ChargeOK(r)'
    BY <1>1, <1>2, ChargeKept DEF AdmitFails, GuardTypes
  <1> QED BY <1>1, <1>2, <1>3, <1>4, StepOf DEF AdmitFails, GuardTypes

LEMMA DropGuardOK ==
    ASSUME TokenInductive, NEW r \in Attempts, DropGuard(r)
    PROVE  TokenInductive'
  <1>1. CacheOK(Cache) /\ GuardTypes
    BY Typed
  <1>2. Call(Cache, Cache', r) /\ Cache' = Cache
    BY <1>1, NoCallStep DEF DropGuard
  <1>3. GuardTypes'
    BY <1>1 DEF DropGuard, GuardTypes
  <1>4. ChargeOK(r)'
    BY <1>1, <1>2, ChargeKept DEF DropGuard, GuardTypes
  <1>5. ASSUME faults' = 0 PROVE EndOK(r)'
    <2>1. EndOK(r)
      BY <1>5 DEF DropGuard, TokenInductive
    <2> QED BY <1>1, <1>2, <2>1 DEF DropGuard, EndOK, GuardTypes, Stopped, Alive
  <1> QED BY <1>1, <1>2, <1>3, <1>4, <1>5, StepOf DEF DropGuard, GuardTypes

LEMMA StartReleaseOK ==
    ASSUME TokenInductive, NEW r \in Attempts, StartRelease(r)
    PROVE  TokenInductive'
  <1>1. CacheOK(Cache) /\ GuardTypes
    BY Typed
  <1>2. Call(Cache, Cache', r) /\ Cache' = Cache
    BY <1>1, NoCallStep DEF StartRelease
  <1>3. GuardTypes'
    BY <1>1 DEF StartRelease, GuardTypes
  <1>4. ChargeOK(r)'
    BY <1>1, <1>2, ChargeKept DEF StartRelease, GuardTypes
  <1>5. ASSUME faults' = 0 PROVE EndOK(r)'
    <2>1. EndOK(r)
      BY <1>5 DEF StartRelease, TokenInductive
    <2> QED BY <1>1, <1>2, <2>1 DEF StartRelease, EndOK, GuardTypes, Stopped, Alive
  <1> QED BY <1>1, <1>2, <1>3, <1>4, <1>5, StepOf DEF StartRelease, GuardTypes

LEMMA StartFreeOK ==
    ASSUME TokenInductive, NEW r \in Attempts, StartFree(r)
    PROVE  TokenInductive'
  <1>1. CacheOK(Cache) /\ GuardTypes
    BY Typed
  <1>2. Call(Cache, Cache', r) /\ Cache' = Cache
    BY <1>1, NoCallStep DEF StartFree
  <1>3. GuardTypes'
    BY <1>1 DEF StartFree, GuardTypes
  <1>4. ChargeOK(r)'
    BY <1>1, <1>2, ChargeKept DEF StartFree, GuardTypes
  <1>5. ASSUME faults' = 0 PROVE EndOK(r)'
    <2>1. EndOK(r)
      BY <1>5 DEF StartFree, TokenInductive
    <2> QED BY <1>1, <1>2, <2>1 DEF StartFree, EndOK, GuardTypes, Stopped, Alive
  <1> QED BY <1>1, <1>2, <1>3, <1>4, <1>5, StepOf DEF StartFree, GuardTypes

LEMMA AbandonOK ==
    ASSUME TokenInductive, NEW r \in Attempts, Abandon(r)
    PROVE  TokenInductive'
  <1>1. CacheOK(Cache) /\ GuardTypes
    BY Typed
  <1>2. Call(Cache, Cache', r) /\ Cache' = Cache
    BY <1>1, NoCallStep DEF Abandon
  <1>3. GuardTypes'
    BY <1>1 DEF Abandon, GuardTypes
  <1>4. ChargeOK(r)'
    BY <1>1, <1>2, ChargeKept DEF Abandon, GuardTypes
  <1>5. ASSUME faults' = 0 PROVE EndOK(r)'
    <2>1. EndOK(r)
      BY <1>5 DEF Abandon, TokenInductive
    <2> QED BY <1>1, <1>2, <2>1 DEF Abandon, EndOK, GuardTypes, Stopped, Alive
  <1> QED BY <1>1, <1>2, <1>3, <1>4, <1>5, StepOf DEF Abandon, GuardTypes

LEMMA StopOK ==
    ASSUME TokenInductive, NEW r \in Attempts, Stop(r)
    PROVE  TokenInductive'
  <1>1. CacheOK(Cache) /\ GuardTypes
    BY Typed
  <1>2. Call(Cache, Cache', r) /\ Cache' = Cache
    BY <1>1, NoCallStep DEF Stop
  <1>3. GuardTypes'
    BY <1>1 DEF Stop, GuardTypes
  <1>4. ChargeOK(r)'
    BY <1>1, <1>2, ChargeKept DEF Stop, GuardTypes
  <1>5. ASSUME faults' = 0 PROVE EndOK(r)'
    <2>1. EndOK(r)
      BY <1>5 DEF Stop, TokenInductive
    <2> QED BY <1>1, <1>2, <2>1 DEF Stop, EndOK, GuardTypes, Stopped, Alive
  <1> QED BY <1>1, <1>2, <1>3, <1>4, <1>5, StepOf DEF Stop, GuardTypes

LEMMA BeatOK ==
    ASSUME TokenInductive, NEW r \in Attempts, Beat(r)
    PROVE  TokenInductive'
  <1>1. CacheOK(Cache) /\ GuardTypes
    BY Typed
  <1>2. Call(Cache, Cache', r) /\ Cache' = Cache
    BY <1>1, NoCallStep DEF Beat
  <1>3. GuardTypes'
    BY <1>1 DEF Beat, GuardTypes
  <1>4. ChargeOK(r)'
    BY <1>1, <1>2, ChargeKept DEF Beat, GuardTypes
  <1>5. ASSUME faults' = 0 PROVE EndOK(r)'
    <2>1. EndOK(r)
      BY <1>5 DEF Beat, TokenInductive
    <2> QED BY <1>1, <1>2, <2>1 DEF Beat, EndOK, GuardTypes, Stopped, Alive
  <1> QED BY <1>1, <1>2, <1>3, <1>4, <1>5, StepOf DEF Beat, GuardTypes

LEMMA TransferOK ==
    ASSUME TokenInductive, NEW r \in Attempts, NEW n \in Usages, Transfer(r, n)
    PROVE  TokenInductive'
  <1>1. CacheOK(Cache) /\ GuardTypes /\ ChargeOK(r)
    BY DEF TokenInductive
  <1>2. Call(Cache, Cache', r) /\ Cache' = Cache /\ records' = records
    BY <1>1, NoCallStep DEF Transfer, cacheVars
  <1>3. GuardTypes'
    BY <1>1 DEF Transfer, GuardTypes
  <1>4. usage'[r] # None
    BY <1>1, TokenAssumption DEF Transfer, GuardTypes
  <1>5. ChargeOK(r)'
    BY <1>1, <1>2, <1>4 DEF Transfer, ChargeOK
  <1>6. ASSUME faults' = 0 PROVE EndOK(r)'
    <2>1. EndOK(r)
      BY <1>6 DEF Transfer, TokenInductive
    <2> QED BY <1>1, <1>2, <2>1 DEF Transfer, EndOK, GuardTypes
  <1> QED BY <1>1, <1>2, <1>3, <1>5, <1>6, StepOf DEF Transfer, GuardTypes

LEMMA FinishReleaseOK ==
    ASSUME TokenInductive, NEW r \in Attempts, FinishRelease(r)
    PROVE  TokenInductive'
  <1>1. CacheOK(Cache) /\ GuardTypes
    BY Typed
  <1>2. Call(Cache, Cache', r) /\ KindIn(Cache', r) # "reserved"
    BY <1>1, CallReleased, CallStep DEF FinishRelease
  <1>3. GuardTypes'
    BY <1>1 DEF FinishRelease, GuardTypes
  <1>4. ChargeOK(r)'
    BY <1>1, <1>2, ChargeKept DEF FinishRelease, GuardTypes
  <1>5. ASSUME faults' = 0 PROVE EndOK(r)'
    <2>1. EndOK(r)
      BY <1>5 DEF FinishRelease, TokenInductive
    <2> QED BY <1>1, <1>2, <2>1 DEF FinishRelease, EndOK, GuardTypes, Stopped
  <1> QED BY <1>1, <1>2, <1>3, <1>4, <1>5, StepOf DEF FinishRelease, GuardTypes

LEMMA ReleaseFailsOK ==
    ASSUME TokenInductive, NEW r \in Attempts, ReleaseFails(r)
    PROVE  TokenInductive'
  <1>1. CacheOK(Cache) /\ GuardTypes
    BY Typed
  <1>2. Call(Cache, Cache', r)
    <2>1. CASE Becomes(Cache)
      BY <1>1, <2>1, CallNothing, CallStep
    <2>2. CASE Becomes(Released(Prune(Cache), r))
      BY <1>1, <2>2, CallReleased, CallStep
    <2> QED BY <2>1, <2>2 DEF ReleaseFails
  <1>3. /\ phase'[r] \in {"dropped", "over", "orphaned"}
        /\ phase'[r] = "orphaned" => phase[r] = "freeing"
        /\ phase' = [phase EXCEPT ![r] = phase'[r]]
    BY <1>1 DEF ReleaseFails, GuardTypes
  <1>4. GuardTypes' /\ faults' # 0
    BY <1>1, <1>3, TokenAssumption DEF ReleaseFails, GuardTypes, Fault
  <1>5. ChargeOK(r)'
    BY <1>2, <1>3, ChargeKept DEF ReleaseFails
  <1> QED BY <1>1, <1>2, <1>3, <1>4, <1>5, StepOf DEF ReleaseFails, GuardTypes

\* What a settlement enters, it enters once: a second time the first entry is
\* still there or the usage is too old.
LEMMA SettlesOnce ==
    ASSUME TokenInductive, NEW r \in Attempts, usage[r] # None,
           Becomes(Reconciled(Prune(Cache), r, usage[r], age[r])),
           UNCHANGED <<usage[r], age[r]>>,
           charged' = [charged EXCEPT ![r] =
               @ + IF Enters(Prune(Cache), r, age[r]) THEN 1 ELSE 0]
    PROVE  /\ Call(Cache, Cache', r) /\ KindIn(Cache', r) # "reserved"
           /\ charged' \in [Attempts -> Nat] /\ ChargeOK(r)'
  <1>1. CacheOK(Cache) /\ GuardTypes /\ ChargeOK(r)
    BY DEF TokenInductive
  <1>2. usage[r] \in Nat /\ age[r] \in 0..Window /\ charged[r] \in Nat
    BY <1>1, TokenAssumption DEF GuardTypes
  <1> DEFINE p == Prune(Cache)
             d == Reconciled(p, r, usage[r], age[r])
  <1>3. /\ Call(Cache, d, r) /\ KindIn(d, r) # "reserved"
        /\ Enters(p, r, age[r]) =>
               /\ KindIn(d, Terminal[r]) = "terminal"
               /\ d.records[Terminal[r]].left = Window - age[r]
        /\ Enters(p, r, age[r]) =>
               /\ age[r] # Window
               /\ KindIn(Cache, Terminal[r]) = "terminal" =>
                      Cache.records[Terminal[r]].left = 0
    BY <1>1, <1>2, CallReconciled
  <1> HIDE DEF d, p
  <1>4. Call(Cache, Cache', r) /\ Cache' = d
    BY <1>3, CallStep DEF d, p
  <1>5. charged' \in [Attempts -> Nat]
    BY <1>1 DEF GuardTypes
  <1>6. ChargeOK(r)'
    <2>1. CASE Enters(p, r, age[r])
      <3>1. charged[r] = 0
        <4>1. charged[r] = 1 => FALSE
          BY <1>1, <1>2, <1>3, <2>1, ConstantsFit DEF ChargeOK, Cache
        <4> QED BY <1>1, <1>2, <4>1 DEF ChargeOK
      <3>2. charged'[r] = 1
        BY <1>1, <2>1, <3>1 DEF GuardTypes, p
      <3>3. KindIn(Cache', Terminal[r]) = "terminal" /\ records'[Terminal[r]].left = Window - age[r]
        BY <1>3, <1>4, <2>1 DEF Cache
      <3> QED BY <3>2, <3>3 DEF ChargeOK
    <2>2. CASE ~Enters(p, r, age[r])
      <3>1. charged'[r] = charged[r]
        BY <1>1, <1>2, <2>2 DEF GuardTypes, p
      <3>2. ASSUME charged[r] = 1, age[r] # Window
            PROVE  /\ KindIn(Cache', Terminal[r]) = "terminal"
                   /\ records'[Terminal[r]].left = Window - age[r]
        <4>1. /\ KindIn(Cache, Terminal[r]) = "terminal"
              /\ records[Terminal[r]].left = Window - age[r]
          BY <1>1, <3>2 DEF ChargeOK
        <4>2. records[Terminal[r]].left # 0
          BY <1>2, <3>2, <4>1, ConstantsFit
        <4>3. records'[Terminal[r]] = records[Terminal[r]]
          BY <1>4, <4>1, <4>2, ConstantsFit DEF Call, UsageKept, Cache
        <4> QED BY <4>1, <4>3 DEF KindIn, Cache
      <3> QED BY <1>1, <3>1, <3>2 DEF ChargeOK
    <2> QED BY <2>1, <2>2
  <1> QED BY <1>3, <1>4, <1>5, <1>6

LEMMA SettleOK ==
    ASSUME TokenInductive, NEW r \in Attempts, Settle(r)
    PROVE  TokenInductive'
  <1>1. CacheOK(Cache) /\ GuardTypes /\ ChargeOK(r)
    BY DEF TokenInductive
  <1>2. usage[r] # None
    BY <1>1 DEF Settle, ChargeOK
  <1>3. /\ Call(Cache, Cache', r) /\ KindIn(Cache', r) # "reserved"
        /\ charged' \in [Attempts -> Nat] /\ ChargeOK(r)'
    BY <1>2, SettlesOnce DEF Settle
  <1>4. GuardTypes'
    BY <1>1, <1>3 DEF Settle, GuardTypes
  <1>5. EndOK(r)'
    BY <1>1, <1>3 DEF Settle, EndOK, GuardTypes, Stopped
  <1> QED BY <1>1, <1>3, <1>4, <1>5, StepOf DEF Settle, GuardTypes

LEMMA SettleFailsOK ==
    ASSUME TokenInductive, NEW r \in Attempts, SettleFails(r)
    PROVE  TokenInductive'
  <1>1. CacheOK(Cache) /\ GuardTypes /\ ChargeOK(r)
    BY DEF TokenInductive
  <1>2. usage[r] # None
    BY <1>1 DEF SettleFails, ChargeOK
  <1>3. /\ Call(Cache, Cache', r)
        /\ charged' \in [Attempts -> Nat] /\ ChargeOK(r)'
    BY <1>2, SettlesOnce DEF SettleFails
  <1>4. GuardTypes' /\ faults' # 0
    BY <1>1, <1>3, TokenAssumption DEF SettleFails, GuardTypes, Fault
  <1> QED BY <1>1, <1>3, <1>4, StepOf DEF SettleFails, GuardTypes

LEMMA RecoverOK ==
    ASSUME TokenInductive, NEW r \in Attempts, Recover(r)
    PROVE  TokenInductive'
  <1>1. CacheOK(Cache) /\ GuardTypes
    BY Typed
  <1>2. Call(Cache, Cache', r)
    <2>1. CASE Restorable(Prune(Cache), r) /\ Becomes(Restored(Prune(Cache), r))
      BY <1>1, <2>1, CallRestored, CallStep
    <2>2. CASE Renewable(Prune(Cache), r) /\ Becomes(Renewed(Prune(Cache), r))
      BY <1>1, <2>2, CallRenewed, CallStep
    <2>3. CASE Becomes(Prune(Cache))
      BY <1>1, <2>3, CallPrune, CallStep
    <2> QED BY <2>1, <2>2, <2>3 DEF Recover
  <1>3. GuardTypes'
    BY <1>1 DEF Recover, GuardTypes
  <1>4. ChargeOK(r)'
    BY <1>1, <1>2, ChargeKept DEF Recover, GuardTypes
  <1>5. ASSUME faults' = 0 PROVE EndOK(r)'
    <2>1. EndOK(r)
      BY <1>5 DEF Recover, TokenInductive
    <2> QED BY <1>1, <1>2, <2>1 DEF Recover, EndOK, GuardTypes, Stopped
  <1> QED BY <1>1, <1>2, <1>3, <1>4, <1>5, StepOf DEF Recover, GuardTypes

LEMMA RecoverFailsOK ==
    ASSUME TokenInductive, NEW r \in Attempts, RecoverFails(r)
    PROVE  TokenInductive'
  <1>1. CacheOK(Cache) /\ GuardTypes
    BY Typed
  <1>2. Call(Cache, Cache', r)
    <2>1. CASE UNCHANGED cacheVars
      BY <1>1, <2>1, NoCallStep
    <2>2. CASE Restorable(Prune(Cache), r) /\ Becomes(Restored(Prune(Cache), r))
      BY <1>1, <2>2, CallRestored, CallStep
    <2> QED BY <2>1, <2>2 DEF RecoverFails
  <1>3. GuardTypes' /\ faults' # 0
    BY <1>1, TokenAssumption DEF RecoverFails, GuardTypes, Fault
  <1>4. ChargeOK(r)'
    BY <1>1, <1>2, ChargeKept DEF RecoverFails, GuardTypes
  <1> QED BY <1>1, <1>2, <1>3, <1>4, StepOf DEF RecoverFails, GuardTypes

LEMMA RenewLeaseOK ==
    ASSUME TokenInductive, NEW r \in Attempts, RenewLease(r)
    PROVE  TokenInductive'
  <1>1. CacheOK(Cache) /\ GuardTypes
    BY Typed
  <1>2. Call(Cache, Cache', r)
    <2>1. CASE Renewable(Prune(Cache), r) /\ Becomes(Renewed(Prune(Cache), r))
      BY <1>1, <2>1, CallRenewed, CallStep
    <2>2. CASE Becomes(Prune(Cache))
      BY <1>1, <2>2, CallPrune, CallStep
    <2> QED BY <2>1, <2>2 DEF RenewLease
  <1>3. GuardTypes'
    BY <1>1 DEF RenewLease, GuardTypes
  <1>4. ChargeOK(r)'
    BY <1>1, <1>2, ChargeKept DEF RenewLease, GuardTypes
  <1>5. ASSUME faults' = 0 PROVE EndOK(r)'
    <2>1. EndOK(r)
      BY <1>5 DEF RenewLease, TokenInductive
    <2> QED BY <1>1, <1>2, <2>1 DEF RenewLease, EndOK, GuardTypes, Stopped
  <1> QED BY <1>1, <1>2, <1>3, <1>4, <1>5, StepOf DEF RenewLease, GuardTypes

LEMMA RestoreLeaseOK ==
    ASSUME TokenInductive, NEW r \in Attempts, RestoreLease(r)
    PROVE  TokenInductive'
  <1>1. CacheOK(Cache) /\ GuardTypes
    BY Typed
  <1>2. Call(Cache, Cache', r)
    <2>1. CASE Restorable(Prune(Cache), r) /\ Becomes(Restored(Prune(Cache), r))
      BY <1>1, <2>1, CallRestored, CallStep
    <2>2. CASE Renewable(Prune(Cache), r) /\ Becomes(Renewed(Prune(Cache), r))
      BY <1>1, <2>2, CallRenewed, CallStep
    <2>3. CASE Becomes(Prune(Cache))
      BY <1>1, <2>3, CallPrune, CallStep
    <2> QED BY <2>1, <2>2, <2>3 DEF RestoreLease
  <1>3. GuardTypes'
    BY <1>1 DEF RestoreLease, GuardTypes
  <1>4. ChargeOK(r)'
    BY <1>1, <1>2, ChargeKept DEF RestoreLease, GuardTypes
  <1>5. ASSUME faults' = 0 PROVE EndOK(r)'
    <2>1. EndOK(r)
      BY <1>5 DEF RestoreLease, TokenInductive
    <2> QED BY <1>1, <1>2, <2>1 DEF RestoreLease, EndOK, GuardTypes, Stopped
  <1> QED BY <1>1, <1>2, <1>3, <1>4, <1>5, StepOf DEF RestoreLease, GuardTypes

LEMMA ReleaseLeaseOK ==
    ASSUME TokenInductive, NEW r \in Attempts, ReleaseLease(r)
    PROVE  TokenInductive'
  <1>1. CacheOK(Cache) /\ GuardTypes
    BY Typed
  <1>2. Call(Cache, Cache', r) /\ KindIn(Cache', r) # "reserved"
    BY <1>1, CallReleased, CallStep DEF ReleaseLease
  <1>3. GuardTypes'
    BY <1>1 DEF ReleaseLease, GuardTypes
  <1>4. ChargeOK(r)'
    BY <1>1, <1>2, ChargeKept DEF ReleaseLease, GuardTypes
  <1>5. ASSUME faults' = 0 PROVE EndOK(r)'
    <2>1. EndOK(r)
      BY <1>5 DEF ReleaseLease, TokenInductive
    <2> QED BY <1>1, <1>2, <2>1 DEF ReleaseLease, EndOK, GuardTypes, Stopped
  <1> QED BY <1>1, <1>2, <1>3, <1>4, <1>5, StepOf DEF ReleaseLease, GuardTypes

LEMMA LeaseFailsOK ==
    ASSUME TokenInductive, NEW r \in Attempts, LeaseFails(r)
    PROVE  TokenInductive'
  <1>1. CacheOK(Cache) /\ GuardTypes
    BY Typed
  <1>2. Call(Cache, Cache', r)
    <2>1. CASE UNCHANGED cacheVars
      BY <1>1, <2>1, NoCallStep
    <2>2. CASE Restorable(Prune(Cache), r) /\ Becomes(Restored(Prune(Cache), r))
      BY <1>1, <2>2, CallRestored, CallStep
    <2> QED BY <2>1, <2>2 DEF LeaseFails
  <1>3. GuardTypes' /\ faults' # 0
    BY <1>1, TokenAssumption DEF LeaseFails, GuardTypes, Fault
  <1>4. ChargeOK(r)'
    BY <1>1, <1>2, ChargeKept DEF LeaseFails, GuardTypes
  <1> QED BY <1>1, <1>2, <1>3, <1>4, StepOf DEF LeaseFails, GuardTypes

\* Time takes records and their expiries along together.
LEMMA PassTimeOK ==
    ASSUME TokenInductive, PassTime
    PROVE  TokenInductive'
  <1>1. CacheOK(Cache) /\ GuardTypes
    BY Typed
  <1>2. /\ records \in [Ids -> Records \cup {None}]
        /\ expirations \in SUBSET ((0..Window) \X Ids)
        /\ total \in Nat /\ total = Weight(Cache, Ids)
        /\ \A id \in Ids : records[id] # None => <<records[id].left, id>> \in expirations
    BY <1>1 DEF CacheOK, Caches, Cache
  <1>3. /\ records' = [id \in Ids |->
               IF records[id] = None THEN None
               ELSE [records[id] EXCEPT !.left = Minus(@, 1)]]
        /\ expirations' = {<<Minus(x[1], 1), x[2]>> : x \in expirations}
        /\ total' = total
    BY DEF PassTime
  <1>4. ASSUME NEW id \in Ids, records[id] # None
        PROVE  /\ records'[id] \in Records /\ records'[id] # None
               /\ records'[id].kind = records[id].kind
               /\ records'[id].tokens = records[id].tokens
               /\ records'[id].left = Minus(records[id].left, 1)
    <2>1. records[id] \in Records /\ records'[id] = [records[id] EXCEPT !.left = Minus(@, 1)]
      BY <1>2, <1>3, <1>4
    <2>2. Minus(records[id].left, 1) \in 0..Window
      BY <2>1, ConstantsFit DEF Minus, Records
    <2>3. records'[id] = Rec(records[id].kind, records[id].tokens, Minus(records[id].left, 1))
      BY <2>1 DEF Rec, Records
    <2>4. records[id].kind \in {"reserved", "terminal"} /\ records[id].tokens \in Nat
      BY <2>1 DEF Records
    <2> HIDE DEF Minus
    <2> QED BY <2>2, <2>3, <2>4, RecordFields
  <1>5. \A id \in Ids : records'[id] = None <=> records[id] = None
    BY <1>3, <1>4
  <1>6. Cache' \in Caches
    <2>1. records' \in [Ids -> Records \cup {None}]
      BY <1>3, <1>4, <1>5
    <2>2. ASSUME NEW x \in expirations PROVE <<Minus(x[1], 1), x[2]>> \in (0..Window) \X Ids
      BY <1>2, ConstantsFit DEF Minus
    <2> HIDE DEF Minus
    <2> QED BY <1>2, <1>3, <2>1, <2>2 DEF Caches, Cache
  <1>7. Cache'.total = Weight(Cache', Ids)
    <2>1. Tokens(Cache') = Tokens(Cache)
      BY <1>4, <1>5 DEF Tokens, Cache
    <2>2. Weight(Cache', Ids) = SumOf(Tokens(Cache'), Ids)
          /\ Weight(Cache, Ids) = SumOf(Tokens(Cache), Ids)
      BY WeightIsSum
    <2> QED BY <1>2, <1>3, <2>1, <2>2 DEF Cache
  <1>8. ASSUME NEW id \in Ids, records'[id] # None
        PROVE  <<records'[id].left, id>> \in expirations'
    <2>1. <<records[id].left, id>> \in expirations
          /\ records'[id].left = Minus(records[id].left, 1)
      BY <1>2, <1>4, <1>5, <1>8
    <2> DEFINE y == <<records[id].left, id>>
    <2>2. <<Minus(y[1], 1), y[2]>> \in expirations'
      BY <1>3, <2>1
    <2> QED BY <2>1, <2>2
  <1>9. CacheOK(Cache')
    BY <1>6, <1>7, <1>8 DEF CacheOK, Cache
  <1>10. \A id \in Ids : KindIn(Cache', id) = KindIn(Cache, id)
    BY <1>4, <1>5 DEF KindIn, Cache
  <1>11. /\ age' = [r \in Attempts |->
                IF usage[r] = None THEN 0
                ELSE IF age[r] < Window THEN age[r] + 1 ELSE Window]
         /\ UNCHANGED <<phase, beat, cancelled, stopped, usage, charged, faults>>
    BY DEF PassTime
  <1>12. GuardTypes'
    BY <1>1, <1>11, ConstantsFit DEF GuardTypes
  <1>13. ASSUME NEW r \in Attempts PROVE ChargeOK(r)'
    <2>1. ChargeOK(r) /\ Terminal[r] \in Ids
      BY ConstantsFit DEF TokenInductive
    <2>2. ASSUME charged[r] = 1, age'[r] # Window
          PROVE  /\ KindIn(Cache', Terminal[r]) = "terminal"
                 /\ records'[Terminal[r]].left = Window - age'[r]
      <3>1. usage[r] # None
        BY <2>1, <2>2 DEF ChargeOK
      <3>2. age[r] \in 0..Window /\ age[r] < Window /\ age'[r] = age[r] + 1
        BY <1>1, <1>11, <2>2, <3>1, ConstantsFit DEF GuardTypes
      <3>3. /\ KindIn(Cache, Terminal[r]) = "terminal"
            /\ records[Terminal[r]].left = Window - age[r]
        BY <2>1, <2>2, <3>2 DEF ChargeOK
      <3>4. records[Terminal[r]] # None
        BY <3>3 DEF KindIn, Cache
      <3>5. records'[Terminal[r]].left = Minus(Window - age[r], 1)
        BY <1>4, <2>1, <3>3, <3>4
      <3> QED BY <1>10, <2>1, <3>2, <3>3, <3>5, ConstantsFit DEF Minus
    <2> QED BY <1>11, <2>1, <2>2 DEF ChargeOK
  <1>14. ASSUME faults' = 0, NEW r \in Attempts PROVE EndOK(r)'
    <2>1. EndOK(r) /\ KindIn(Cache', r) = KindIn(Cache, r)
      BY <1>10, <1>11, <1>14, ConstantsFit DEF TokenInductive
    <2> QED BY <1>11, <2>1 DEF EndOK, Stopped
  <1> QED BY <1>9, <1>12, <1>13, <1>14 DEF TokenInductive

\* A step of no attempt, after which every attempt is where it was.
LEMMA StepOfNone ==
    ASSUME TokenInductive, Call(Cache, Cache', None), UNCHANGED <<guardVars, faults>>
    PROVE  TokenInductive'
  <1>1. UNCHANGED <<phase, beat, cancelled, stopped, usage, age, charged, faults>>
    BY DEF guardVars
  <1>2. GuardTypes'
    BY <1>1 DEF TokenInductive, GuardTypes
  <1>3. \A r \in Attempts : ChargeOK(r)'
    BY <1>1, ChargeKept
  <1>4. ASSUME faults' = 0, NEW r \in Attempts PROVE EndOK(r)'
    <2>1. EndOK(r) /\ r # None
      BY <1>1, <1>4, TokenAssumption DEF TokenInductive, Ids
    <2> QED BY <1>1, <2>1, EndKept
  <1> QED BY <1>2, <1>3, <1>4 DEF TokenInductive, Call

LEMMA ReadCountOK ==
    ASSUME TokenInductive, ReadCount
    PROVE  TokenInductive'
  <1>1. Call(Cache, Cache', None)
    BY Typed, CallPrune, CallStep DEF ReadCount
  <1> QED BY <1>1, StepOfNone DEF ReadCount

\* The empty cache.
Empty == [records |-> [id \in Ids |-> None], expirations |-> {}, total |-> 0]

LEMMA EmptyOK == CacheOK(Empty)
  <1>1. Empty \in Caches
    BY DEF Empty, Caches
  <1>2. \A id \in Ids : Tokens(Empty)[id] = 0
    BY DEF Tokens, Empty
  <1>3. Weight(Empty, Ids) = 0
    BY <1>2, WeightIsSum, IdsFinite, SumOfZeros
  <1> QED BY <1>1, <1>3 DEF CacheOK, Empty

LEMMA CrashOK ==
    ASSUME TokenInductive, Crash
    PROVE  TokenInductive'
  <1>1. CacheOK(Cache) /\ GuardTypes
    BY Typed
  <1>2. ASSUME NEW r \in Attempts
        PROVE  /\ phase'[r] \in {"new", "orphaned", "over"}
               /\ phase'[r] = "orphaned" =>
                      phase[r] \in {"settling", "freeing", "orphaned"}
    BY <1>1 DEF Crash, GuardTypes
  <1>3. phase' \in [Attempts -> {"new", "orphaned", "over"}]
    <2>1. phase' = [r \in Attempts |-> phase'[r]]
      BY DEF Crash
    <2> QED BY <1>2, <2>1
  <1>4. GuardTypes' /\ faults' # 0
    BY <1>1, <1>3, TokenAssumption DEF Crash, GuardTypes, Fault
  <1>5. CacheOK(Cache') /\ \A r \in Attempts : ChargeOK(r)'
    <2>1. CASE UNCHANGED <<cacheVars, charged>>
      <3>1. Call(Cache, Cache', None)
        BY <1>1, <2>1, NoCallStep
      <3>2. \A r \in Attempts : ChargeOK(r)'
        BY <1>2, <2>1, <3>1, ChargeKept DEF Crash
      <3> QED BY <3>1, <3>2 DEF Call
    <2>2. CASE Becomes(Empty) /\ charged' = [r \in Attempts |-> 0]
      <3>1. CacheOK(Cache')
        BY <2>2, EmptyOK, BecomesIs
      <3>2. ASSUME NEW r \in Attempts PROVE ChargeOK(r)'
        <4>1. ChargeOK(r)
          BY DEF TokenInductive
        <4> QED BY <1>2, <2>2, <4>1 DEF Crash, ChargeOK
      <3> QED BY <3>1, <3>2
    <2> QED BY <2>1, <2>2 DEF Crash, Empty
  <1> QED BY <1>4, <1>5 DEF TokenInductive

LEMMA TokenStep == TokenInductive /\ [TokenNext]_tokenVars => TokenInductive'
  <1> SUFFICES ASSUME TokenInductive, [TokenNext]_tokenVars PROVE TokenInductive'
    OBVIOUS
  <1>1. CASE PassTime
    BY <1>1, PassTimeOK
  <1>2. CASE ReadCount
    BY <1>2, ReadCountOK
  <1>3. CASE Crash
    BY <1>3, CrashOK
  <1>4. ASSUME NEW r \in Attempts,
               \/ Admit(r) \/ AdmitFails(r)
               \/ DropGuard(r) \/ StartRelease(r) \/ FinishRelease(r)
               \/ ReleaseFails(r)
        PROVE  TokenInductive'
    BY <1>4, AdmitOK, AdmitFailsOK, DropGuardOK, StartReleaseOK, FinishReleaseOK,
       ReleaseFailsOK
  <1>5. ASSUME NEW r \in Attempts, NEW n \in Usages, Transfer(r, n)
        PROVE  TokenInductive'
    BY <1>5, TransferOK
  <1>6. ASSUME NEW r \in Attempts,
               \/ Settle(r) \/ SettleFails(r) \/ StartFree(r)
               \/ Abandon(r) \/ Recover(r) \/ RecoverFails(r)
        PROVE  TokenInductive'
    BY <1>6, SettleOK, SettleFailsOK, StartFreeOK, AbandonOK, RecoverOK,
       RecoverFailsOK
  <1>7. ASSUME NEW r \in Attempts, BeatStep(r) \/ LeaseFails(r)
        PROVE  TokenInductive'
    BY <1>7, StopOK, BeatOK, RenewLeaseOK, RestoreLeaseOK, ReleaseLeaseOK,
       LeaseFailsOK DEF BeatStep
  <1>8. CASE UNCHANGED tokenVars
    <2>1. Call(Cache, Cache', None)
      BY <1>8, Typed, NoCallStep DEF tokenVars
    <2> QED BY <1>8, <2>1, StepOfNone DEF tokenVars
  <1> QED BY <1>1, <1>2, <1>3, <1>4, <1>5, <1>6, <1>7, <1>8 DEF TokenNext

LEMMA TokenStarts == TokenInit => TokenInductive
  <1> SUFFICES ASSUME TokenInit PROVE TokenInductive
    OBVIOUS
  <1>1. CacheOK(Cache)
    <2>1. Cache = Empty
      BY DEF TokenInit, Cache, Empty
    <2> QED BY <2>1, EmptyOK
  <1>2. GuardTypes
    BY TokenAssumption, ConstantsFit DEF TokenInit, GuardTypes
  <1>3. \A r \in Attempts : ChargeOK(r) /\ EndOK(r)
    BY DEF TokenInit, ChargeOK, EndOK
  <1> QED BY <1>1, <1>2, <1>3 DEF TokenInductive

LEMMA TokenImplies == TokenInductive => TokenInvariant
  <1> SUFFICES ASSUME TokenInductive PROVE TokenInvariant
    OBVIOUS
  <1>1. CacheOK(Cache) /\ GuardTypes
    BY Typed
  <1>2. TokenTypeOK /\ TotalMatches /\ ExpiryIndexed
    BY <1>1 DEF TokenTypeOK, GuardTypes, CacheOK, Caches, TotalMatches,
                ExpiryIndexed, Cache
  <1>3. EnteredOnce
    BY DEF TokenInductive, ChargeOK, EnteredOnce
  <1>4. EndsWithoutReservation
    BY DEF TokenInductive, EndOK, EndsWithoutReservation, Quiet
  <1> QED BY <1>2, <1>3, <1>4 DEF TokenInvariant

\* The cache is consistent and counts what its requests reserved and used, for
\* every number of attempts that share terminal ids in any way.
THEOREM TokensSafe == TokenSpec => []TokenInvariant
  <1>1. TokenInit => TokenInductive
    BY TokenStarts
  <1>2. TokenInductive /\ [TokenNext]_tokenVars => TokenInductive'
    BY TokenStep
  <1>3. TokenInductive => TokenInvariant
    BY TokenImplies
  <1> QED BY <1>1, <1>2, <1>3, PTL DEF TokenSpec

-----------------------------------------------------------------------------
(* The cache does what the scripts do: TokenSpec implements TokenWindow.   *)

\* No record of the cache is expired.
AllLive(d) == \A id \in Ids : d.records[id] # None => d.records[id].left # 0

LEMMA LiveIs == Live = LiveOf(Cache)
  BY DEF Live, LiveOf, Cache

\* After a call that pruned, the live records are the records.
LEMMA LiveAfter ==
    ASSUME NEW d, CacheOK(d), AllLive(d), Becomes(d)
    PROVE  Live' = d.records
  <1>1. d.records \in [Ids -> Records \cup {None}] /\ records' = d.records
    BY DEF CacheOK, Caches, Becomes
  <1> QED BY <1>1 DEF Live, AllLive

LEMMA PrunedIsLive ==
    ASSUME CacheOK(Cache)
    PROVE  /\ CacheOK(Prune(Cache)) /\ Prune(Cache).records = Live
           /\ AllLive(Prune(Cache))
           /\ Live \in [Ids -> Records \cup {None}]
  <1>1. CacheOK(Prune(Cache)) /\ Prune(Cache).records = LiveOf(Cache)
    BY PruneOK
  <1>2. Live \in [Ids -> Records \cup {None}]
    BY <1>1, LiveIs DEF CacheOK, Caches
  <1> QED BY <1>1, <1>2, LiveIs DEF AllLive, LiveOf

\* The kind of an id for the scripts.
LEMMA KindLive ==
    ASSUME CacheOK(Cache), NEW id
    PROVE  Shared!Kind(id) = KindIn(Prune(Cache), id)
  BY PrunedIsLive DEF Shared!Kind, KindIn

\* The total that the scripts keep is the sum of the live records.
LEMMA TotalLive ==
    ASSUME CacheOK(Cache)
    PROVE  Shared!Total(Live) = Prune(Cache).total
  <1> DEFINE p == Prune(Cache)
  <1>1. CacheOK(p) /\ p.records = Live
    BY PrunedIsLive
  <1> HIDE DEF p
  <1>2. Shared!Total(p.records) = Weight(p, Ids)
    BY DEF Shared!Total, Shared!MapThenSumSet, Shared!MapThenFoldSet,
           Weight, MapThenSumSet, MapThenFoldSet
  <1> QED BY <1>1, <1>2 DEF CacheOK, p

\* Nothing happens to the live records.
LEMMA LivePruned ==
    ASSUME CacheOK(Cache), Becomes(Prune(Cache)) \/ Becomes(Cache) \/ UNCHANGED cacheVars
    PROVE  Live' = Live
  <1>1. CASE Becomes(Prune(Cache))
    BY <1>1, PrunedIsLive, LiveAfter
  <1>2. CASE Becomes(Cache) \/ UNCHANGED cacheVars
    <2>1. records' = records
      BY <1>2 DEF Becomes, Cache, cacheVars
    <2> QED BY <2>1 DEF Live
  <1> QED BY <1>1, <1>2

\* A new record is live.
LEMMA LiveWith ==
    ASSUME NEW d, NEW recs \in [Ids -> Records \cup {None}],
           \A x \in Ids : recs[x] # None => recs[x].left # 0,
           NEW id \in Ids, NEW kind \in {"reserved", "terminal"}, NEW n \in Nat,
           NEW left \in 1..Window, d.records = [recs EXCEPT ![id] = Rec(kind, n, left)]
    PROVE  AllLive(d)
  <1>1. Rec(kind, n, left) # None /\ Rec(kind, n, left).left = left /\ left # 0
    <2>1. left \in 0..Window /\ left # 0
      BY ConstantsFit
    <2> QED BY <2>1, RecordFields
  <1> QED BY <1>1 DEF AllLive

\* A reservation is made as mode reserve of the script makes it.
LEMMA SharedReserve ==
    ASSUME CacheOK(Cache), NEW r \in Attempts, ReserveFits(Prune(Cache), r),
           Becomes(Reserved(Prune(Cache), r))
    PROVE  [Shared!Next]_Live
  <1> DEFINE p == Prune(Cache)
             d == Reserved(p, r)
  <1>1. CacheOK(p) /\ p.records = Live /\ AllLive(p) /\ Live \in [Ids -> Records \cup {None}]
    BY PrunedIsLive
  <1>2. /\ r \in Ids /\ Terminal[r] \in Ids /\ Window \in 1..Window /\ Predicted[r] \in Nat
        /\ Predicted[r] \in Usages \cup {Predicted[q] : q \in Attempts}
    BY ConstantsFit
  <1>3. CASE p.records[r] = None
    <2>1. CacheOK(d) /\ d.records = [Live EXCEPT ![r] = Rec("reserved", Predicted[r], Window)]
      BY <1>1, <1>3, ReservedOK
    <2>2. Live' = [Live EXCEPT ![r] = Rec("reserved", Predicted[r], Window)]
      <3>1. AllLive(d)
        <4>1. \A x \in Ids : Live[x] # None => Live[x].left # 0
          BY <1>1 DEF AllLive
        <4>2. /\ Rec("reserved", Predicted[r], Window) # None
              /\ Rec("reserved", Predicted[r], Window).left # 0
          BY RecordFields, ConstantsFit
        <4> HIDE DEF p, d
        <4> QED BY <1>1, <1>2, <2>1, <4>1, <4>2 DEF AllLive
      <3> QED BY <2>1, <3>1, LiveAfter
    <2>3. KindIn(p, r) # "reserved"
      BY <1>3 DEF KindIn
    <2>4. KindIn(p, Terminal[r]) # "terminal" /\ p.total + Predicted[r] <= Limit
      BY <1>3, <2>3 DEF ReserveFits
    <2>5. Shared!Reserve(r, Terminal[r], Predicted[r])
      BY <1>1, <1>3, <2>2, <2>4, KindLive, TotalLive DEF Shared!Reserve, Shared!Rec, Rec
    <2> QED BY <1>2, <2>5 DEF Shared!Next
  <1>4. CASE p.records[r] # None
    <2>1. d = p
      BY <1>4 DEF Reserved
    <2> QED BY <2>1, LivePruned
  <1> QED BY <1>3, <1>4

\* A reservation that was lost is put back as mode restore does.
LEMMA SharedRestore ==
    ASSUME CacheOK(Cache), NEW r \in Attempts, Restorable(Prune(Cache), r),
           Becomes(Restored(Prune(Cache), r))
    PROVE  [Shared!Next]_Live
  <1> DEFINE p == Prune(Cache)
             d == Restored(p, r)
  <1>1. CacheOK(p) /\ p.records = Live /\ AllLive(p) /\ Live \in [Ids -> Records \cup {None}]
    BY PrunedIsLive
  <1>2. /\ r \in Ids /\ Terminal[r] \in Ids /\ Window \in 1..Window /\ Predicted[r] \in Nat
        /\ Predicted[r] \in Usages \cup {Predicted[q] : q \in Attempts}
    BY ConstantsFit
  <1>3. CacheOK(d) /\ d.records = [Live EXCEPT ![r] = Rec("reserved", Predicted[r], Window)]
    BY <1>1, RestoredOK
  <1>4. Live' = [Live EXCEPT ![r] = Rec("reserved", Predicted[r], Window)]
    <2>1. AllLive(d)
      <3>1. \A x \in Ids : Live[x] # None => Live[x].left # 0
        BY <1>1 DEF AllLive
      <3>2. /\ Rec("reserved", Predicted[r], Window) # None
            /\ Rec("reserved", Predicted[r], Window).left # 0
        BY RecordFields, ConstantsFit
      <3> HIDE DEF p, d
      <3> QED BY <1>1, <1>2, <1>3, <3>1, <3>2 DEF AllLive
    <2> QED BY <1>3, <2>1, LiveAfter
  <1>5. Shared!Restore(r, Terminal[r], Predicted[r])
    BY <1>1, <1>4, KindLive DEF Restorable, Shared!Restore, Shared!Rec, Rec
  <1> QED BY <1>2, <1>5 DEF Shared!Next

\* A reservation is renewed as mode renew does.
LEMMA SharedRenew ==
    ASSUME CacheOK(Cache), NEW r \in Attempts, Renewable(Prune(Cache), r),
           Becomes(Renewed(Prune(Cache), r))
    PROVE  [Shared!Next]_Live
  <1> DEFINE p == Prune(Cache)
             d == Renewed(p, r)
             new == Rec("reserved", Predicted[r], Window)
  <1>1. CacheOK(p) /\ p.records = Live /\ AllLive(p) /\ Live \in [Ids -> Records \cup {None}]
    BY PrunedIsLive
  <1>2. /\ r \in Ids /\ Terminal[r] \in Ids /\ Window \in 1..Window /\ Predicted[r] \in Nat
        /\ Predicted[r] \in Usages \cup {Predicted[q] : q \in Attempts}
    BY ConstantsFit
  <1>3. CacheOK(d) /\ d.records = [Live EXCEPT ![r] = new]
    BY <1>1, RenewedOK
  <1>4. Live' = [Live EXCEPT ![r] = new]
    <2>1. AllLive(d)
      <3>1. \A x \in Ids : Live[x] # None => Live[x].left # 0
        BY <1>1 DEF AllLive
      <3>2. /\ Rec("reserved", Predicted[r], Window) # None
            /\ Rec("reserved", Predicted[r], Window).left # 0
        BY RecordFields, ConstantsFit
      <3> HIDE DEF p, d
      <3> QED BY <1>1, <1>2, <1>3, <3>1, <3>2 DEF AllLive
    <2> QED BY <1>3, <2>1, LiveAfter
  <1>5. /\ Live[r] # None /\ Live[r] \in Records
        /\ Live[r].kind = "reserved" /\ Live[r].tokens = Predicted[r]
    BY <1>1, <1>2, KindOfRecord DEF Renewable
  <1>6. [Live[r] EXCEPT !.left = Window] = new
    BY <1>5, ConstantsFit DEF Records, Rec
  <1>7. [Live EXCEPT ![r].left = Window] = [Live EXCEPT ![r] = new]
    <2> HIDE DEF new
    <2> QED BY <1>1, <1>2, <1>6
  <1>8. Shared!Renew(r, Terminal[r], Predicted[r])
    BY <1>1, <1>4, <1>5, <1>7, KindLive DEF Renewable, Shared!Renew
  <1> QED BY <1>2, <1>8 DEF Shared!Next

\* A reservation is released as the script releases it.
LEMMA SharedRelease ==
    ASSUME CacheOK(Cache), NEW r \in Attempts, Becomes(Released(Prune(Cache), r))
    PROVE  [Shared!Next]_Live
  <1> DEFINE p == Prune(Cache)
             d == Released(p, r)
  <1>1. CacheOK(p) /\ p.records = Live /\ AllLive(p) /\ Live \in [Ids -> Records \cup {None}]
    BY PrunedIsLive
  <1>2. r \in Ids
    BY ConstantsFit
  <1>3. CASE KindIn(p, r) = "reserved"
    <2>1. CacheOK(d) /\ d.records = [Live EXCEPT ![r] = None]
      BY <1>1, <1>3, ReleasedOK
    <2>2. AllLive(d)
      BY <1>1, <2>1 DEF AllLive
    <2>3. Live' = [Live EXCEPT ![r] = None]
      BY <2>1, <2>2, LiveAfter
    <2>4. Shared!Release(r)
      BY <1>3, <2>3, KindLive DEF Shared!Release
    <2> QED BY <1>2, <2>4 DEF Shared!Next
  <1>4. CASE KindIn(p, r) # "reserved"
    <2>1. d = p
      BY <1>4 DEF Released
    <2> QED BY <2>1, LivePruned
  <1> QED BY <1>3, <1>4

\* A usage is entered as the script enters it.
LEMMA SharedReconcile ==
    ASSUME CacheOK(Cache), NEW r \in Attempts, NEW n \in Usages, NEW a \in 0..Window,
           Becomes(Reconciled(Prune(Cache), r, n, a))
    PROVE  [Shared!Next]_Live
  <1> DEFINE p == Prune(Cache)
             f == Released(p, r)
             d == Reconciled(p, r, n, a)
             without == [Live EXCEPT ![r] = IF Shared!Kind(r) = "reserved" THEN None ELSE @]
  <1>1. CacheOK(p) /\ p.records = Live /\ AllLive(p) /\ Live \in [Ids -> Records \cup {None}]
    BY PrunedIsLive
  <1>2. /\ r \in Ids /\ Terminal[r] \in Ids /\ n \in Nat
        /\ n \in Usages \cup {Predicted[q] : q \in Attempts}
    BY ConstantsFit, TokenAssumption
  <1>3. /\ CacheOK(f)
        /\ f.records = IF KindIn(p, r) = "reserved" THEN [Live EXCEPT ![r] = None] ELSE Live
    BY <1>1, ReleasedOK
  <1>4. f.records = without
    <2>1. Shared!Kind(r) = KindIn(p, r)
      BY KindLive
    <2> HIDE DEF p, f
    <2> QED BY <1>1, <1>2, <1>3, <2>1
  <1>5. AllLive(f) /\ f.records \in [Ids -> Records \cup {None}]
    BY <1>1, <1>3 DEF AllLive, CacheOK, Caches
  <1>6. /\ CacheOK(d)
        /\ d.records = IF Enters(p, r, a)
                           THEN [f.records EXCEPT ![Terminal[r]] = Rec("terminal", n, Window - a)]
                           ELSE f.records
    BY <1>1, <1>2, ReconciledOK
  <1>7. Enters(p, r, a) <=> f.records[Terminal[r]] = None /\ a < Window
    BY DEF Enters
  <1> HIDE DEF f, d, p, without
  <1>8. AllLive(d)
    <2>1. CASE Enters(p, r, a)
      <3>1. Window - a \in 1..Window
        BY <1>7, <2>1, ConstantsFit
      <3>2. \A x \in Ids : f.records[x] # None => f.records[x].left # 0
        BY <1>5 DEF AllLive
      <3> QED BY <1>2, <1>5, <1>6, <2>1, <3>1, <3>2, LiveWith
    <2>2. CASE ~Enters(p, r, a)
      BY <1>5, <1>6, <2>2 DEF AllLive
    <2> QED BY <2>1, <2>2
  <1>9. Live' = d.records
    BY <1>6, <1>8, LiveAfter DEF d, p
  <1>10. Live' = IF without[Terminal[r]] # None \/ a >= Window THEN without
                 ELSE [without EXCEPT ![Terminal[r]] = Shared!Rec("terminal", n, Window - a)]
    BY <1>4, <1>6, <1>7, <1>9, ConstantsFit DEF Shared!Rec, Rec
  <1>11. Shared!Reconcile(r, Terminal[r], n, a)
    BY <1>10 DEF Shared!Reconcile, without
  <1> QED BY <1>2, <1>11 DEF Shared!Next

\* Time passes for the live records as it does for the scripts.
LEMMA SharedPass ==
    ASSUME CacheOK(Cache), PassTime
    PROVE  Shared!Pass
  <1>1. /\ records \in [Ids -> Records \cup {None}]
        /\ records' = [id \in Ids |->
               IF records[id] = None THEN None
               ELSE [records[id] EXCEPT !.left = Minus(@, 1)]]
    BY DEF CacheOK, Caches, Cache, PassTime
  <1> DEFINE next(id) == IF Live[id] = None \/ Live[id].left = 1 THEN None
                         ELSE [Live[id] EXCEPT !.left = @ - 1]
  <1>2. ASSUME NEW id \in Ids PROVE Live'[id] = next(id)
    <2>1. CASE records[id] = None
      BY <1>1, <2>1 DEF Live
    <2>2. CASE records[id] # None
      <3>1. /\ records[id] \in Records /\ records[id].left \in Nat
            /\ records'[id] = [records[id] EXCEPT !.left = Minus(@, 1)]
        BY <1>1, <2>2, ConstantsFit DEF Records
      <3>2. /\ records'[id].left = Minus(records[id].left, 1)
            /\ records'[id] \in Records
        BY <3>1, ConstantsFit DEF Records, Minus
      <3>3. records'[id] # None
        BY <3>2, TokenAssumption
      <3>4. CASE records[id].left = 0
        BY <2>2, <3>2, <3>4 DEF Live, Minus
      <3>5. CASE records[id].left = 1
        <4>1. records'[id].left = 0
          BY <3>2, <3>5 DEF Minus
        <4> QED BY <2>2, <3>5, <4>1 DEF Live
      <3>6. CASE records[id].left # 0 /\ records[id].left # 1
        <4>1. Live[id] = records[id]
          BY <2>2, <3>6 DEF Live
        <4>2. records'[id] = [records[id] EXCEPT !.left = @ - 1]
          BY <3>1, <3>6 DEF Minus
        <4>3. records'[id].left # 0
          BY <3>1, <3>2, <3>6 DEF Minus
        <4>4. Live'[id] = records'[id]
          BY <3>3, <4>3 DEF Live
        <4> QED BY <2>2, <3>6, <4>1, <4>2, <4>4
      <3> QED BY <3>4, <3>5, <3>6
    <2> QED BY <2>1, <2>2
  <1>3. Live' = [id \in Ids |-> Live'[id]]
    BY DEF Live
  <1>4. Live' = [id \in Ids |-> next(id)]
    <2> HIDE DEF next
    <2> QED BY <1>2, <1>3
  <1> QED BY <1>4 DEF Shared!Pass

\* Every step of an attempt is a step of the scripts, or none.
LEMMA SharedAttempt ==
    ASSUME TokenInductive, NEW r \in Attempts,
           \/ Admit(r) \/ AdmitFails(r)
           \/ DropGuard(r) \/ StartRelease(r) \/ FinishRelease(r)
           \/ ReleaseFails(r)
           \/ \E n \in Usages : Transfer(r, n)
           \/ Settle(r) \/ SettleFails(r) \/ StartFree(r)
           \/ Abandon(r) \/ Recover(r) \/ RecoverFails(r)
           \/ BeatStep(r) \/ LeaseFails(r)
    PROVE  [Shared!Next]_Live
  <1>1. CacheOK(Cache) /\ GuardTypes /\ ChargeOK(r)
    BY DEF TokenInductive
  <1> DEFINE p == Prune(Cache)
  <1>2. CASE UNCHANGED cacheVars \/ Becomes(Cache) \/ Becomes(p)
    BY <1>1, <1>2, LivePruned
  <1>3. CASE ReserveFits(p, r) /\ Becomes(Reserved(p, r))
    BY <1>1, <1>3, SharedReserve
  <1>4. CASE Restorable(p, r) /\ Becomes(Restored(p, r))
    BY <1>1, <1>4, SharedRestore
  <1>5. CASE Renewable(p, r) /\ Becomes(Renewed(p, r))
    BY <1>1, <1>5, SharedRenew
  <1>6. CASE Becomes(Released(p, r))
    BY <1>1, <1>6, SharedRelease
  <1>7. CASE Settle(r) \/ SettleFails(r)
    <2>1. usage[r] # None
      BY <1>1, <1>7 DEF Settle, SettleFails, ChargeOK
    <2>2. usage[r] \in Usages /\ age[r] \in 0..Window
      BY <1>1, <2>1 DEF GuardTypes
    <2>3. Becomes(Reconciled(Prune(Cache), r, usage[r], age[r]))
      BY <1>7 DEF Settle, SettleFails
    <2> QED BY <1>1, <2>2, <2>3, SharedReconcile
  <1>8. CASE Admit(r) \/ AdmitFails(r)
    BY <1>2, <1>3, <1>8 DEF Admit, AdmitFails
  <1>9. CASE DropGuard(r) \/ StartRelease(r) \/ StartFree(r) \/ Abandon(r)
    BY <1>2, <1>9 DEF DropGuard, StartRelease, StartFree, Abandon
  <1>10. CASE FinishRelease(r) \/ ReleaseFails(r)
    BY <1>2, <1>6, <1>10 DEF FinishRelease, ReleaseFails
  <1>11. CASE \E n \in Usages : Transfer(r, n)
    BY <1>2, <1>11 DEF Transfer
  <1>12. CASE Recover(r) \/ RecoverFails(r)
    BY <1>2, <1>4, <1>5, <1>12 DEF Recover, RecoverFails
  <1>13. CASE BeatStep(r) \/ LeaseFails(r)
    <2>1. CASE Stop(r) \/ Beat(r)
      BY <1>2, <2>1 DEF Stop, Beat
    <2>2. CASE RenewLease(r) \/ RestoreLease(r)
      BY <1>2, <1>4, <1>5, <2>2 DEF RenewLease, RestoreLease
    <2>3. CASE ReleaseLease(r)
      BY <1>6, <2>3 DEF ReleaseLease
    <2>4. CASE LeaseFails(r)
      BY <1>2, <1>4, <2>4 DEF LeaseFails
    <2> QED BY <1>13, <2>1, <2>2, <2>3, <2>4 DEF BeatStep
  <1> QED BY <1>7, <1>8, <1>9, <1>10, <1>11, <1>12, <1>13

LEMMA SharedStep ==
    TokenInductive /\ [TokenNext]_tokenVars => [Shared!Next]_Live
  <1> SUFFICES ASSUME TokenInductive, [TokenNext]_tokenVars
               PROVE  [Shared!Next]_Live
    OBVIOUS
  <1>1. CacheOK(Cache)
    BY Typed
  <1>2. CASE PassTime
    BY <1>1, <1>2, SharedPass DEF Shared!Next
  <1>3. CASE ReadCount
    BY <1>1, <1>3, LivePruned DEF ReadCount
  <1>4. CASE Crash
    <2>1. CASE UNCHANGED cacheVars
      BY <1>1, <2>1, LivePruned
    <2>2. CASE Becomes(Empty)
      <3>1. Live' = [id \in Ids |-> None]
        BY <2>2 DEF Becomes, Empty, Live
      <3> QED BY <3>1 DEF Shared!Next, Shared!Restart
    <2> QED BY <1>4, <2>1, <2>2 DEF Crash, Empty
  <1>5. CASE UNCHANGED tokenVars
    BY <1>1, <1>5, LivePruned DEF tokenVars
  <1>6. CASE TokenNext
    BY <1>2, <1>3, <1>4, <1>6, SharedAttempt DEF TokenNext
  <1> QED BY <1>5, <1>6

\* The in-memory cache, with its heap and its running total, does to the live
\* records what the Redis scripts do: TokenSpec implements TokenWindow.
THEOREM BackendsEqual == TokenSpec => BackendsAgree
  <1>1. TokenInit => Shared!Init
    BY DEF TokenInit, Shared!Init, Live
  <1>2. TokenInductive /\ [TokenNext]_tokenVars => [Shared!Next]_Live
    BY SharedStep
  <1>3. TokenInit => TokenInductive
    BY TokenStarts
  <1>4. TokenInductive /\ [TokenNext]_tokenVars => TokenInductive'
    BY TokenStep
  <1> QED BY <1>1, <1>2, <1>3, <1>4, PTL DEF TokenSpec, BackendsAgree, Shared!Spec
=============================================================================
