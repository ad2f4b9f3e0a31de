-------------------------- MODULE SettlementProofs --------------------------
(***************************************************************************)
(* Theorems about Balance, for any number of requests, keys and tokens,    *)
(* all amounts of money and every minimum balance, and about Settlement,   *)
(* for any number of attempts, workers, leases and faults as well.         *)
(***************************************************************************)
EXTENDS Settlement, WellFoundedInduction, TLAPS

-----------------------------------------------------------------------------
(* Sums.  Induction is by the least counterexample.                        *)

\* Every non-empty set of natural numbers has a least element.
LEMMA LeastNat ==
    ASSUME NEW T \in SUBSET Nat, T # {}
    PROVE  \E n \in T : \A m \in T : n <= m
  <1>1. PICK n \in T : \A m \in T : ~(<<m, n>> \in OpToRel(<, Nat))
    BY NatLessThanWellFounded, WFMin, Zenon
  <1>2. \A m \in T : ~(m < n)
    BY <1>1 DEF OpToRel
  <1>3. \A m \in T : n <= m
    BY <1>2
  <1> QED BY <1>3

\* g is the table of the sums up to n.
Table(w, n, g) == g = [i \in 0..n |-> IF i = 0 THEN 0 ELSE g[i - 1] + w[i]]

\* There is such a table.
LEMMA TableExists ==
    ASSUME NEW w, NEW n \in Nat
    PROVE  \E g : Table(w, n, g)
  <1> DEFINE Bad == {m \in Nat : ~\E g : Table(w, m, g)}
  <1> SUFFICES ASSUME Bad # {} PROVE FALSE
    OBVIOUS
  <1>1. PICK m \in Bad : \A k \in Bad : m <= k
    BY LeastNat
  <1>2. m # 0
    <2>1. Table(w, 0, [i \in 0..0 |-> 0])
      BY DEF Table
    <2> QED BY <1>1, <2>1
  <1>3. PICK g : Table(w, m - 1, g)
    BY <1>1, <1>2
  <1>4. Table(w, m, [i \in 0..m |-> IF i = m THEN g[m - 1] + w[m] ELSE g[i]])
    BY <1>1, <1>2, <1>3 DEF Table
  <1> QED BY <1>1, <1>4

\* Tables agree where both are defined.
LEMMA TablesAgree ==
    ASSUME NEW w, NEW n \in Nat, NEW m \in Nat, NEW g, NEW h,
           Table(w, n, g), Table(w, m, h)
    PROVE  \A i \in Nat : i <= n /\ i <= m => g[i] = h[i]
  <1> DEFINE Bad == {i \in Nat : i <= n /\ i <= m /\ g[i] # h[i]}
  <1> SUFFICES ASSUME Bad # {} PROVE FALSE
    OBVIOUS
  <1>1. PICK i \in Bad : \A k \in Bad : i <= k
    BY LeastNat
  <1>2. i # 0
    BY <1>1 DEF Table
  <1>3. i - 1 \in Nat /\ g[i - 1] = h[i - 1]
    BY <1>1, <1>2
  <1>4. g[i] = g[i - 1] + w[i] /\ h[i] = h[i - 1] + w[i]
    BY <1>1, <1>2 DEF Table
  <1> QED BY <1>1, <1>3, <1>4

\* The sum is the last row of the table of partial sums.
LEMMA SumTable ==
    ASSUME NEW w, NEW n \in Nat
    PROVE  \E g : Table(w, n, g) /\ Sum(w, n) = g[n]
  <1> DEFINE g == CHOOSE h : h = [i \in 0..n |-> IF i = 0 THEN 0 ELSE h[i - 1] + w[i]]
  <1>1. Table(w, n, g)
    BY TableExists DEF Table
  <1>2. Sum(w, n) = g[n]
    BY DEF Sum
  <1> QED BY <1>1, <1>2

\* A sum, one row at a time.
LEMMA SumStep ==
    ASSUME NEW w
    PROVE  /\ Sum(w, 0) = 0
           /\ \A n \in Nat : n # 0 => Sum(w, n) = Sum(w, n - 1) + w[n]
  <1>1. Sum(w, 0) = 0
    <2>1. PICK g : Table(w, 0, g) /\ Sum(w, 0) = g[0]
      BY SumTable
    <2> QED BY <2>1 DEF Table
  <1>2. ASSUME NEW n \in Nat, n # 0 PROVE Sum(w, n) = Sum(w, n - 1) + w[n]
    <2>0. n - 1 \in Nat
      BY <1>2
    <2>1. PICK g : Table(w, n, g) /\ Sum(w, n) = g[n]
      BY SumTable
    <2>2. PICK h : Table(w, n - 1, h) /\ Sum(w, n - 1) = h[n - 1]
      BY <2>0, SumTable
    <2>3. g[n - 1] = h[n - 1]
      BY <2>0, <2>1, <2>2, TablesAgree
    <2>4. g[n] = g[n - 1] + w[n]
      BY <1>2, <2>1 DEF Table
    <2> QED BY <2>1, <2>2, <2>3, <2>4
  <1> QED BY <1>1, <1>2

\* A sum of amounts is an amount.
LEMMA SumNat ==
    ASSUME NEW n \in Nat, NEW w, \A i \in 1..n : w[i] \in Nat
    PROVE  Sum(w, n) \in Nat
  <1> DEFINE Bad == {k \in Nat : k <= n /\ Sum(w, k) \notin Nat}
  <1> SUFFICES ASSUME Bad # {} PROVE FALSE
    OBVIOUS
  <1>1. PICK k \in Bad : \A j \in Bad : k <= j
    BY LeastNat
  <1>2. k # 0
    BY <1>1, SumStep
  <1>3. Sum(w, k - 1) \in Nat /\ w[k] \in Nat
    BY <1>1, <1>2
  <1>4. Sum(w, k) = Sum(w, k - 1) + w[k]
    BY <1>1, <1>2, SumStep
  <1> QED BY <1>1, <1>3, <1>4

\* Sums add up row by row.
LEMMA SumAdd ==
    ASSUME NEW n \in Nat, NEW u, NEW v, NEW w,
           \A i \in 1..n : v[i] \in Nat /\ w[i] \in Nat /\ u[i] = v[i] + w[i]
    PROVE  Sum(u, n) = Sum(v, n) + Sum(w, n)
  <1> DEFINE Bad == {k \in Nat : k <= n /\ Sum(u, k) # Sum(v, k) + Sum(w, k)}
  <1> SUFFICES ASSUME Bad # {} PROVE FALSE
    OBVIOUS
  <1>1. PICK k \in Bad : \A j \in Bad : k <= j
    BY LeastNat
  <1>2. k # 0
    <2>1. Sum(u, 0) = 0 /\ Sum(v, 0) = 0 /\ Sum(w, 0) = 0
      BY SumStep
    <2> QED BY <1>1, <2>1
  <1>3. /\ k - 1 \in Nat /\ k - 1 <= n /\ k \in 1..n
        /\ Sum(u, k - 1) = Sum(v, k - 1) + Sum(w, k - 1)
    BY <1>1, <1>2
  <1>4. /\ Sum(u, k) = Sum(u, k - 1) + u[k]
        /\ Sum(v, k) = Sum(v, k - 1) + v[k]
        /\ Sum(w, k) = Sum(w, k - 1) + w[k]
    BY <1>1, <1>2, SumStep
  <1>5. Sum(v, k - 1) \in Nat /\ Sum(w, k - 1) \in Nat
    <2>1. \A i \in 1..(k - 1) : v[i] \in Nat /\ w[i] \in Nat
      BY <1>3
    <2> QED BY <1>3, <2>1, SumNat
  <1>6. v[k] \in Nat /\ w[k] \in Nat /\ u[k] = v[k] + w[k]
    BY <1>3
  <1> QED BY <1>1, <1>3, <1>4, <1>5, <1>6

\* Sums of equal rows are equal.
LEMMA SumSame ==
    ASSUME NEW n \in Nat, NEW v, NEW w, \A i \in 1..n : w[i] = v[i]
    PROVE  Sum(v, n) = Sum(w, n)
  <1> DEFINE Bad == {k \in Nat : k <= n /\ Sum(v, k) # Sum(w, k)}
  <1> SUFFICES ASSUME Bad # {} PROVE FALSE
    OBVIOUS
  <1>1. PICK k \in Bad : \A j \in Bad : k <= j
    BY LeastNat
  <1>2. k # 0
    <2>1. Sum(v, 0) = 0 /\ Sum(w, 0) = 0
      BY SumStep
    <2> QED BY <1>1, <2>1
  <1>3. k - 1 \in Nat /\ k \in 1..n /\ Sum(v, k - 1) = Sum(w, k - 1)
    BY <1>1, <1>2
  <1>4. Sum(v, k) = Sum(v, k - 1) + v[k] /\ Sum(w, k) = Sum(w, k - 1) + w[k]
    BY <1>1, <1>2, SumStep
  <1> QED BY <1>1, <1>3, <1>4

\* One row changes.
LEMMA SumBoth ==
    ASSUME NEW n \in Nat, NEW v, NEW w, NEW j \in 1..n,
           \A i \in 1..n : v[i] \in Nat /\ w[i] \in Nat /\ (i = j \/ w[i] = v[i])
    PROVE  /\ Sum(w, n) = Sum(v, n) - v[j] + w[j]
           /\ Sum(v, n) \in Nat /\ Sum(w, n) \in Nat /\ v[j] <= Sum(v, n)
  <1> DEFINE rest == [i \in 1..n |-> IF i = j THEN 0 ELSE v[i]]
             one(x) == [i \in 1..n |-> IF i = j THEN x ELSE 0]
  <1>1. ASSUME NEW x \in Nat PROVE Sum(one(x), n) = x
    <2> DEFINE Bad == {k \in Nat : k <= n /\ Sum(one(x), k) # IF j <= k THEN x ELSE 0}
    <2>1. SUFFICES ASSUME Bad # {} PROVE FALSE
      <3>1. n \notin Bad
        BY <2>1
      <3> QED BY <3>1
    <2>2. PICK k \in Bad : \A i \in Bad : k <= i
      BY <2>1, LeastNat
    <2>3. k # 0
      <3>1. Sum(one(x), 0) = 0
        BY SumStep
      <3> QED BY <2>2, <3>1
    <2>4. k - 1 \in Nat /\ k \in 1..n /\ Sum(one(x), k - 1) = IF j <= k - 1 THEN x ELSE 0
      BY <2>2, <2>3
    <2>5. Sum(one(x), k) = Sum(one(x), k - 1) + one(x)[k]
      <3> HIDE DEF one
      <3> QED BY <2>2, <2>3, SumStep
    <2>6. one(x)[k] = IF k = j THEN x ELSE 0
      BY <2>4
    <2> HIDE DEF one
    <2> QED BY <1>1, <2>2, <2>4, <2>5, <2>6
  <1>2. \A i \in 1..n : /\ rest[i] \in Nat
                        /\ one(v[j])[i] \in Nat /\ v[i] = rest[i] + one(v[j])[i]
                        /\ one(w[j])[i] \in Nat /\ w[i] = rest[i] + one(w[j])[i]
    OBVIOUS
  <1>3. v[j] \in Nat /\ w[j] \in Nat
    OBVIOUS
  <1>4. Sum(one(v[j]), n) = v[j] /\ Sum(one(w[j]), n) = w[j]
    BY <1>1, <1>3
  <1> DEFINE a == one(v[j])
             b == one(w[j])
  <1>5. \A i \in 1..n : /\ rest[i] \in Nat
                        /\ a[i] \in Nat /\ v[i] = rest[i] + a[i]
                        /\ b[i] \in Nat /\ w[i] = rest[i] + b[i]
    BY <1>2
  <1>6. Sum(a, n) = v[j] /\ Sum(b, n) = w[j]
    BY <1>4
  <1> HIDE DEF rest, a, b
  <1>7. Sum(v, n) = Sum(rest, n) + Sum(a, n)
    BY <1>5, SumAdd
  <1>8. Sum(w, n) = Sum(rest, n) + Sum(b, n)
    BY <1>5, SumAdd
  <1>9. Sum(rest, n) \in Nat
    BY <1>5, SumNat
  <1> QED BY <1>3, <1>6, <1>7, <1>8, <1>9

\* A row is at most the sum.
LEMMA SumBound ==
    ASSUME NEW n \in Nat, NEW v, NEW j \in 1..n, \A i \in 1..n : v[i] \in Nat
    PROVE  v[j] <= Sum(v, n)
  BY SumBoth

\* A sum in which one row changes.
LEMMA SumChange ==
    ASSUME NEW n \in Nat, NEW v, NEW w, NEW j \in 1..n,
           \A i \in 1..n : v[i] \in Nat /\ w[i] \in Nat /\ (i = j \/ w[i] = v[i])
    PROVE  Sum(w, n) = Sum(v, n) - v[j] + w[j]
  BY SumBoth

\* Nothing adds up to nothing.
LEMMA SumZero ==
    ASSUME NEW n \in Nat, NEW w, \A i \in 1..n : w[i] = 0
    PROVE  Sum(w, n) = 0
  <1>1. Sum(w, n) \in Nat
    BY SumNat
  <1>2. Sum(w, n) = Sum(w, n) + Sum(w, n)
    <2>1. \A i \in 1..n : w[i] \in Nat /\ w[i] = w[i] + w[i]
      OBVIOUS
    <2> QED BY <2>1, SumAdd
  <1> DEFINE x == Sum(w, n)
  <1> HIDE DEF x
  <1>3. x \in Nat /\ x = x + x => x = 0
    OBVIOUS
  <1> QED BY <1>1, <1>2, <1>3, Zenon DEF x

-----------------------------------------------------------------------------
(* What reservations hold.                                                 *)

\* The reservations of a wallet.
Rows == [Requests -> Reservations]

\* What the active rows hold is the sum of what each request holds.
LEMMA HeldIsReserved ==
    ASSUME NEW v \in Rows
    PROVE  /\ ActiveReserved(v) = Sum([r \in Requests |-> Replaced(v, r)], NumRequests)
           /\ ActiveReserved(v) \in Nat
           /\ \A r \in Requests : Replaced(v, r) \in Amounts /\ Replaced(v, r) \in Nat
  <1> DEFINE w == [r \in Requests |-> IF r \in Active(v) THEN v[r].amount ELSE 0]
             h == [r \in Requests |-> Replaced(v, r)]
  <1>0. NumRequests \in Nat /\ Requests = 1..NumRequests /\ Amounts \subseteq Nat /\ 0 \in Amounts
    BY BalanceAssumption DEF Requests
  <1>1. \A r \in Requests : v[r].amount \in Amounts
    BY DEF Rows, Reservations
  <1>2. \A r \in Requests : Replaced(v, r) \in Amounts /\ Replaced(v, r) \in Nat
    BY <1>0, <1>1 DEF Replaced
  <1>3. w = h
    BY DEF Active, Replaced
  <1>4. ActiveReserved(v) = Sum(w, NumRequests)
    BY DEF ActiveReserved, Reserved
  <1>5. \A i \in 1..NumRequests : h[i] \in Nat
    BY <1>0, <1>2
  <1> HIDE DEF w, h
  <1>6. Sum(h, NumRequests) \in Nat
    BY <1>0, <1>5, SumNat
  <1>7. ActiveReserved(v) = Sum(h, NumRequests)
    BY <1>3, <1>4
  <1> QED BY <1>2, <1>6, <1>7 DEF h

\* One row changes.
LEMMA RowChange ==
    ASSUME NEW v \in Rows, NEW u \in Rows, NEW r \in Requests,
           \A q \in Requests : q # r => u[q] = v[q]
    PROVE  /\ ActiveReserved(u) = ActiveReserved(v) - Replaced(v, r) + Replaced(u, r)
           /\ Replaced(v, r) <= ActiveReserved(v)
  <1> DEFINE hv == [q \in Requests |-> Replaced(v, q)]
             hu == [q \in Requests |-> Replaced(u, q)]
  <1>0. NumRequests \in Nat /\ Requests = 1..NumRequests
    BY BalanceAssumption DEF Requests
  <1>1. /\ ActiveReserved(v) = Sum(hv, NumRequests)
        /\ ActiveReserved(u) = Sum(hu, NumRequests)
    BY HeldIsReserved
  <1>2. \A i \in 1..NumRequests : hv[i] \in Nat /\ hu[i] \in Nat
    BY <1>0, HeldIsReserved
  <1>3. \A i \in 1..NumRequests : i # r => hu[i] = hv[i]
    BY <1>0 DEF Replaced
  <1>4. hv[r] = Replaced(v, r) /\ hu[r] = Replaced(u, r) /\ r \in 1..NumRequests
    BY <1>0
  <1> HIDE DEF hv, hu
  <1>5. /\ Sum(hu, NumRequests) = Sum(hv, NumRequests) - hv[r] + hu[r]
        /\ hv[r] <= Sum(hv, NumRequests)
    <2>1. NumRequests \in Nat /\ r \in 1..NumRequests
      BY <1>0
    <2>2. \A i \in 1..NumRequests : hv[i] \in Nat /\ hu[i] \in Nat /\ (i = r \/ hu[i] = hv[i])
      BY <1>2, <1>3
    <2>3. Sum(hu, NumRequests) = Sum(hv, NumRequests) - hv[r] + hu[r]
      BY <2>1, <2>2, SumChange
    <2>4. hv[r] <= Sum(hv, NumRequests)
      BY <2>1, <2>2, SumBound
    <2> QED BY <2>3, <2>4
  <1> QED BY <1>1, <1>4, <1>5

\* Reclaiming takes exactly the lapsed amounts out of what is held.
LEMMA ReclaimedRows ==
    ASSUME BalanceTypeOK
    PROVE  /\ resv \in Rows /\ ReclaimedResv \in Rows
           /\ Reserved(resv, Lapsed) \in Nat
           /\ ActiveReserved(resv) \in Nat /\ ActiveReserved(ReclaimedResv) \in Nat
           /\ ActiveReserved(resv) = Reserved(resv, Lapsed) + ActiveReserved(ReclaimedResv)
  <1> DEFINE x == [r \in Requests |-> IF r \in Lapsed THEN resv[r].amount ELSE 0]
             h == [r \in Requests |-> Replaced(resv, r)]
             k == [r \in Requests |-> Replaced(ReclaimedResv, r)]
  <1>0. NumRequests \in Nat /\ Requests = 1..NumRequests /\ Amounts \subseteq Nat
    BY BalanceAssumption DEF Requests
  <1>1. resv \in Rows /\ \A r \in Requests : resv[r] \in Reservations
    BY DEF BalanceTypeOK, Rows
  <1>2. ReclaimedResv \in Rows
    <2>1. \A r \in Requests : [resv[r] EXCEPT !.status = "expired"] \in Reservations
      BY <1>1 DEF Reservations
    <2> QED BY <1>1, <2>1 DEF ReclaimedResv, Rows
  <1>3. /\ ActiveReserved(resv) = Sum(h, NumRequests)
        /\ ActiveReserved(ReclaimedResv) = Sum(k, NumRequests)
        /\ ActiveReserved(resv) \in Nat /\ ActiveReserved(ReclaimedResv) \in Nat
    BY <1>1, <1>2, HeldIsReserved
  <1>4. Reserved(resv, Lapsed) = Sum(x, NumRequests)
    BY DEF Reserved
  <1>5. \A i \in 1..NumRequests : x[i] \in Nat /\ k[i] \in Nat /\ h[i] = x[i] + k[i]
    <2> SUFFICES ASSUME NEW i \in Requests
                 PROVE  x[i] \in Nat /\ k[i] \in Nat /\ h[i] = x[i] + k[i]
      BY <1>0
    <2>1. resv[i].amount \in Nat /\ resv[i] \in Reservations
      BY <1>0, <1>1 DEF Reservations
    <2>2. CASE i \in Lapsed
      <3>1. resv[i].status = "active" /\ ReclaimedResv[i] = [resv[i] EXCEPT !.status = "expired"]
        BY <2>2 DEF Lapsed, Active, ReclaimedResv
      <3>2. ReclaimedResv[i].status = "expired"
        BY <2>1, <3>1 DEF Reservations
      <3>3. x[i] = resv[i].amount /\ k[i] = 0 /\ h[i] = resv[i].amount
        BY <2>2, <3>1, <3>2 DEF Replaced
      <3> QED BY <2>1, <3>3
    <2>3. CASE i \notin Lapsed
      <3>1. ReclaimedResv[i] = resv[i]
        BY <2>3 DEF ReclaimedResv
      <3> QED BY <2>1, <2>3, <3>1 DEF Replaced
    <2> QED BY <2>2, <2>3
  <1> HIDE DEF x, h, k
  <1>6. Sum(x, NumRequests) \in Nat
    BY <1>0, <1>5, SumNat
  <1>7. Sum(h, NumRequests) = Sum(x, NumRequests) + Sum(k, NumRequests)
    <2>1. NumRequests \in Nat
      BY <1>0
    <2> QED BY <1>5, <2>1, SumAdd
  <1> QED BY <1>1, <1>2, <1>3, <1>4, <1>6, <1>7

-----------------------------------------------------------------------------
(* What was charged and what administrators did.                           *)

\* What was charged is an amount of money.
LEMMA ChargedType ==
    ASSUME BalanceTypeOK
    PROVE  Charged \in Nat
  <1> DEFINE w == [r \in Requests |-> IF spent[r] = None THEN 0 ELSE spent[r]]
  <1>1. NumRequests \in Nat /\ \A i \in 1..NumRequests : w[i] \in Nat
    BY BalanceAssumption DEF BalanceTypeOK, Requests
  <1> HIDE DEF w
  <1>2. Sum(w, NumRequests) \in Nat
    BY <1>1, SumNat
  <1> QED BY <1>2 DEF Charged, w

\* A first charge adds what the usage log says, and nothing else.
LEMMA ChargedOnce ==
    ASSUME BalanceTypeOK, NEW r \in Requests, spent[r] = None, usage[r] # None,
           spent' = [spent EXCEPT ![r] = usage[r]]
    PROVE  Charged' = Charged + usage[r]
  <1> DEFINE v == [q \in Requests |-> IF spent[q] = None THEN 0 ELSE spent[q]]
             w == [q \in Requests |-> IF spent'[q] = None THEN 0 ELSE spent'[q]]
  <1>0. NumRequests \in Nat /\ Requests = 1..NumRequests
    BY BalanceAssumption DEF Requests
  <1>1. usage[r] \in Nat /\ spent'[r] = usage[r] /\ \A q \in Requests : q # r => spent'[q] = spent[q]
    BY BalanceAssumption DEF BalanceTypeOK
  <1>2. \A q \in Requests : v[q] \in Nat /\ w[q] \in Nat
    BY <1>1, BalanceAssumption DEF BalanceTypeOK
  <1>3. v[r] = 0 /\ w[r] = usage[r] /\ \A q \in Requests : q # r => w[q] = v[q]
    BY <1>1
  <1> HIDE DEF v, w
  <1>4. Sum(w, NumRequests) = Sum(v, NumRequests) - v[r] + w[r] /\ Sum(v, NumRequests) \in Nat
    <2>1. \A q \in 1..NumRequests : v[q] \in Nat /\ w[q] \in Nat /\ (q = r \/ w[q] = v[q])
      BY <1>0, <1>2, <1>3
    <2>3. NumRequests \in Nat /\ r \in 1..NumRequests
      BY <1>0
    <2>4. Sum(w, NumRequests) = Sum(v, NumRequests) - v[r] + w[r]
      BY <2>1, <2>3, SumChange
    <2>5. Sum(v, NumRequests) \in Nat
      BY <2>1, <2>3, SumNat
    <2> QED BY <2>4, <2>5
  <1>5. Sum(w, NumRequests) = Sum(v, NumRequests) + usage[r]
    BY <1>1, <1>3, <1>4
  <1> QED BY <1>5 DEF Charged, v, w

\* What administrators did adds up to an amount of money.
LEMMA AppliedType ==
    ASSUME BalanceTypeOK, NEW kind
    PROVE  Applied(kind) \in Nat
  <1> DEFINE w == [k \in Keys |-> IF ops[k] # None /\ ops[k].kind = kind THEN ops[k].amount ELSE 0]
  <1>1. NumKeys \in Nat /\ \A i \in 1..NumKeys : w[i] \in Nat
    BY BalanceAssumption DEF BalanceTypeOK, Keys, Operations
  <1> HIDE DEF w
  <1>2. Sum(w, NumKeys) \in Nat
    BY <1>1, SumNat
  <1> QED BY <1>2 DEF Applied, w

\* An operation under a fresh key adds its amount to its own kind.
LEMMA AppliedOnce ==
    ASSUME BalanceTypeOK, NEW k \in Keys, NEW kind \in OpKinds, NEW amount \in Amounts,
           ops[k] = None, ops' = [ops EXCEPT ![k] = [kind |-> kind, amount |-> amount]],
           NEW other \in OpKinds
    PROVE  Applied(other)' = Applied(other) + IF other = kind THEN amount ELSE 0
  <1> DEFINE v == [j \in Keys |-> IF ops[j] # None /\ ops[j].kind = other THEN ops[j].amount ELSE 0]
             w == [j \in Keys |-> IF ops'[j] # None /\ ops'[j].kind = other THEN ops'[j].amount ELSE 0]
             d == IF other = kind THEN amount ELSE 0
  <1>0. NumKeys \in Nat /\ Keys = 1..NumKeys /\ amount \in Nat
    BY BalanceAssumption DEF Keys
  <1>1. /\ ops'[k] = [kind |-> kind, amount |-> amount]
        /\ \A j \in Keys : j # k => ops'[j] = ops[j]
    BY DEF BalanceTypeOK
  <1>2. ops'[k] # None /\ ops'[k].kind = kind /\ ops'[k].amount = amount
    BY <1>1, BalanceAssumption DEF Operations
  <1>3. \A j \in Keys : v[j] \in Nat
    BY BalanceAssumption DEF BalanceTypeOK, Operations
  <1>4. v[k] = 0 /\ w[k] = d /\ \A j \in Keys : j # k => w[j] = v[j]
    BY <1>1, <1>2
  <1>5. d \in Nat
    BY <1>0
  <1> HIDE DEF v, w, d
  <1>6. \A j \in Keys : w[j] \in Nat
    BY <1>3, <1>4, <1>5
  <1>7. Sum(w, NumKeys) = Sum(v, NumKeys) - v[k] + w[k] /\ Sum(v, NumKeys) \in Nat
    <2>1. \A j \in 1..NumKeys : v[j] \in Nat /\ w[j] \in Nat /\ (j = k \/ w[j] = v[j])
      BY <1>0, <1>3, <1>4, <1>6
    <2>3. NumKeys \in Nat /\ k \in 1..NumKeys
      BY <1>0
    <2>4. Sum(w, NumKeys) = Sum(v, NumKeys) - v[k] + w[k]
      BY <2>1, <2>3, SumChange
    <2>5. Sum(v, NumKeys) \in Nat
      BY <2>1, <2>3, SumNat
    <2> QED BY <2>4, <2>5
  <1>8. Sum(w, NumKeys) = Sum(v, NumKeys) + d
    BY <1>4, <1>5, <1>7
  <1> QED BY <1>8 DEF Applied, v, w, d

-----------------------------------------------------------------------------
(* Money that moves in the row.                                            *)

\* A row whose frozen money may still turn out negative.
Drafts == [available : Int, frozen : Int, recharged : Nat, consumed : Nat]

\* Freezing moves money between two columns.
LEMMA FreezeMoves ==
    ASSUME NEW w \in Drafts, NEW a \in Int
    PROVE  /\ Freeze(w, a) \in Drafts
           /\ Freeze(w, a).available = w.available - a
           /\ Freeze(w, a).frozen = w.frozen + a
           /\ Freeze(w, a).recharged = w.recharged
           /\ Freeze(w, a).consumed = w.consumed
  <1>1. ASSUME NEW x \in Int, NEW y \in Int
        PROVE  [w EXCEPT !.available = x, !.frozen = y] \in Drafts
    BY DEF Drafts
  <1>2. w.available - a \in Int /\ w.frozen + a \in Int
    BY DEF Drafts
  <1>3. Freeze(w, a) = [w EXCEPT !.available = w.available - a, !.frozen = w.frozen + a]
    BY DEF Freeze
  <1>4. Freeze(w, a) \in Drafts
    BY <1>1, <1>2, <1>3, Zenon
  <1>5. /\ Freeze(w, a).available = w.available - a
        /\ Freeze(w, a).frozen = w.frozen + a
        /\ Freeze(w, a).recharged = w.recharged
        /\ Freeze(w, a).consumed = w.consumed
    BY DEF Drafts, Freeze
  <1> QED BY <1>4, <1>5

\* Thawing moves it back.
LEMMA ThawMoves ==
    ASSUME NEW w \in Drafts, NEW a \in Int
    PROVE  /\ Thaw(w, a) \in Drafts
           /\ Thaw(w, a).available = w.available + a
           /\ Thaw(w, a).frozen = w.frozen - a
           /\ Thaw(w, a).recharged = w.recharged
           /\ Thaw(w, a).consumed = w.consumed
  <1>1. ASSUME NEW x \in Int, NEW y \in Int
        PROVE  [w EXCEPT !.available = x, !.frozen = y] \in Drafts
    BY DEF Drafts
  <1>2. w.available + a \in Int /\ w.frozen - a \in Int
    BY DEF Drafts
  <1>3. Thaw(w, a) = [w EXCEPT !.available = w.available + a, !.frozen = w.frozen - a]
    BY DEF Thaw
  <1>4. Thaw(w, a) \in Drafts
    BY <1>1, <1>2, <1>3, Zenon
  <1>5. /\ Thaw(w, a).available = w.available + a
        /\ Thaw(w, a).frozen = w.frozen - a
        /\ Thaw(w, a).recharged = w.recharged
        /\ Thaw(w, a).consumed = w.consumed
    BY DEF Drafts, Thaw
  <1> QED BY <1>4, <1>5

\* A charge takes money out of the row.
LEMMA DebitMoves ==
    ASSUME NEW w \in Drafts, NEW a \in Nat
    PROVE  /\ Debit(w, a) \in Drafts
           /\ Debit(w, a).available = w.available - a
           /\ Debit(w, a).frozen = w.frozen
           /\ Debit(w, a).recharged = w.recharged
           /\ Debit(w, a).consumed = w.consumed + a
  <1>1. ASSUME NEW x \in Int, NEW y \in Nat
        PROVE  [w EXCEPT !.available = x, !.consumed = y] \in Drafts
    BY DEF Drafts
  <1>2. w.available - a \in Int /\ w.consumed + a \in Nat
    BY DEF Drafts
  <1>3. Debit(w, a) = [w EXCEPT !.available = w.available - a, !.consumed = w.consumed + a]
    BY DEF Debit
  <1>4. Debit(w, a) \in Drafts
    BY <1>1, <1>2, <1>3, Zenon
  <1>5. /\ Debit(w, a).available = w.available - a
        /\ Debit(w, a).frozen = w.frozen
        /\ Debit(w, a).recharged = w.recharged
        /\ Debit(w, a).consumed = w.consumed + a
    BY DEF Drafts, Debit
  <1> QED BY <1>4, <1>5

\* A recharge brings it in.
LEMMA RechargeMoves ==
    ASSUME NEW w \in Drafts, NEW a \in Nat
    PROVE  /\ Recharge(w, a) \in Drafts
           /\ Recharge(w, a).available = w.available + a
           /\ Recharge(w, a).frozen = w.frozen
           /\ Recharge(w, a).recharged = w.recharged + a
           /\ Recharge(w, a).consumed = w.consumed
  <1>1. ASSUME NEW x \in Int, NEW y \in Nat
        PROVE  [w EXCEPT !.available = x, !.recharged = y] \in Drafts
    BY DEF Drafts
  <1>2. w.available + a \in Int /\ w.recharged + a \in Nat
    BY DEF Drafts
  <1>3. Recharge(w, a) = [w EXCEPT !.available = w.available + a, !.recharged = w.recharged + a]
    BY DEF Recharge
  <1>4. Recharge(w, a) \in Drafts
    BY <1>1, <1>2, <1>3, Zenon
  <1>5. /\ Recharge(w, a).available = w.available + a
        /\ Recharge(w, a).frozen = w.frozen
        /\ Recharge(w, a).recharged = w.recharged + a
        /\ Recharge(w, a).consumed = w.consumed
    BY DEF Drafts, Recharge
  <1> QED BY <1>4, <1>5

\* A row whose frozen money is not negative is a row.
LEMMA DraftIsWallet ==
    ASSUME NEW w \in Drafts
    PROVE  /\ w.available \in Int /\ w.frozen \in Int /\ w.recharged \in Nat /\ w.consumed \in Nat
           /\ w.frozen >= 0 => w \in Wallets
  BY DEF Drafts, Wallets

\* A row is also a draft of one.
LEMMA WalletIsDraft ==
    ASSUME NEW w \in Wallets
    PROVE  w \in Drafts /\ w.frozen \in Nat
  BY DEF Drafts, Wallets

\* The numbers behind the wallet.  In particular the active reservations never
\* exceed the frozen money: the guard of reclaim, release and settle holds.
LEMMA Numbers ==
    ASSUME WalletInvariant
    PROVE  /\ wallet \in Drafts /\ wallet.available \in Int /\ wallet.frozen \in Nat
           /\ wallet.recharged \in Nat /\ wallet.consumed \in Nat
           /\ \A x \in OpKinds : Applied(x) \in Nat
           /\ Charged \in Nat /\ credited \in Nat
           /\ resv \in Rows /\ ActiveReserved(resv) \in Nat
           /\ Covered
  <1>1. BalanceTypeOK /\ wallet \in Wallets /\ credited \in Nat
    BY DEF WalletInvariant, BalanceTypeOK
  <1>2. /\ wallet \in Drafts /\ wallet.available \in Int /\ wallet.frozen \in Nat
        /\ wallet.recharged \in Nat /\ wallet.consumed \in Nat
    BY <1>1, WalletIsDraft, DraftIsWallet
  <1>3. (\A x \in OpKinds : Applied(x) \in Nat) /\ Charged \in Nat
    BY <1>1, AppliedType, ChargedType
  <1>4. resv \in Rows /\ ActiveReserved(resv) \in Nat
    BY <1>1, ReclaimedRows
  <1>5. Applied("freeze") \in Nat /\ Applied("unfreeze") \in Nat
    BY <1>3 DEF OpKinds
  <1>6. Covered
    BY <1>2, <1>4, <1>5 DEF WalletInvariant, FrozenExplained, Covered
  <1> QED BY <1>1, <1>2, <1>3, <1>4, <1>6

\* The row after the reclaim every transaction begins with.
LEMMA ReclaimedRow ==
    ASSUME WalletInvariant
    PROVE  LET x == Reserved(resv, Lapsed)
           IN  /\ x \in Nat /\ ReclaimedResv \in Rows
               /\ ActiveReserved(ReclaimedResv) \in Nat
               /\ ActiveReserved(ReclaimedResv) = ActiveReserved(resv) - x
               /\ ReclaimedWallet \in Drafts
               /\ ReclaimedWallet.available = wallet.available + x
               /\ ReclaimedWallet.frozen = wallet.frozen - x
               /\ ReclaimedWallet.frozen >= ActiveReserved(ReclaimedResv)
               /\ ReclaimedWallet.recharged = wallet.recharged
               /\ ReclaimedWallet.consumed = wallet.consumed
  <1> DEFINE x == Reserved(resv, Lapsed)
  <1>1. BalanceTypeOK
    BY DEF WalletInvariant
  <1>2. /\ x \in Nat /\ ReclaimedResv \in Rows /\ ActiveReserved(ReclaimedResv) \in Nat
        /\ ActiveReserved(resv) = x + ActiveReserved(ReclaimedResv)
    BY <1>1, ReclaimedRows
  <1>3. ReclaimedWallet = Thaw(wallet, x)
    BY DEF ReclaimedWallet
  <1>4. /\ wallet \in Drafts /\ wallet.frozen \in Nat /\ ActiveReserved(resv) \in Nat
        /\ wallet.frozen >= ActiveReserved(resv)
    BY Numbers DEF Covered
  <1> HIDE DEF x
  <1>5. x \in Int
    BY <1>2
  <1>6. /\ ReclaimedWallet \in Drafts
        /\ ReclaimedWallet.available = wallet.available + x
        /\ ReclaimedWallet.frozen = wallet.frozen - x
        /\ ReclaimedWallet.recharged = wallet.recharged
        /\ ReclaimedWallet.consumed = wallet.consumed
    BY <1>3, <1>4, <1>5, ThawMoves
  <1>7. /\ ReclaimedWallet.frozen >= ActiveReserved(ReclaimedResv)
        /\ ActiveReserved(ReclaimedResv) = ActiveReserved(resv) - x
    BY <1>2, <1>4, <1>6
  <1> QED BY <1>2, <1>6, <1>7 DEF x

\* Reclaiming touches only active rows.
LEMMA ReclaimedStatus ==
    ASSUME BalanceTypeOK, NEW r \in Requests
    PROVE  /\ resv[r].status # "active" => ReclaimedResv[r] = resv[r]
           /\ ReclaimedResv[r].status = "settled" <=> resv[r].status = "settled"
           /\ ReclaimedResv[r].status \in {resv[r].status, "expired"}
  <1>1. resv[r] \in Reservations
    BY DEF BalanceTypeOK
  <1>2. CASE r \in Lapsed
    <2>1. resv[r].status = "active" /\ ReclaimedResv[r] = [resv[r] EXCEPT !.status = "expired"]
      BY <1>2 DEF Lapsed, Active, ReclaimedResv
    <2>2. ReclaimedResv[r].status = "expired"
      BY <1>1, <2>1 DEF Reservations
    <2> QED BY <2>1, <2>2
  <1>3. CASE r \notin Lapsed
    <2>1. ReclaimedResv[r] = resv[r]
      BY <1>3 DEF ReclaimedResv
    <2> QED BY <2>1
  <1> QED BY <1>2, <1>3

-----------------------------------------------------------------------------
(* What a step does to the wallet's invariant.                             *)

\* Sums over what a step leaves alone.
LEMMA AppliedSame ==
    ASSUME ops' = ops
    PROVE  \A x \in OpKinds : Applied(x)' = Applied(x)
  BY Zenon DEF Applied

\* And over the charges.
LEMMA ChargedSame ==
    ASSUME spent' = spent
    PROVE  Charged' = Charged
  BY Zenon DEF Charged

\* The parts of the invariant, put together.
LEMMA Together ==
    ASSUME wallet' \in Drafts, wallet'.frozen >= 0, resv' \in Rows,
           issued' \subseteq Owners,
           usage' \in [Requests -> Amounts \cup {None}],
           spent' \in [Requests -> Amounts \cup {None}],
           credited' \in Nat, ops' \in [Keys -> Operations \cup {None}],
           LedgerReconciles', FrozenExplained', SettledMeansCharged'
    PROVE  WalletInvariant'
  <1>1. wallet' \in Wallets
    BY DraftIsWallet
  <1> QED BY <1>1 DEF WalletInvariant, BalanceTypeOK, Rows

\* Holds of x are dropped and nothing is charged.
LEMMA HoldsDropped ==
    ASSUME WalletInvariant, NEW x \in Nat, wallet' = Thaw(wallet, x),
           resv' \in Rows, ActiveReserved(resv)' = ActiveReserved(resv) - x,
           \A r \in Requests : resv'[r].status = "settled" => spent[r] # None,
           UNCHANGED <<issued, usage, spent, credited, ops>>
    PROVE  WalletInvariant'
  <1>1. BalanceTypeOK /\ LedgerReconciles /\ FrozenExplained /\ SettledMeansCharged
    BY DEF WalletInvariant
  <1>2. /\ wallet \in Drafts /\ wallet.available \in Int /\ wallet.frozen \in Nat
        /\ wallet.recharged \in Nat /\ wallet.consumed \in Nat
        /\ Charged \in Nat /\ credited \in Nat
        /\ Applied("recharge") \in Nat /\ Applied("consume") \in Nat
        /\ Applied("freeze") \in Nat /\ Applied("unfreeze") \in Nat
        /\ ActiveReserved(resv) \in Nat
    BY Numbers DEF OpKinds
  <1>3. /\ wallet' \in Drafts /\ wallet'.available = wallet.available + x
        /\ wallet'.frozen = wallet.frozen - x
        /\ wallet'.recharged = wallet.recharged /\ wallet'.consumed = wallet.consumed
    <2>1. x \in Int
      OBVIOUS
    <2> QED BY <1>2, <2>1, ThawMoves
  <1>4. /\ Applied("recharge")' = Applied("recharge") /\ Applied("consume")' = Applied("consume")
        /\ Applied("freeze")' = Applied("freeze") /\ Applied("unfreeze")' = Applied("unfreeze")
        /\ Charged' = Charged
    BY AppliedSame, ChargedSame DEF OpKinds
  <1>5. LedgerReconciles'
    BY <1>1, <1>2, <1>3, <1>4 DEF LedgerReconciles
  <1>6. FrozenExplained'
    BY <1>1, <1>2, <1>3, <1>4 DEF FrozenExplained
  <1>7. SettledMeansCharged'
    BY <1>1 DEF SettledMeansCharged
  <1>8. ActiveReserved(resv)' \in Nat
    BY HeldIsReserved
  <1>9. wallet'.frozen >= 0
    BY <1>1, <1>2, <1>3, <1>8 DEF FrozenExplained
  <1> QED BY <1>1, <1>3, <1>5, <1>6, <1>7, <1>9, Together DEF BalanceTypeOK

\* Holds of x are dropped and request r is charged what its usage log says.
LEMMA HoldsCharged ==
    ASSUME WalletInvariant, NEW x \in Nat, NEW r \in Requests,
           usage[r] # None, spent[r] = None,
           wallet' = Debit(Thaw(wallet, x), usage[r]),
           spent' = [spent EXCEPT ![r] = usage[r]],
           resv' \in Rows, ActiveReserved(resv)' = ActiveReserved(resv) - x,
           \A q \in Requests : resv'[q].status = "settled" => q = r \/ spent[q] # None,
           UNCHANGED <<issued, usage, credited, ops>>
    PROVE  WalletInvariant'
  <1>1. BalanceTypeOK /\ LedgerReconciles /\ FrozenExplained /\ SettledMeansCharged
    BY DEF WalletInvariant
  <1>2. /\ wallet \in Drafts /\ wallet.available \in Int /\ wallet.frozen \in Nat
        /\ wallet.recharged \in Nat /\ wallet.consumed \in Nat
        /\ Charged \in Nat /\ credited \in Nat
        /\ Applied("recharge") \in Nat /\ Applied("consume") \in Nat
        /\ Applied("freeze") \in Nat /\ Applied("unfreeze") \in Nat
        /\ ActiveReserved(resv) \in Nat
    BY Numbers DEF OpKinds
  <1>3. usage[r] \in Amounts /\ usage[r] \in Nat
    BY <1>1, BalanceAssumption DEF BalanceTypeOK
  <1>4. PICK a \in Nat : a = usage[r]
    BY <1>3
  <1>5. PICK w \in Drafts : /\ w = Thaw(wallet, x) /\ w.available = wallet.available + x
                            /\ w.frozen = wallet.frozen - x
                            /\ w.recharged = wallet.recharged /\ w.consumed = wallet.consumed
    BY <1>2, ThawMoves
  <1>6. wallet' = Debit(w, a)
    BY <1>4, <1>5
  <1>7. /\ wallet' \in Drafts /\ wallet'.available = w.available - a
        /\ wallet'.frozen = w.frozen
        /\ wallet'.recharged = w.recharged /\ wallet'.consumed = w.consumed + a
    BY <1>6, DebitMoves
  <1>8. /\ wallet'.available = wallet.available + x - a
        /\ wallet'.frozen = wallet.frozen - x
        /\ wallet'.recharged = wallet.recharged /\ wallet'.consumed = wallet.consumed + a
    BY <1>2, <1>5, <1>7
  <1>9. /\ Applied("recharge")' = Applied("recharge") /\ Applied("consume")' = Applied("consume")
        /\ Applied("freeze")' = Applied("freeze") /\ Applied("unfreeze")' = Applied("unfreeze")
    BY AppliedSame DEF OpKinds
  <1>10. Charged' = Charged + a
    BY <1>1, <1>4, ChargedOnce
  <1>11. LedgerReconciles'
    BY <1>1, <1>2, <1>8, <1>9, <1>10 DEF LedgerReconciles
  <1>12. FrozenExplained'
    BY <1>1, <1>2, <1>8, <1>9 DEF FrozenExplained
  <1>13. SettledMeansCharged'
    BY <1>1 DEF SettledMeansCharged, BalanceTypeOK
  <1>14. ActiveReserved(resv)' \in Nat
    BY HeldIsReserved
  <1>15. wallet'.frozen >= 0
    BY <1>1, <1>2, <1>8, <1>14 DEF FrozenExplained
  <1>16. spent' \in [Requests -> Amounts \cup {None}]
    BY <1>1, <1>3 DEF BalanceTypeOK
  <1> QED BY <1>1, <1>7, <1>11, <1>12, <1>13, <1>15, <1>16, Together DEF BalanceTypeOK

\* The reservation of r ends: what it held is no longer reserved.
LEMMA RowEnds ==
    ASSUME BalanceTypeOK, NEW r \in Requests, resv[r].status = "active",
           resv' \in Rows, resv'[r].status # "active",
           \A q \in Requests : q # r => resv'[q] = resv[q]
    PROVE  /\ ActiveReserved(resv)' = ActiveReserved(resv) - resv[r].amount
           /\ resv[r].amount \in Nat
  <1>1. resv \in Rows /\ resv[r].amount \in Nat
    BY BalanceAssumption DEF BalanceTypeOK, Rows, Reservations
  <1>2. PICK v \in Rows, u \in Rows : v = resv /\ u = resv'
    BY <1>1
  <1>3. ActiveReserved(u) = ActiveReserved(v) - Replaced(v, r) + Replaced(u, r)
    BY <1>2, RowChange
  <1>4. Replaced(v, r) = resv[r].amount /\ Replaced(u, r) = 0
    BY <1>2 DEF Replaced
  <1>5. ActiveReserved(v) \in Nat
    BY HeldIsReserved
  <1>6. ActiveReserved(u) = ActiveReserved(v) - resv[r].amount
    BY <1>1, <1>3, <1>4, <1>5
  <1> QED BY <1>1, <1>2, <1>6

\* The rows when one of them gets another status.
LEMMA StatusSet ==
    ASSUME BalanceTypeOK, NEW r \in Requests,
           NEW s \in {"settled", "released"},
           \/ resv' = [resv EXCEPT ![r].status = s]
           \/ resv' = [resv EXCEPT ![r].status = s, ![r].administrative = TRUE]
    PROVE  /\ resv' \in Rows /\ resv'[r].status = s
           /\ \A q \in Requests : q # r => resv'[q] = resv[q]
  <1>1. resv \in [Requests -> Reservations]
    BY DEF BalanceTypeOK
  <1>2. CASE resv' = [resv EXCEPT ![r].status = s]
    BY <1>1, <1>2 DEF Rows, Reservations
  <1>3. CASE resv' = [resv EXCEPT ![r].status = s, ![r].administrative = TRUE]
    BY <1>1, <1>3 DEF Rows, Reservations
  <1> QED BY <1>2, <1>3

\* reclaim_expired keeps the books.
LEMMA ReclaimSafe ==
    ASSUME WalletInvariant, wallet' = ReclaimedWallet, resv' = ReclaimedResv,
           UNCHANGED <<issued, usage, spent, credited, ops>>
    PROVE  WalletInvariant'
  <1>1. BalanceTypeOK /\ SettledMeansCharged
    BY DEF WalletInvariant
  <1>2. PICK x \in Nat : x = Reserved(resv, Lapsed)
    BY <1>1, ReclaimedRows
  <1>3. /\ wallet' = Thaw(wallet, x) /\ resv' \in Rows
        /\ ActiveReserved(resv)' = ActiveReserved(resv) - x
    BY <1>2, ReclaimedRow DEF ReclaimedWallet
  <1>4. \A r \in Requests : resv'[r].status = "settled" => spent[r] # None
    BY <1>1, ReclaimedStatus DEF SettledMeansCharged
  <1> QED BY <1>3, <1>4, HoldsDropped

\* A release, by its owner or by an administrator, keeps the books.
LEMMA ReleaseSafe ==
    ASSUME WalletInvariant, NEW r \in Requests, resv[r].status = "active",
           wallet' = Thaw(wallet, resv[r].amount),
           \/ resv' = [resv EXCEPT ![r].status = "released"]
           \/ resv' = [resv EXCEPT ![r].status = "released",
                                   ![r].administrative = TRUE],
           UNCHANGED <<issued, usage, spent, credited, ops>>
    PROVE  WalletInvariant'
  <1>1. BalanceTypeOK /\ SettledMeansCharged
    BY DEF WalletInvariant
  <1>2. /\ resv' \in Rows /\ resv'[r].status = "released"
        /\ \A q \in Requests : q # r => resv'[q] = resv[q]
    BY <1>1, StatusSet
  <1>3. /\ ActiveReserved(resv)' = ActiveReserved(resv) - resv[r].amount
        /\ resv[r].amount \in Nat
    BY <1>1, <1>2, RowEnds
  <1>4. PICK x \in Nat : x = resv[r].amount
    BY <1>3
  <1>5. \A q \in Requests : resv'[q].status = "settled" => spent[q] # None
    BY <1>1, <1>2 DEF SettledMeansCharged
  <1>6. wallet' = Thaw(wallet, x) /\ ActiveReserved(resv)' = ActiveReserved(resv) - x
    BY <1>3, <1>4
  <1> QED BY <1>2, <1>5, <1>6, HoldsDropped

\* settle keeps the books, whether it charges or finds the charge made.
LEMMA SettleSafe ==
    ASSUME WalletInvariant, NEW r \in Requests, NEW o \in Owners, Settle(r, o)
    PROVE  WalletInvariant'
  <1>1. BalanceTypeOK /\ SettledMeansCharged
    BY DEF WalletInvariant
  <1>2. /\ resv' \in Rows /\ resv'[r].status = "settled"
        /\ \A q \in Requests : q # r => resv'[q] = resv[q]
    BY <1>1, StatusSet DEF Settle
  <1>3. /\ ActiveReserved(resv)' = ActiveReserved(resv) - resv[r].amount
        /\ resv[r].amount \in Nat
    BY <1>1, <1>2, RowEnds DEF Settle, HeldBy
  <1>4. PICK x \in Nat : x = resv[r].amount
    BY <1>3
  <1>5. ActiveReserved(resv)' = ActiveReserved(resv) - x
    BY <1>3, <1>4
  <1>6. \A q \in Requests : resv'[q].status = "settled" => q = r \/ spent[q] # None
    BY <1>1, <1>2 DEF SettledMeansCharged
  <1>7. CASE spent[r] # None
    <2>1. wallet' = Thaw(wallet, x) /\ UNCHANGED <<issued, usage, spent, credited, ops>>
      BY <1>4, <1>7 DEF Settle
    <2>2. \A q \in Requests : resv'[q].status = "settled" => spent[q] # None
      BY <1>6, <1>7
    <2> QED BY <1>2, <1>5, <2>1, <2>2, HoldsDropped
  <1>8. CASE spent[r] = None
    <2>1. /\ wallet' = Debit(Thaw(wallet, x), usage[r])
          /\ spent' = [spent EXCEPT ![r] = usage[r]]
          /\ UNCHANGED <<issued, usage, credited, ops>> /\ usage[r] # None
      BY <1>4, <1>8 DEF Settle
    <2> QED BY <1>2, <1>5, <1>6, <1>8, <2>1, HoldsCharged
  <1> QED BY <1>7, <1>8

\* consume keeps the books, whether it charges or finds the charge made.
LEMMA ConsumeSafe ==
    ASSUME WalletInvariant, NEW r \in Requests, Consume(r)
    PROVE  WalletInvariant'
  <1>1. BalanceTypeOK /\ SettledMeansCharged
    BY DEF WalletInvariant
  <1>2. CASE spent[r] # None
    <2>1. /\ wallet' = ReclaimedWallet /\ resv' = ReclaimedResv
          /\ UNCHANGED <<issued, usage, spent, credited, ops>>
      BY <1>2 DEF Consume
    <2> QED BY <2>1, ReclaimSafe
  <1>3. CASE spent[r] = None
    <2>1. PICK x \in Nat : x = Reserved(resv, Lapsed)
      BY <1>1, ReclaimedRows
    <2>2. /\ wallet' = Debit(Thaw(wallet, x), usage[r])
          /\ spent' = [spent EXCEPT ![r] = usage[r]]
          /\ UNCHANGED <<issued, usage, credited, ops>> /\ usage[r] # None
          /\ resv' = ReclaimedResv
      BY <1>3, <2>1 DEF Consume, ReclaimedWallet
    <2>3. resv' \in Rows /\ ActiveReserved(resv)' = ActiveReserved(resv) - x
      BY <2>1, <2>2, ReclaimedRow
    <2>4. \A q \in Requests : resv'[q].status = "settled" => q = r \/ spent[q] # None
      BY <1>1, <2>2, ReclaimedStatus DEF SettledMeansCharged
    <2> QED BY <1>3, <2>2, <2>3, <2>4, HoldsCharged
  <1> QED BY <1>2, <1>3

\* reserve keeps the books, for a new reservation and for one it resizes.
LEMMA ReserveSafe ==
    ASSUME WalletInvariant, NEW r \in Requests, NEW o \in Owners,
           NEW requested \in Amounts, Reserve(r, o, requested)
    PROVE  WalletInvariant'
  <1>1. BalanceTypeOK /\ LedgerReconciles /\ FrozenExplained /\ SettledMeansCharged
    BY DEF WalletInvariant
  <1>2. /\ wallet \in Drafts /\ wallet.available \in Int /\ wallet.frozen \in Nat
        /\ wallet.recharged \in Nat /\ wallet.consumed \in Nat
        /\ Charged \in Nat /\ credited \in Nat
        /\ Applied("recharge") \in Nat /\ Applied("consume") \in Nat
        /\ Applied("freeze") \in Nat /\ Applied("unfreeze") \in Nat
        /\ ActiveReserved(resv) \in Nat
    BY Numbers DEF OpKinds
  <1>3. PICK amount \in Amounts : amount = AmountToReserve(requested)
    BY BalanceAssumption DEF AmountToReserve
  <1>4. PICK v \in Rows : v = ReclaimedResv
    BY ReclaimedRow
  <1>5. PICK x \in Nat : x = Reserved(resv, Lapsed)
    BY ReclaimedRow
  <1>6. PICK w \in Drafts : /\ w = ReclaimedWallet
                            /\ w.available = wallet.available + x /\ w.frozen = wallet.frozen - x
                            /\ w.recharged = wallet.recharged /\ w.consumed = wallet.consumed
    BY <1>5, ReclaimedRow
  <1>7. ActiveReserved(v) \in Nat /\ ActiveReserved(v) = ActiveReserved(resv) - x
    BY <1>4, <1>5, ReclaimedRow
  <1>8. PICK y \in Nat : y = Replaced(v, r)
    BY HeldIsReserved
  <1>9. amount \in Nat /\ amount - y \in Int
    BY BalanceAssumption
  <1>10. /\ wallet' = Freeze(w, amount - y)
         /\ resv' = [v EXCEPT ![r] = [status |-> "active", owner |-> o, amount |-> amount,
                                      due |-> FALSE, administrative |-> FALSE]]
         /\ issued' = issued \cup {o} /\ UNCHANGED <<usage, spent, credited, ops>>
    BY <1>3, <1>4, <1>6, <1>8 DEF Reserve
  <1>11. PICK u \in Rows : u = resv'
    <2>1. [status |-> "active", owner |-> o, amount |-> amount, due |-> FALSE,
           administrative |-> FALSE] \in Reservations
      BY DEF Reservations
    <2> QED BY <1>10, <2>1 DEF Rows
  <1>12. /\ u[r].status = "active" /\ u[r].amount = amount
         /\ \A q \in Requests : q # r => u[q] = v[q]
    BY <1>10, <1>11 DEF Rows
  <1>13. ActiveReserved(u) = ActiveReserved(v) - y + amount
    <2>1. Replaced(u, r) = amount
      BY <1>12 DEF Replaced
    <2>2. ActiveReserved(u) = ActiveReserved(v) - Replaced(v, r) + Replaced(u, r)
      BY <1>12, RowChange
    <2> QED BY <1>8, <2>1, <2>2
  <1>14. /\ wallet' \in Drafts /\ wallet'.available = w.available - (amount - y)
         /\ wallet'.frozen = w.frozen + (amount - y)
         /\ wallet'.recharged = w.recharged /\ wallet'.consumed = w.consumed
    BY <1>9, <1>10, FreezeMoves
  <1>15. /\ wallet'.available = wallet.available + x - amount + y
         /\ wallet'.frozen = wallet.frozen - x + amount - y
         /\ wallet'.recharged = wallet.recharged /\ wallet'.consumed = wallet.consumed
    BY <1>2, <1>6, <1>9, <1>14
  <1>16. ActiveReserved(resv)' \in Nat /\ ActiveReserved(resv)' = ActiveReserved(resv) - x - y + amount
    BY <1>2, <1>7, <1>9, <1>11, <1>13, HeldIsReserved
  <1>17. /\ Applied("recharge")' = Applied("recharge") /\ Applied("consume")' = Applied("consume")
         /\ Applied("freeze")' = Applied("freeze") /\ Applied("unfreeze")' = Applied("unfreeze")
         /\ Charged' = Charged
    BY <1>10, AppliedSame, ChargedSame DEF OpKinds
  <1>18. LedgerReconciles'
    BY <1>1, <1>2, <1>9, <1>10, <1>15, <1>17 DEF LedgerReconciles
  <1>19. FrozenExplained'
    BY <1>1, <1>2, <1>9, <1>15, <1>16, <1>17 DEF FrozenExplained
  <1>20. SettledMeansCharged'
    <2>1. \A q \in Requests : v[q].status = "settled" => spent[q] # None
      BY <1>1, <1>4, ReclaimedStatus DEF SettledMeansCharged
    <2> QED BY <1>1, <1>10, <1>11, <1>12, <2>1 DEF SettledMeansCharged
  <1>21. wallet'.frozen >= 0
    BY <1>2, <1>16, <1>17, <1>19 DEF FrozenExplained
  <1> QED BY <1>1, <1>10, <1>11, <1>14, <1>18, <1>19, <1>20, <1>21, Together DEF BalanceTypeOK

\* A payment or a tip is credited once.
LEMMA CreditSafe ==
    ASSUME WalletInvariant, NEW amount \in Amounts, Credit(amount)
    PROVE  WalletInvariant'
  <1>1. BalanceTypeOK /\ LedgerReconciles /\ FrozenExplained /\ SettledMeansCharged
    BY DEF WalletInvariant
  <1>2. /\ wallet \in Drafts /\ wallet.available \in Int /\ wallet.frozen \in Nat
        /\ wallet.recharged \in Nat /\ wallet.consumed \in Nat
        /\ Charged \in Nat /\ credited \in Nat
        /\ Applied("recharge") \in Nat /\ Applied("consume") \in Nat
        /\ Applied("freeze") \in Nat /\ Applied("unfreeze") \in Nat
        /\ resv \in Rows
    BY Numbers DEF OpKinds
  <1>3. amount \in Nat
    BY BalanceAssumption
  <1>4. /\ wallet' \in Drafts /\ wallet'.available = wallet.available + amount
        /\ wallet'.frozen = wallet.frozen /\ wallet'.recharged = wallet.recharged + amount
        /\ wallet'.consumed = wallet.consumed
    BY <1>2, <1>3, RechargeMoves DEF Credit
  <1>5. /\ Applied("recharge")' = Applied("recharge") /\ Applied("consume")' = Applied("consume")
        /\ Applied("freeze")' = Applied("freeze") /\ Applied("unfreeze")' = Applied("unfreeze")
        /\ Charged' = Charged
    BY AppliedSame, ChargedSame DEF OpKinds, Credit
  <1>6. credited' = credited + amount /\ UNCHANGED <<resv, issued, usage, spent, ops>>
    BY DEF Credit
  <1>7. LedgerReconciles'
    BY <1>1, <1>2, <1>3, <1>4, <1>5, <1>6 DEF LedgerReconciles
  <1>8. FrozenExplained'
    BY <1>1, <1>2, <1>4, <1>5, <1>6 DEF FrozenExplained
  <1>9. SettledMeansCharged'
    BY <1>1, <1>6 DEF SettledMeansCharged
  <1> QED BY <1>1, <1>2, <1>3, <1>4, <1>6, <1>7, <1>8, <1>9, Together DEF BalanceTypeOK

\* An administrator's operation is booked once, and does not touch what
\* requests reserved.
LEMMA OperationSafe ==
    ASSUME WalletInvariant, NEW k \in Keys, NEW kind \in OpKinds,
           NEW amount \in Amounts, ManualOperation(k, kind, amount)
    PROVE  WalletInvariant'
  <1>1. BalanceTypeOK /\ LedgerReconciles /\ FrozenExplained /\ SettledMeansCharged
    BY DEF WalletInvariant
  <1>2. /\ wallet \in Drafts /\ wallet.available \in Int /\ wallet.frozen \in Nat
        /\ wallet.recharged \in Nat /\ wallet.consumed \in Nat
        /\ Charged \in Nat /\ credited \in Nat
        /\ Applied("recharge") \in Nat /\ Applied("consume") \in Nat
        /\ Applied("freeze") \in Nat /\ Applied("unfreeze") \in Nat
        /\ resv \in Rows /\ ActiveReserved(resv) \in Nat
    BY Numbers DEF OpKinds
  <1>3. amount \in Nat
    BY BalanceAssumption
  <1>4. /\ ops[k] = None /\ ops' = [ops EXCEPT ![k] = [kind |-> kind, amount |-> amount]]
        /\ UNCHANGED <<issued, usage, spent, credited>>
    BY DEF ManualOperation
  <1>5. \A other \in OpKinds :
           Applied(other)' = Applied(other) + IF other = kind THEN amount ELSE 0
    BY <1>1, <1>4, AppliedOnce
  <1>6. Charged' = Charged
    BY <1>4, ChargedSame
  <1>7. ops' \in [Keys -> Operations \cup {None}]
    <2>1. [kind |-> kind, amount |-> amount] \in Operations
      BY DEF Operations
    <2> QED BY <1>1, <1>4, <2>1 DEF BalanceTypeOK
  <1>8. PICK x \in Nat : x = Reserved(resv, Lapsed)
    BY ReclaimedRow
  <1>9. PICK w \in Drafts : /\ w = ReclaimedWallet
                            /\ w.available = wallet.available + x /\ w.frozen = wallet.frozen - x
                            /\ w.recharged = wallet.recharged /\ w.consumed = wallet.consumed
    BY <1>8, ReclaimedRow
  <1>10. /\ ReclaimedResv \in Rows /\ ActiveReserved(ReclaimedResv) \in Nat
         /\ ActiveReserved(ReclaimedResv) = ActiveReserved(resv) - x
    BY <1>8, ReclaimedRow
  <1>11. \A q \in Requests : ReclaimedResv[q].status = "settled" => spent[q] # None
    BY <1>1, ReclaimedStatus DEF SettledMeansCharged
  <1>12. CASE kind = "recharge" /\ ManualRecharge(amount)
    <2>1. resv' = resv /\ wallet' = Recharge(wallet, amount)
      BY <1>12 DEF ManualRecharge
    <2>2. /\ wallet' \in Drafts /\ wallet'.available = wallet.available + amount
          /\ wallet'.frozen = wallet.frozen /\ wallet'.recharged = wallet.recharged + amount
          /\ wallet'.consumed = wallet.consumed
      BY <1>2, <1>3, <2>1, RechargeMoves
    <2>3. /\ Applied("recharge")' = Applied("recharge") + amount /\ Applied("consume")' = Applied("consume")
          /\ Applied("freeze")' = Applied("freeze") /\ Applied("unfreeze")' = Applied("unfreeze")
      BY <1>2, <1>5, <1>12 DEF OpKinds
    <2>4. LedgerReconciles'
      BY <1>1, <1>2, <1>3, <1>4, <1>6, <2>2, <2>3 DEF LedgerReconciles
    <2>5. FrozenExplained'
      BY <1>1, <1>2, <2>1, <2>2, <2>3 DEF FrozenExplained
    <2>6. SettledMeansCharged'
      BY <1>1, <1>4, <2>1 DEF SettledMeansCharged
    <2> QED BY <1>1, <1>2, <1>4, <1>7, <2>1, <2>2, <2>4, <2>5, <2>6, Together DEF BalanceTypeOK
  <1>13. CASE kind = "consume" /\ ManualConsume(amount)
    <2>1. resv' = ReclaimedResv /\ wallet' = Debit(w, amount)
      BY <1>9, <1>13 DEF ManualConsume
    <2>2. /\ wallet' \in Drafts /\ wallet'.available = w.available - amount
          /\ wallet'.frozen = w.frozen /\ wallet'.recharged = w.recharged
          /\ wallet'.consumed = w.consumed + amount
      BY <1>3, <2>1, DebitMoves
    <2>3. /\ Applied("recharge")' = Applied("recharge") /\ Applied("consume")' = Applied("consume") + amount
          /\ Applied("freeze")' = Applied("freeze") /\ Applied("unfreeze")' = Applied("unfreeze")
      BY <1>2, <1>5, <1>13 DEF OpKinds
    <2>4. LedgerReconciles'
      BY <1>1, <1>2, <1>3, <1>4, <1>6, <1>9, <2>2, <2>3 DEF LedgerReconciles
    <2>5. FrozenExplained'
      BY <1>1, <1>2, <1>9, <1>10, <2>1, <2>2, <2>3 DEF FrozenExplained
    <2>6. SettledMeansCharged'
      BY <1>1, <1>4, <1>11, <2>1 DEF SettledMeansCharged
    <2>7. wallet'.frozen >= 0
      BY <1>2, <1>10, <2>1, <2>3, <2>5 DEF FrozenExplained
    <2> QED BY <1>1, <1>4, <1>7, <1>10, <2>1, <2>2, <2>4, <2>5, <2>6, <2>7, Together DEF BalanceTypeOK
  <1>14. CASE kind = "freeze" /\ ManualFreeze(amount)
    <2>1. resv' = ReclaimedResv /\ wallet' = Freeze(w, amount)
      BY <1>9, <1>14 DEF ManualFreeze
    <2>2. /\ wallet' \in Drafts /\ wallet'.available = w.available - amount
          /\ wallet'.frozen = w.frozen + amount /\ wallet'.recharged = w.recharged
          /\ wallet'.consumed = w.consumed
      <3>1. amount \in Int
        BY <1>3
      <3> QED BY <2>1, <3>1, FreezeMoves
    <2>3. /\ Applied("recharge")' = Applied("recharge") /\ Applied("consume")' = Applied("consume")
          /\ Applied("freeze")' = Applied("freeze") + amount /\ Applied("unfreeze")' = Applied("unfreeze")
      BY <1>2, <1>5, <1>14 DEF OpKinds
    <2>4. LedgerReconciles'
      BY <1>1, <1>2, <1>3, <1>4, <1>6, <1>9, <2>2, <2>3 DEF LedgerReconciles
    <2>5. FrozenExplained'
      BY <1>1, <1>2, <1>3, <1>9, <1>10, <2>1, <2>2, <2>3 DEF FrozenExplained
    <2>6. SettledMeansCharged'
      BY <1>1, <1>4, <1>11, <2>1 DEF SettledMeansCharged
    <2>7. wallet'.frozen >= 0
      BY <1>2, <1>3, <1>10, <2>1, <2>3, <2>5 DEF FrozenExplained
    <2> QED BY <1>1, <1>4, <1>7, <1>10, <2>1, <2>2, <2>4, <2>5, <2>6, <2>7, Together DEF BalanceTypeOK
  <1>15. CASE kind = "unfreeze" /\ ManualUnfreeze(amount)
    <2>1. /\ resv' = ReclaimedResv /\ wallet' = Thaw(w, amount)
          /\ w.frozen - ActiveReserved(ReclaimedResv) >= amount
      BY <1>9, <1>15 DEF ManualUnfreeze, ManuallyFrozen
    <2>2. /\ wallet' \in Drafts /\ wallet'.available = w.available + amount
          /\ wallet'.frozen = w.frozen - amount /\ wallet'.recharged = w.recharged
          /\ wallet'.consumed = w.consumed
      <3>1. amount \in Int
        BY <1>3
      <3> QED BY <2>1, <3>1, ThawMoves
    <2>3. /\ Applied("recharge")' = Applied("recharge") /\ Applied("consume")' = Applied("consume")
          /\ Applied("freeze")' = Applied("freeze") /\ Applied("unfreeze")' = Applied("unfreeze") + amount
      BY <1>2, <1>5, <1>15 DEF OpKinds
    <2>4. LedgerReconciles'
      BY <1>1, <1>2, <1>3, <1>4, <1>6, <1>9, <2>2, <2>3 DEF LedgerReconciles
    <2>5. FrozenExplained'
      BY <1>1, <1>2, <1>3, <1>9, <1>10, <2>1, <2>2, <2>3 DEF FrozenExplained
    <2>6. SettledMeansCharged'
      BY <1>1, <1>4, <1>11, <2>1 DEF SettledMeansCharged
    <2>7. wallet'.frozen >= 0
      BY <1>2, <1>3, <1>9, <1>10, <2>1, <2>2
    <2> QED BY <1>1, <1>4, <1>7, <1>10, <2>1, <2>2, <2>4, <2>5, <2>6, <2>7, Together DEF BalanceTypeOK
  <1> QED BY <1>12, <1>13, <1>14, <1>15 DEF ManualOperation

\* A new wallet.
LEMMA WalletInitially ==
    ASSUME BalanceInit
    PROVE  WalletInvariant
  <1>1. /\ wallet = [available |-> 0, frozen |-> 0, recharged |-> 0, consumed |-> 0]
        /\ resv = [r \in Requests |-> NoReservation] /\ issued = {}
        /\ usage = [r \in Requests |-> None] /\ spent = [r \in Requests |-> None]
        /\ credited = 0 /\ ops = [k \in Keys |-> None]
    BY DEF BalanceInit
  <1>2. BalanceTypeOK
    <2>1. NoReservation \in Reservations
      BY BalanceAssumption DEF NoReservation, Reservations
    <2>2. wallet \in Wallets
      BY <1>1 DEF Wallets
    <2> QED BY <1>1, <2>1, <2>2 DEF BalanceTypeOK
  <1>3. \A x \in OpKinds : Applied(x) = 0
    <2> SUFFICES ASSUME NEW x \in OpKinds PROVE Applied(x) = 0
      OBVIOUS
    <2> DEFINE w == [k \in Keys |-> IF ops[k] # None /\ ops[k].kind = x THEN ops[k].amount ELSE 0]
    <2>1. NumKeys \in Nat /\ \A i \in 1..NumKeys : w[i] = 0
      BY <1>1, BalanceAssumption DEF Keys
    <2> HIDE DEF w
    <2>2. Sum(w, NumKeys) = 0
      BY <2>1, SumZero
    <2> QED BY <2>2 DEF Applied, w
  <1>4. Charged = 0
    <2> DEFINE w == [r \in Requests |-> IF spent[r] = None THEN 0 ELSE spent[r]]
    <2>1. NumRequests \in Nat /\ \A i \in 1..NumRequests : w[i] = 0
      BY <1>1, BalanceAssumption DEF Requests
    <2> HIDE DEF w
    <2>2. Sum(w, NumRequests) = 0
      BY <2>1, SumZero
    <2> QED BY <2>2 DEF Charged, w
  <1>5. ActiveReserved(resv) = 0
    <2> DEFINE w == [r \in Requests |-> IF r \in Active(resv) THEN resv[r].amount ELSE 0]
    <2>1. NumRequests \in Nat /\ \A i \in 1..NumRequests : w[i] = 0
      BY <1>1, BalanceAssumption DEF Requests, NoReservation
    <2> HIDE DEF w
    <2>2. Sum(w, NumRequests) = 0
      BY <2>1, SumZero
    <2> QED BY <2>2 DEF ActiveReserved, Reserved, w
  <1>6. /\ Applied("recharge") = 0 /\ Applied("consume") = 0
        /\ Applied("freeze") = 0 /\ Applied("unfreeze") = 0
    BY <1>3 DEF OpKinds
  <1>7. LedgerReconciles
    BY <1>1, <1>4, <1>6 DEF LedgerReconciles
  <1>8. FrozenExplained
    BY <1>1, <1>5, <1>6 DEF FrozenExplained
  <1>9. SettledMeansCharged
    BY <1>1 DEF SettledMeansCharged, NoReservation
  <1> QED BY <1>2, <1>7, <1>8, <1>9 DEF WalletInvariant

\* A usage log is saved once, before it is charged.
LEMMA SaveUsageSafe ==
    ASSUME WalletInvariant, NEW r \in Requests, NEW amount \in Amounts,
           SaveUsage(r, amount)
    PROVE  WalletInvariant'
  <1>1. BalanceTypeOK /\ LedgerReconciles /\ FrozenExplained /\ SettledMeansCharged
    BY DEF WalletInvariant
  <1>2. /\ usage[r] = None /\ usage' = [usage EXCEPT ![r] = amount]
        /\ UNCHANGED <<wallet, resv, issued, spent, credited, ops>>
    BY DEF SaveUsage
  <1>3. BalanceTypeOK'
    BY <1>1, <1>2 DEF BalanceTypeOK
  <1>4. LedgerReconciles' /\ FrozenExplained'
    <2>1. (\A x \in OpKinds : Applied(x)' = Applied(x)) /\ Charged' = Charged
      BY <1>2, AppliedSame, ChargedSame
    <2> QED BY <1>1, <1>2, <2>1 DEF LedgerReconciles, FrozenExplained, OpKinds
  <1>5. SettledMeansCharged'
    BY <1>1, <1>2 DEF SettledMeansCharged, BalanceTypeOK
  <1> QED BY <1>3, <1>4, <1>5 DEF WalletInvariant

\* The passing of expires_at moves no money.
LEMMA LapseSafe ==
    ASSUME WalletInvariant, NEW r \in Requests, Lapse(r)
    PROVE  /\ WalletInvariant'
           /\ ActiveReserved(resv)' = ActiveReserved(resv)
           /\ \A q \in Requests : Replaced(resv', q) = Replaced(resv, q)
  <1>1. BalanceTypeOK /\ LedgerReconciles /\ FrozenExplained /\ SettledMeansCharged
    BY DEF WalletInvariant
  <1>2. resv' = [resv EXCEPT ![r].due = TRUE] /\ UNCHANGED <<wallet, issued, usage, spent, credited, ops>>
    BY DEF Lapse
  <1>3. resv' \in Rows /\ resv \in Rows
    BY <1>1, <1>2 DEF BalanceTypeOK, Rows, Reservations
  <1>4. \A q \in Requests : resv'[q].status = resv[q].status /\ resv'[q].amount = resv[q].amount
    BY <1>1, <1>2 DEF BalanceTypeOK, Reservations
  <1>5. \A q \in Requests : Replaced(resv', q) = Replaced(resv, q)
    BY <1>4 DEF Replaced
  <1>6. ActiveReserved(resv)' = ActiveReserved(resv)
    <2>1. ActiveReserved(resv) = Sum([q \in Requests |-> Replaced(resv, q)], NumRequests)
      BY <1>3, HeldIsReserved
    <2>2. ActiveReserved(resv') = Sum([q \in Requests |-> Replaced(resv', q)], NumRequests)
      BY <1>3, HeldIsReserved
    <2>3. [q \in Requests |-> Replaced(resv', q)] = [q \in Requests |-> Replaced(resv, q)]
      BY <1>5
    <2> QED BY <2>1, <2>2, <2>3, Zenon
  <1>7. BalanceTypeOK'
    BY <1>1, <1>2, <1>3 DEF BalanceTypeOK, Rows
  <1>8. LedgerReconciles' /\ FrozenExplained'
    <2>1. (\A x \in OpKinds : Applied(x)' = Applied(x)) /\ Charged' = Charged
      BY <1>2, AppliedSame, ChargedSame
    <2> QED BY <1>1, <1>2, <1>6, <2>1 DEF LedgerReconciles, FrozenExplained, OpKinds
  <1>9. SettledMeansCharged'
    BY <1>1, <1>2, <1>4 DEF SettledMeansCharged
  <1> QED BY <1>5, <1>6, <1>7, <1>8, <1>9 DEF WalletInvariant

\* Every step keeps the books.
LEMMA WalletStep ==
    ASSUME WalletInvariant, [BalanceNext]_balanceVars
    PROVE  WalletInvariant'
  <1>1. CASE \E elsewhere \in Amounts : ReclaimExpired(elsewhere)
    BY <1>1, ReclaimSafe DEF ReclaimExpired
  <1>2. ASSUME NEW amount \in Amounts, Credit(amount) PROVE WalletInvariant'
    BY <1>2, CreditSafe
  <1>3. ASSUME NEW k \in Keys, NEW kind \in OpKinds, NEW amount \in Amounts,
               ManualOperation(k, kind, amount)
        PROVE  WalletInvariant'
    BY <1>3, OperationSafe
  <1>4. ASSUME NEW k \in Keys, NEW amount \in Amounts, UnfreezeDenied(k, amount)
        PROVE  WalletInvariant'
    BY <1>4, ReclaimSafe DEF UnfreezeDenied
  <1>5. ASSUME NEW r \in Requests, Lapse(r) PROVE WalletInvariant'
    BY <1>5, LapseSafe
  <1>6. ASSUME NEW r \in Requests, NEW o \in Owners, NEW forced \in BOOLEAN,
               AdminRelease(r, o, forced)
        PROVE  WalletInvariant'
    BY <1>6, ReleaseSafe DEF AdminRelease, HeldBy
  <1>7. ASSUME NEW r \in Requests, NEW o \in Owners, NEW requested \in Amounts,
               Reserve(r, o, requested)
        PROVE  WalletInvariant'
    BY <1>7, ReserveSafe
  <1>8. ASSUME NEW r \in Requests, NEW o \in Owners, Release(r, o) PROVE WalletInvariant'
    BY <1>8, ReleaseSafe DEF Release, HeldBy
  <1>9. ASSUME NEW r \in Requests, NEW o \in Owners, Settle(r, o) PROVE WalletInvariant'
    BY <1>9, SettleSafe
  <1>10. ASSUME NEW r \in Requests, NEW amount \in Amounts, SaveUsage(r, amount)
         PROVE  WalletInvariant'
    BY <1>10, SaveUsageSafe
  <1>11. ASSUME NEW r \in Requests, Consume(r) PROVE WalletInvariant'
    BY <1>11, ConsumeSafe
  <1>12. CASE UNCHANGED balanceVars
    <2>1. (\A x \in OpKinds : Applied(x)' = Applied(x)) /\ Charged' = Charged
      BY <1>12, AppliedSame, ChargedSame DEF balanceVars
    <2> QED BY <1>12, <2>1 DEF balanceVars, WalletInvariant, BalanceTypeOK,
              LedgerReconciles, FrozenExplained, SettledMeansCharged, OpKinds
  <1> QED BY <1>1, <1>2, <1>3, <1>4, <1>5, <1>6, <1>7, <1>8, <1>9, <1>10, <1>11, <1>12
          DEF BalanceNext, HouseNext, OfficeNext, RequestNext

\* The wallet's row is at all times what its transactions, its reservations and
\* its freezes add up to: no charge, credit or manual operation is lost or
\* booked twice, and what requests reserved is always covered by the frozen
\* money, so that reclaim, release and settle can run.
THEOREM WalletSafe == BalanceSpec => []WalletInvariant
  <1>1. BalanceInit => WalletInvariant
    BY WalletInitially
  <1>2. WalletInvariant /\ [BalanceNext]_balanceVars => WalletInvariant'
    BY WalletStep
  <1> QED BY <1>1, <1>2, PTL DEF BalanceSpec

-----------------------------------------------------------------------------
(* What has ended stays ended.                                             *)

\* A step keeps charges, settled reservations and administrative releases.
LEMMA EndedStep ==
    ASSUME WalletInvariant, [BalanceNext]_balanceVars, NEW r \in Requests
    PROVE  /\ spent[r] # None => spent'[r] = spent[r]
           /\ (resv[r].status = "settled" \/ AdministrativelyReleased(resv[r]))
                 => resv'[r] = resv[r]
  <1> DEFINE Ended == resv[r].status = "settled" \/ AdministrativelyReleased(resv[r])
  <1>1. BalanceTypeOK
    BY DEF WalletInvariant
  <1>2. Ended => resv[r].status # "active" /\ ReclaimedResv[r] = resv[r]
    BY <1>1, ReclaimedStatus DEF AdministrativelyReleased
  <1>3. ASSUME NEW q \in Requests, spent[q] = None,
               spent' = [spent EXCEPT ![q] = usage[q]]
        PROVE  spent[r] # None => spent'[r] = spent[r]
    BY <1>1, <1>3 DEF BalanceTypeOK
  <1>4. ASSUME NEW q \in Requests, resv[q].status = "active",
               \A p \in Requests : p # q => resv'[p] = resv[p]
        PROVE  Ended => resv'[r] = resv[r]
    BY <1>2, <1>4
  <1>5. ASSUME NEW q \in Requests, NEW o \in Owners, Settle(q, o)
        PROVE  /\ spent[r] # None => spent'[r] = spent[r]
               /\ Ended => resv'[r] = resv[r]
    <2>1. resv[q].status = "active" /\ \A p \in Requests : p # q => resv'[p] = resv[p]
      BY <1>1, <1>5, StatusSet DEF Settle, HeldBy
    <2>2. Ended => resv'[r] = resv[r]
      BY <1>4, <2>1
    <2>3. spent[r] # None => spent'[r] = spent[r]
      BY <1>3, <1>5 DEF Settle
    <2> QED BY <2>2, <2>3
  <1>6. ASSUME NEW q \in Requests, NEW o \in Owners, NEW requested \in Amounts,
               Reserve(q, o, requested)
        PROVE  /\ spent[r] # None => spent'[r] = spent[r]
               /\ Ended => resv'[r] = resv[r]
    <2>1. spent' = spent /\ Reusable(ReclaimedResv[q])
      BY <1>6 DEF Reserve, Reservable
    <2>2. \A p \in Requests : p # q => resv'[p] = ReclaimedResv[p]
      BY <1>6 DEF Reserve, ReclaimedResv
    <2>3. Ended => r # q
      BY <1>2, <2>1 DEF Reusable
    <2> QED BY <1>2, <2>1, <2>2, <2>3
  <1>7. ASSUME NEW q \in Requests, Consume(q)
        PROVE  /\ spent[r] # None => spent'[r] = spent[r]
               /\ Ended => resv'[r] = resv[r]
    <2>1. Ended => resv'[r] = resv[r]
      BY <1>2, <1>7 DEF Consume
    <2>2. spent[r] # None => spent'[r] = spent[r]
      BY <1>3, <1>7 DEF Consume
    <2> QED BY <2>1, <2>2
  <1>8. ASSUME NEW q \in Requests, Lapse(q)
        PROVE  spent' = spent /\ (Ended => resv'[r] = resv[r])
    <2>1. /\ resv[q].status = "active" /\ spent' = spent
          /\ \A p \in Requests : p # q => resv'[p] = resv[p]
      BY <1>1, <1>8 DEF Lapse, Active, BalanceTypeOK
    <2> QED BY <1>4, <2>1
  <1>9. ASSUME NEW q \in Requests, NEW o \in Owners,
               Release(q, o) \/ \E forced \in BOOLEAN : AdminRelease(q, o, forced)
        PROVE  spent' = spent /\ (Ended => resv'[r] = resv[r])
    <2>1. resv[q].status = "active" /\ \A p \in Requests : p # q => resv'[p] = resv[p]
      BY <1>1, <1>9, StatusSet DEF Release, AdminRelease, HeldBy
    <2>2. spent' = spent
      BY <1>9 DEF Release, AdminRelease
    <2> QED BY <1>4, <2>1, <2>2
  <1>10. CASE \/ \E elsewhere \in Amounts : ReclaimExpired(elsewhere)
              \/ \E k \in Keys, amount \in Amounts : UnfreezeDenied(k, amount)
    BY <1>2, <1>10 DEF ReclaimExpired, UnfreezeDenied
  <1>11. CASE \E amount \in Amounts : Credit(amount)
    BY <1>11 DEF Credit
  <1>12. CASE \E k \in Keys, kind \in OpKinds, amount \in Amounts : ManualOperation(k, kind, amount)
    <2>1. spent' = spent /\ (resv' = resv \/ resv' = ReclaimedResv)
      BY <1>12 DEF ManualOperation, ManualRecharge, ManualConsume, ManualFreeze, ManualUnfreeze
    <2> QED BY <1>2, <2>1
  <1>13. CASE \E q \in Requests, amount \in Amounts : SaveUsage(q, amount)
    BY <1>13 DEF SaveUsage
  <1>14. CASE UNCHANGED balanceVars
    BY <1>14 DEF balanceVars
  <1> HIDE DEF Ended
  <1>15. CASE HouseNext
    BY <1>8, <1>9, <1>10, <1>11, <1>12, <1>15 DEF HouseNext, OfficeNext, Ended
  <1>16. CASE RequestNext
    BY <1>5, <1>6, <1>7, <1>9, <1>13, <1>16 DEF RequestNext, Ended
  <1> QED BY <1>14, <1>15, <1>16 DEF BalanceNext

\* What a request was charged stays, and neither a settled reservation nor one
\* an administrator released is ever taken again.
THEOREM EndedStays == BalanceSpec => EndedForGood
  <1>1. WalletInvariant /\ [BalanceNext]_balanceVars =>
            [\A r \in Requests :
                /\ spent[r] # None => spent'[r] = spent[r]
                /\ (resv[r].status = "settled" \/ AdministrativelyReleased(resv[r]))
                      => resv'[r] = resv[r]]_balanceVars
    BY EndedStep
  <1> QED BY <1>1, WalletSafe, PTL DEF BalanceSpec, EndedForGood

-----------------------------------------------------------------------------
(* The rows implement the contract.  money is the two columns together,    *)
(* held the active rows, pinned what is frozen beyond them.                *)

\* The contract adds up as the rows do.
LEMMA ContractSum ==
    ASSUME NEW w, NEW n
    PROVE  Contract!Sum(w, n) = Sum(w, n)
  BY Zenon DEF Contract!Sum, Sum

\* What is held once the holds of S are dropped.
LEMMA Kept ==
    ASSUME NEW S
    PROVE  Contract!Without(S) = [r \in Requests |-> IF r \in S THEN 0 ELSE Replaced(resv, r)]
  BY DEF Contract!Without, Contract!Holders, Requests

\* Holds of x are dropped and nothing else happens.
LEMMA DropRefines ==
    ASSUME WalletInvariant, NEW S \in SUBSET Requests, NEW x \in Nat,
           wallet' = Thaw(wallet, x), ActiveReserved(resv)' = ActiveReserved(resv) - x,
           \A q \in Requests : Replaced(resv', q) = IF q \in S THEN 0 ELSE Replaced(resv, q),
           spent' = spent
    PROVE  Contract!Next
  <1>1. /\ wallet \in Drafts /\ wallet.available \in Int /\ wallet.frozen \in Nat
        /\ ActiveReserved(resv) \in Nat /\ x \in Int
    BY Numbers
  <1>2. wallet'.available = wallet.available + x /\ wallet'.frozen = wallet.frozen - x
    BY <1>1, ThawMoves
  <1>3. [r \in Requests |-> Replaced(resv', r)] = Contract!Without(S)
    BY Kept
  <1>4. /\ wallet'.available + wallet'.frozen = wallet.available + wallet.frozen
        /\ wallet'.frozen - ActiveReserved(resv') = wallet.frozen - ActiveReserved(resv)
    BY <1>1, <1>2
  <1>5. Contract!Drop(S)
    BY <1>3, <1>4 DEF Contract!Drop
  <1> QED BY <1>5 DEF Contract!Next, Contract!Holders, Requests

\* Holds of x are dropped and a request is charged.
LEMMA ChargeRefines ==
    ASSUME WalletInvariant, NEW S \in SUBSET Requests, NEW x \in Nat, NEW r \in Requests,
           wallet' = Debit(Thaw(wallet, x), usage[r]), usage[r] # None,
           ActiveReserved(resv)' = ActiveReserved(resv) - x,
           \A q \in Requests : Replaced(resv', q) = IF q \in S THEN 0 ELSE Replaced(resv, q),
           spent[r] = None, spent' = [spent EXCEPT ![r] = usage[r]]
    PROVE  Contract!Next
  <1>1. /\ wallet \in Drafts /\ wallet.available \in Int /\ wallet.frozen \in Nat
        /\ ActiveReserved(resv) \in Nat /\ x \in Int
    BY Numbers
  <1>2. PICK a \in Amounts : a = usage[r]
    BY DEF WalletInvariant, BalanceTypeOK
  <1>3. a \in Nat
    BY BalanceAssumption
  <1>4. PICK w \in Drafts : /\ w = Thaw(wallet, x) /\ w.available = wallet.available + x
                            /\ w.frozen = wallet.frozen - x
    BY <1>1, ThawMoves
  <1>5. wallet'.available = w.available - a /\ wallet'.frozen = w.frozen
    BY <1>2, <1>3, <1>4, DebitMoves
  <1>6. [q \in Requests |-> Replaced(resv', q)] = Contract!Without(S)
    BY Kept
  <1>7. /\ wallet'.available + wallet'.frozen = (wallet.available + wallet.frozen) - a
        /\ wallet'.frozen - ActiveReserved(resv') = wallet.frozen - ActiveReserved(resv)
    BY <1>1, <1>3, <1>4, <1>5
  <1>8. Contract!Charge(S, r, a)
    <2>1. spent[r] = None /\ spent' = [spent EXCEPT ![r] = a]
      BY <1>2
    <2> QED BY <1>6, <1>7, <2>1 DEF Contract!Charge
  <1> QED BY <1>8 DEF Contract!Next, Contract!Holders, Requests

\* What the reclaim leaves held.
LEMMA LapsedDropped ==
    ASSUME BalanceTypeOK, NEW q \in Requests
    PROVE  Replaced(ReclaimedResv, q) = IF q \in Lapsed THEN 0 ELSE Replaced(resv, q)
  <1>1. resv[q] \in Reservations
    BY DEF BalanceTypeOK
  <1>2. CASE q \in Lapsed
    <2>1. ReclaimedResv[q].status = "expired"
      BY <1>1, <1>2 DEF ReclaimedResv, Reservations
    <2> QED BY <1>2, <2>1 DEF Replaced
  <1>3. CASE q \notin Lapsed
    BY <1>3 DEF ReclaimedResv, Replaced
  <1> QED BY <1>2, <1>3

\* A reclaim drops the lapsed holds.
LEMMA ReclaimRefines ==
    ASSUME WalletInvariant, wallet' = ReclaimedWallet, resv' = ReclaimedResv, spent' = spent
    PROVE  Contract!Next
  <1>1. BalanceTypeOK
    BY DEF WalletInvariant
  <1>2. PICK x \in Nat : x = Reserved(resv, Lapsed)
    BY ReclaimedRow
  <1>3. PICK S \in SUBSET Requests : S = Lapsed
    BY DEF Lapsed, Active
  <1>4. wallet' = Thaw(wallet, x) /\ ActiveReserved(resv)' = ActiveReserved(resv) - x
    BY <1>2, ReclaimedRow DEF ReclaimedWallet
  <1>5. \A q \in Requests : Replaced(resv', q) = IF q \in S THEN 0 ELSE Replaced(resv, q)
    BY <1>1, <1>3, LapsedDropped
  <1> QED BY <1>4, <1>5, DropRefines

\* The end of a reservation drops its hold.
LEMMA EndRefines ==
    ASSUME BalanceTypeOK, NEW r \in Requests, resv[r].status = "active",
           resv' \in Rows, resv'[r].status # "active",
           \A q \in Requests : q # r => resv'[q] = resv[q]
    PROVE  \A q \in Requests :
               Replaced(resv', q) = IF q \in {r} THEN 0 ELSE Replaced(resv, q)
  BY DEF Replaced

\* A release drops one hold.
LEMMA ReleaseRefines ==
    ASSUME WalletInvariant, NEW r \in Requests, resv[r].status = "active",
           wallet' = Thaw(wallet, resv[r].amount), spent' = spent,
           \/ resv' = [resv EXCEPT ![r].status = "released"]
           \/ resv' = [resv EXCEPT ![r].status = "released",
                                   ![r].administrative = TRUE]
    PROVE  Contract!Next
  <1>1. BalanceTypeOK
    BY DEF WalletInvariant
  <1>2. /\ resv' \in Rows /\ resv'[r].status = "released"
        /\ \A q \in Requests : q # r => resv'[q] = resv[q]
    BY <1>1, StatusSet
  <1>3. /\ ActiveReserved(resv)' = ActiveReserved(resv) - resv[r].amount
        /\ resv[r].amount \in Nat
    BY <1>1, <1>2, RowEnds
  <1>4. PICK x \in Nat : x = resv[r].amount
    BY <1>3
  <1>5. PICK S \in SUBSET Requests : S = {r}
    OBVIOUS
  <1>6. \A q \in Requests : Replaced(resv', q) = IF q \in S THEN 0 ELSE Replaced(resv, q)
    BY <1>1, <1>2, <1>5, EndRefines
  <1>7. wallet' = Thaw(wallet, x) /\ ActiveReserved(resv)' = ActiveReserved(resv) - x
    BY <1>3, <1>4
  <1> QED BY <1>6, <1>7, DropRefines

\* A settlement charges the request, or drops the hold of one charged before.
LEMMA SettleRefines ==
    ASSUME WalletInvariant, NEW r \in Requests, NEW o \in Owners, Settle(r, o)
    PROVE  Contract!Next
  <1>1. BalanceTypeOK
    BY DEF WalletInvariant
  <1>2. /\ resv' \in Rows /\ resv'[r].status = "settled"
        /\ \A q \in Requests : q # r => resv'[q] = resv[q]
        /\ resv[r].status = "active"
    BY <1>1, StatusSet DEF Settle, HeldBy
  <1>3. /\ ActiveReserved(resv)' = ActiveReserved(resv) - resv[r].amount
        /\ resv[r].amount \in Nat
    BY <1>1, <1>2, RowEnds
  <1>4. PICK x \in Nat : x = resv[r].amount
    BY <1>3
  <1>5. PICK S \in SUBSET Requests : S = {r}
    OBVIOUS
  <1>6. \A q \in Requests : Replaced(resv', q) = IF q \in S THEN 0 ELSE Replaced(resv, q)
    BY <1>1, <1>2, <1>5, EndRefines
  <1>7. ActiveReserved(resv)' = ActiveReserved(resv) - x
    BY <1>3, <1>4
  <1>8. CASE spent[r] # None
    <2>1. wallet' = Thaw(wallet, x) /\ spent' = spent
      BY <1>4, <1>8 DEF Settle
    <2> QED BY <1>6, <1>7, <2>1, DropRefines
  <1>9. CASE spent[r] = None
    <2>1. /\ wallet' = Debit(Thaw(wallet, x), usage[r]) /\ usage[r] # None
          /\ spent' = [spent EXCEPT ![r] = usage[r]]
      BY <1>4, <1>9 DEF Settle
    <2> QED BY <1>6, <1>7, <1>9, <2>1, ChargeRefines
  <1> QED BY <1>8, <1>9

\* consume charges the request, or does no more than reclaim.
LEMMA ConsumeRefines ==
    ASSUME WalletInvariant, NEW r \in Requests, Consume(r)
    PROVE  Contract!Next
  <1>1. BalanceTypeOK
    BY DEF WalletInvariant
  <1>2. CASE spent[r] # None
    BY <1>2, ReclaimRefines DEF Consume
  <1>3. CASE spent[r] = None
    <2>1. PICK x \in Nat : x = Reserved(resv, Lapsed)
      BY ReclaimedRow
    <2>2. PICK S \in SUBSET Requests : S = Lapsed
      BY DEF Lapsed, Active
    <2>3. /\ wallet' = Debit(Thaw(wallet, x), usage[r]) /\ usage[r] # None
          /\ spent' = [spent EXCEPT ![r] = usage[r]] /\ resv' = ReclaimedResv
      BY <1>3, <2>1 DEF Consume, ReclaimedWallet
    <2>4. ActiveReserved(resv)' = ActiveReserved(resv) - x
      BY <2>1, <2>3, ReclaimedRow
    <2>5. \A q \in Requests : Replaced(resv', q) = IF q \in S THEN 0 ELSE Replaced(resv, q)
      BY <1>1, <2>2, <2>3, LapsedDropped
    <2> QED BY <1>3, <2>3, <2>4, <2>5, ChargeRefines
  <1> QED BY <1>2, <1>3

\* What is free once the lapsed holds are dropped.
LEMMA FreeAfterReclaim ==
    ASSUME WalletInvariant
    PROVE  Contract!Free(Contract!Without(Lapsed)) = ReclaimedWallet.available
  <1>1. BalanceTypeOK
    BY DEF WalletInvariant
  <1>2. PICK x \in Nat : x = Reserved(resv, Lapsed)
    BY ReclaimedRow
  <1>3. /\ ReclaimedWallet.available = wallet.available + x /\ ReclaimedResv \in Rows
        /\ ActiveReserved(ReclaimedResv) = ActiveReserved(resv) - x
    BY <1>2, ReclaimedRow
  <1>4. wallet.available \in Int /\ wallet.frozen \in Nat /\ ActiveReserved(resv) \in Nat
    BY Numbers
  <1>5. Contract!Without(Lapsed) = [q \in Requests |-> Replaced(ReclaimedResv, q)]
    BY <1>1, Kept, LapsedDropped
  <1>6. Sum(Contract!Without(Lapsed), NumRequests) = ActiveReserved(ReclaimedResv)
    BY <1>3, <1>5, HeldIsReserved
  <1>7. Contract!Sum(Contract!Without(Lapsed), NumRequests) = ActiveReserved(resv) - x
    BY <1>3, <1>6, ContractSum
  <1>8. Contract!Free(Contract!Without(Lapsed)) =
            (wallet.available + wallet.frozen) - (wallet.frozen - ActiveReserved(resv))
                - (ActiveReserved(resv) - x)
    BY <1>7 DEF Contract!Free
  <1> QED BY <1>3, <1>4, <1>8

\* reserve takes a hold no larger than what is free.
LEMMA ReserveRefines ==
    ASSUME WalletInvariant, NEW r \in Requests, NEW o \in Owners,
           NEW requested \in Amounts, Reserve(r, o, requested)
    PROVE  Contract!Next
  <1>1. BalanceTypeOK
    BY DEF WalletInvariant
  <1>2. /\ wallet \in Drafts /\ wallet.available \in Int /\ wallet.frozen \in Nat
        /\ ActiveReserved(resv) \in Nat
    BY Numbers
  <1>3. PICK amount \in Amounts : amount = AmountToReserve(requested)
    BY BalanceAssumption DEF AmountToReserve
  <1>4. PICK v \in Rows : v = ReclaimedResv
    BY ReclaimedRow
  <1>5. PICK x \in Nat : x = Reserved(resv, Lapsed)
    BY ReclaimedRow
  <1>6. PICK w \in Drafts : /\ w = ReclaimedWallet
                            /\ w.available = wallet.available + x /\ w.frozen = wallet.frozen - x
    BY <1>5, ReclaimedRow
  <1>7. ActiveReserved(v) \in Nat /\ ActiveReserved(v) = ActiveReserved(resv) - x
    BY <1>4, <1>5, ReclaimedRow
  <1>8. PICK y \in Nat : y = Replaced(v, r)
    BY HeldIsReserved
  <1>9. amount \in Nat /\ amount - y \in Int
    BY BalanceAssumption
  <1>10. /\ wallet' = Freeze(w, amount - y) /\ spent' = spent
         /\ w.available + y >= amount
         /\ resv' = [v EXCEPT ![r] = [status |-> "active", owner |-> o, amount |-> amount,
                                      due |-> FALSE, administrative |-> FALSE]]
    BY <1>3, <1>4, <1>6, <1>8 DEF Reserve, Reservable
  <1>11. PICK u \in Rows : u = resv'
    <2>1. [status |-> "active", owner |-> o, amount |-> amount, due |-> FALSE,
           administrative |-> FALSE] \in Reservations
      BY DEF Reservations
    <2> QED BY <1>10, <2>1 DEF Rows
  <1>12. /\ u[r].status = "active" /\ u[r].amount = amount
         /\ \A q \in Requests : q # r => u[q] = v[q]
    BY <1>10, <1>11 DEF Rows
  <1>13. Replaced(u, r) = amount /\ \A q \in Requests : q # r => Replaced(u, q) = Replaced(v, q)
    BY <1>12 DEF Replaced
  <1>14. ActiveReserved(u) = ActiveReserved(v) - y + amount
    BY <1>8, <1>12, <1>13, RowChange
  <1>15. /\ wallet'.available = w.available - (amount - y)
         /\ wallet'.frozen = w.frozen + (amount - y)
    BY <1>9, <1>10, FreezeMoves
  <1>16. /\ wallet'.available + wallet'.frozen = wallet.available + wallet.frozen
         /\ wallet'.frozen - ActiveReserved(resv') = wallet.frozen - ActiveReserved(resv)
    BY <1>2, <1>6, <1>7, <1>9, <1>11, <1>14, <1>15
  <1>17. PICK S \in SUBSET Requests : S = Lapsed
    BY DEF Lapsed, Active
  <1> DEFINE kept == Contract!Without(S \cup {r})
  <1>18. kept = [q \in Requests |-> IF q = r THEN 0 ELSE Replaced(v, q)]
    BY <1>1, <1>4, <1>17, Kept, LapsedDropped
  <1>19. [q \in Requests |-> Replaced(resv', q)] = [kept EXCEPT ![r] = amount]
    BY <1>11, <1>13, <1>18
  <1>20. Sum(kept, NumRequests) = ActiveReserved(v) - y
    <2> DEFINE h == [q \in Requests |-> Replaced(v, q)]
               k == kept
    <2>1. NumRequests \in Nat /\ r \in 1..NumRequests
      BY BalanceAssumption DEF Requests
    <2>2. \A q \in Requests : h[q] \in Nat /\ k[q] \in Nat /\ (q = r \/ k[q] = h[q])
      <3>1. \A q \in Requests : Replaced(v, q) \in Nat
        BY HeldIsReserved
      <3> HIDE DEF kept
      <3> QED BY <1>18, <3>1
    <2>3. \A q \in 1..NumRequests : h[q] \in Nat /\ k[q] \in Nat /\ (q = r \/ k[q] = h[q])
      BY <2>2 DEF Requests
    <2>4. h[r] = y /\ k[r] = 0
      BY <1>8, <1>18
    <2>5. ActiveReserved(v) = Sum(h, NumRequests)
      BY HeldIsReserved
    <2> HIDE DEF h, k
    <2>6. Sum(k, NumRequests) = Sum(h, NumRequests) - h[r] + k[r]
      BY <2>1, <2>3, SumChange
    <2>7. Sum(k, NumRequests) = ActiveReserved(v) - y
      BY <1>7, <2>4, <2>5, <2>6
    <2> QED BY <2>7 DEF k
  <1> HIDE DEF kept
  <1>21. Contract!Free(kept) >= amount
    <2>1. Contract!Sum(kept, NumRequests) = (ActiveReserved(resv) - x) - y
      BY <1>7, <1>20, ContractSum
    <2>2. Contract!Free(kept) =
            (wallet.available + wallet.frozen) - (wallet.frozen - ActiveReserved(resv))
                - ((ActiveReserved(resv) - x) - y)
      BY <2>1 DEF Contract!Free
    <2> QED BY <1>2, <1>6, <1>9, <1>10, <2>2
  <1>22. Contract!Hold(S, r, amount)
    BY <1>10, <1>16, <1>19, <1>21 DEF Contract!Hold, kept
  <1> QED BY <1>22 DEF Contract!Next, Contract!Holders, Requests

\* Payments, tips and manual operations.
LEMMA CreditRefines ==
    ASSUME WalletInvariant, NEW amount \in Amounts,
           wallet' = Recharge(wallet, amount), resv' = resv, spent' = spent
    PROVE  Contract!Next
  <1>1. /\ wallet \in Drafts /\ wallet.available \in Int /\ wallet.frozen \in Nat
        /\ ActiveReserved(resv) \in Nat /\ amount \in Nat
    BY Numbers, BalanceAssumption
  <1>2. wallet'.available = wallet.available + amount /\ wallet'.frozen = wallet.frozen
    BY <1>1, RechargeMoves
  <1>3. wallet'.available + wallet'.frozen = wallet.available + wallet.frozen + amount
    BY <1>1, <1>2
  <1>4. Contract!Credit(amount)
    BY <1>2, <1>3 DEF Contract!Credit
  <1> QED BY <1>4 DEF Contract!Next

\* A manual consume, freeze or unfreeze drops the lapsed holds first.
LEMMA OperationRefines ==
    ASSUME WalletInvariant, NEW amount \in Amounts, spent' = spent,
           ManualConsume(amount) \/ ManualFreeze(amount) \/ ManualUnfreeze(amount)
    PROVE  Contract!Next
  <1>1. BalanceTypeOK
    BY DEF WalletInvariant
  <1>2. /\ wallet \in Drafts /\ wallet.available \in Int /\ wallet.frozen \in Nat
        /\ ActiveReserved(resv) \in Nat /\ amount \in Nat /\ amount \in Int
    BY Numbers, BalanceAssumption
  <1>3. PICK x \in Nat : x = Reserved(resv, Lapsed)
    BY ReclaimedRow
  <1>4. PICK w \in Drafts : /\ w = ReclaimedWallet
                            /\ w.available = wallet.available + x /\ w.frozen = wallet.frozen - x
    BY <1>3, ReclaimedRow
  <1>5. PICK S \in SUBSET Requests : S = Lapsed
    BY DEF Lapsed, Active
  <1>6. resv' = ReclaimedResv
    BY DEF ManualConsume, ManualFreeze, ManualUnfreeze
  <1>7. [q \in Requests |-> Replaced(resv', q)] = Contract!Without(S)
    BY <1>1, <1>5, <1>6, Kept, LapsedDropped
  <1>8. ActiveReserved(resv)' = ActiveReserved(resv) - x
    BY <1>3, <1>6, ReclaimedRow
  <1>9. Contract!Free(Contract!Without(S)) = w.available
    BY <1>4, <1>5, FreeAfterReclaim
  <1>10. CASE ManualConsume(amount)
    <2>1. wallet' = Debit(w, amount) /\ w.available >= amount
      BY <1>4, <1>10 DEF ManualConsume
    <2>2. wallet'.available = w.available - amount /\ wallet'.frozen = w.frozen
      BY <1>2, <2>1, DebitMoves
    <2>3. /\ wallet'.available + wallet'.frozen = (wallet.available + wallet.frozen) - amount
          /\ wallet'.frozen - ActiveReserved(resv') = wallet.frozen - ActiveReserved(resv)
      BY <1>2, <1>4, <1>8, <2>2
    <2>4. Contract!Withdraw(S, amount)
      BY <1>7, <1>9, <2>1, <2>3 DEF Contract!Withdraw
    <2> QED BY <2>4 DEF Contract!Next, Contract!Holders, Requests
  <1>11. CASE ManualFreeze(amount)
    <2>1. wallet' = Freeze(w, amount) /\ w.available >= amount
      BY <1>4, <1>11 DEF ManualFreeze
    <2>2. wallet'.available = w.available - amount /\ wallet'.frozen = w.frozen + amount
      BY <1>2, <2>1, FreezeMoves
    <2>3. /\ wallet'.available + wallet'.frozen = wallet.available + wallet.frozen
          /\ wallet'.frozen - ActiveReserved(resv') =
                 (wallet.frozen - ActiveReserved(resv)) + amount
      BY <1>2, <1>4, <1>8, <2>2
    <2>4. Contract!Pin(S, amount)
      BY <1>7, <1>9, <2>1, <2>3 DEF Contract!Pin
    <2> QED BY <2>4 DEF Contract!Next, Contract!Holders, Requests
  <1>12. CASE ManualUnfreeze(amount)
    <2>1. wallet' = Thaw(w, amount) /\ w.frozen - ActiveReserved(resv') >= amount
      BY <1>4, <1>6, <1>12 DEF ManualUnfreeze, ManuallyFrozen
    <2>2. wallet'.available = w.available + amount /\ wallet'.frozen = w.frozen - amount
      BY <1>2, <2>1, ThawMoves
    <2>3. /\ wallet'.available + wallet'.frozen = wallet.available + wallet.frozen
          /\ wallet'.frozen - ActiveReserved(resv') =
                 (wallet.frozen - ActiveReserved(resv)) - amount
          /\ wallet.frozen - ActiveReserved(resv) >= amount
      BY <1>2, <1>4, <1>8, <2>1, <2>2
    <2>4. Contract!Unpin(S, amount)
      BY <1>7, <2>3 DEF Contract!Unpin
    <2> QED BY <2>4 DEF Contract!Next, Contract!Holders, Requests
  <1> QED BY <1>10, <1>11, <1>12

\* Steps the contract does not see.
LEMMA Unseen ==
    ASSUME UNCHANGED <<wallet, spent>>, ActiveReserved(resv)' = ActiveReserved(resv),
           \A q \in Requests : Replaced(resv', q) = Replaced(resv, q)
    PROVE  UNCHANGED Contract!contractVars
  <1>1. [q \in Requests |-> Replaced(resv', q)] = [q \in Requests |-> Replaced(resv, q)]
    OBVIOUS
  <1> QED BY <1>1 DEF Contract!contractVars

\* Every step of the rows is a step of the contract, or one it does not see.
LEMMA ContractStep ==
    ASSUME WalletInvariant, [BalanceNext]_balanceVars
    PROVE  [Contract!Next]_Contract!contractVars
  <1>1. CASE \E elsewhere \in Amounts : ReclaimExpired(elsewhere)
    BY <1>1, ReclaimRefines DEF ReclaimExpired
  <1>2. ASSUME NEW amount \in Amounts, Credit(amount) PROVE Contract!Next
    BY <1>2, CreditRefines DEF Credit
  <1>3. ASSUME NEW k \in Keys, NEW kind \in OpKinds, NEW amount \in Amounts,
               ManualOperation(k, kind, amount)
        PROVE  Contract!Next
    BY <1>3, CreditRefines, OperationRefines DEF ManualOperation, ManualRecharge
  <1>4. ASSUME NEW k \in Keys, NEW amount \in Amounts, UnfreezeDenied(k, amount)
        PROVE  Contract!Next
    BY <1>4, ReclaimRefines DEF UnfreezeDenied
  <1>5. ASSUME NEW r \in Requests, Lapse(r) PROVE UNCHANGED Contract!contractVars
    <2>1. /\ ActiveReserved(resv)' = ActiveReserved(resv)
          /\ \A q \in Requests : Replaced(resv', q) = Replaced(resv, q)
      BY <1>5, LapseSafe
    <2> QED BY <1>5, <2>1, Unseen DEF Lapse
  <1>6. ASSUME NEW r \in Requests, NEW o \in Owners, NEW forced \in BOOLEAN,
               AdminRelease(r, o, forced)
        PROVE  Contract!Next
    BY <1>6, ReleaseRefines DEF AdminRelease, HeldBy
  <1>7. ASSUME NEW r \in Requests, NEW o \in Owners, NEW requested \in Amounts,
               Reserve(r, o, requested)
        PROVE  Contract!Next
    BY <1>7, ReserveRefines
  <1>8. ASSUME NEW r \in Requests, NEW o \in Owners, Release(r, o) PROVE Contract!Next
    BY <1>8, ReleaseRefines DEF Release, HeldBy
  <1>9. ASSUME NEW r \in Requests, NEW o \in Owners, Settle(r, o) PROVE Contract!Next
    BY <1>9, SettleRefines
  <1>10. ASSUME NEW r \in Requests, NEW amount \in Amounts, SaveUsage(r, amount)
         PROVE  UNCHANGED Contract!contractVars
    BY <1>10, Unseen DEF SaveUsage
  <1>11. ASSUME NEW r \in Requests, Consume(r) PROVE Contract!Next
    BY <1>11, ConsumeRefines
  <1>12. CASE UNCHANGED balanceVars
    BY <1>12, Unseen DEF balanceVars
  <1> QED BY <1>1, <1>2, <1>3, <1>4, <1>5, <1>6, <1>7, <1>8, <1>9, <1>10, <1>11, <1>12
          DEF BalanceNext, HouseNext, OfficeNext, RequestNext

\* The rows of the wallet implement its contract: holds never exceed the free
\* money, administrators never take what requests hold, every request is
\* charged at most once, and only such a charge may overdraw the wallet.
THEOREM ContractHonoured == BalanceSpec => WalletHonoursContract
  <1>1. BalanceInit => Contract!Init
    <2> SUFFICES ASSUME BalanceInit PROVE Contract!Init
      OBVIOUS
    <2>1. /\ wallet = [available |-> 0, frozen |-> 0, recharged |-> 0, consumed |-> 0]
          /\ spent = [r \in Requests |-> None]
          /\ \A r \in Requests : resv[r].status = "absent"
      BY DEF BalanceInit, NoReservation
    <2>2. [r \in Requests |-> Replaced(resv, r)] = [r \in Requests |-> 0]
      BY <2>1 DEF Replaced
    <2>3. ActiveReserved(resv) = 0
      <3> DEFINE w == [r \in Requests |-> 0]
      <3>1. WalletInvariant
        BY WalletInitially
      <3>2. ActiveReserved(resv) = Sum(w, NumRequests)
        BY <2>2, <3>1, HeldIsReserved, Numbers
      <3>3. NumRequests \in Nat /\ \A i \in 1..NumRequests : w[i] = 0
        BY BalanceAssumption DEF Requests
      <3> HIDE DEF w
      <3> QED BY <3>2, <3>3, SumZero
    <2> QED BY <2>1, <2>2, <2>3 DEF Contract!Init, Contract!Holders, Requests
  <1>2. WalletInvariant /\ [BalanceNext]_balanceVars => [Contract!Next]_Contract!contractVars
    BY ContractStep
  <1> QED BY <1>1, <1>2, WalletSafe, PTL DEF BalanceSpec, WalletHonoursContract, Contract!Spec

-----------------------------------------------------------------------------
(* Settlement.  Every step takes the wallet through a step of Balance or   *)
(* leaves it alone, so the wallet's invariant carries over.  First the     *)
(* inductive invariant.                                                    *)

\* What an attempt or a worker holds.
Jobs ==
    [pc : Pcs, of : Owners, amount : Amounts \cup {None}, ok : BOOLEAN,
     tpm : {"todo", "ok", "failed"}, lease : Leases \cup {None}]

\* The types of what Settlement adds to the wallet.
SettlementTypes ==
    /\ outbox \in [Requests -> OutboxRows \cup {None}]
    /\ metered \subseteq Requests
    /\ shared \subseteq Requests
    /\ secured \subseteq Requests
    /\ job \in [Actors -> Jobs]
    /\ faults \in 0..MaxFaults

\* What an attempt has done when it gets to where it is.
AttemptOK(o) ==
    /\ job[o].of = o
    /\ At(o, "persist") => job[o].amount # None
    /\ job[o].tpm = "ok" => Req(o) \in metered
    /\ At(o, "meter") /\ job[o].ok => spent[Req(o)] # None /\ Req(o) \in shared
    /\ At(o, "ack") => Settled(Req(o))

\* What a worker has done when it gets to where it is.
WorkerOK(w) ==
    /\ ~At(w, "idle") => job[w].lease \in Leases
    /\ job[w].pc \in {"refence", "settle", "consume", "share", "clear"} =>
           Req(w) \in metered
    /\ At(w, "clear") => Settled(Req(w))

\* What holds of every actor where it is.
JobOK(x) ==
    /\ At(x, "save") => job[x].amount # None
    /\ At(x, "share") /\ job[x].ok => spent[Req(x)] # None
    /\ x \in Owners => AttemptOK(x)
    /\ x \in Workers => WorkerOK(x)

\* The generation of the attempt has ended, or goes on without it.
Past(o) == job[o].pc \notin {"idle", "running"}

\* Only attempts that are past their generation are settled by others.
SettledForPast ==
    /\ \A r \in Requests : outbox[r] # None => Past(outbox[r].of)
    /\ \A w \in Workers : ~At(w, "idle") => Past(job[w].of)

\* A worker whose lease is a row's has that row in hand.
LeasesAgree ==
    \A w \in Workers, r \in Requests :
        outbox[r] # None /\ outbox[r].lease # None
            /\ outbox[r].lease = job[w].lease
        => outbox[r].of = job[w].of

\* Together: the inductive invariant.
SettlementInductive ==
    /\ WalletInvariant
    /\ SettlementTypes
    /\ \A x \in Actors : JobOK(x)
    /\ SettledForPast
    /\ LeasesAgree
    /\ SecuredNeverLost
    /\ RunningKeepsReservation

-----------------------------------------------------------------------------
(* A step seen from one actor, one row of the outbox and one reservation.  *)

\* What is recorded for a request stays recorded.
Grows ==
    /\ metered \subseteq metered' /\ shared \subseteq shared'
    /\ \A r \in Requests : spent[r] # None => spent'[r] # None

\* Of all actors only x moves, and an attempt never goes back.
Moves(x) ==
    /\ job' = [job EXCEPT ![x] = job'[x]]
    /\ job'[x] \in Jobs
    /\ JobOK(x)'
    /\ x \in Owners =>
           /\ Past(x) => Past(x)'
           /\ At(x, "running")' =>
                  At(x, "running") \/ resv'[RequestOf[x]].status = "active"

\* A worker stops, or keeps the claim it has.
KeepsClaim(w) ==
    \/ At(w, "idle")' /\ job'[w].lease = None
    \/ /\ job'[w].of = job[w].of /\ job'[w].lease = job[w].lease
       /\ At(w, "idle") => At(w, "idle")'

\* A row goes away, is written by an attempt that is past its generation, or
\* stays with the lease and the attempt it has.
RowFollows(r) ==
    \/ outbox'[r] = None
    \/ /\ outbox'[r] \in OutboxRows
       /\ outbox'[r].lease = None /\ Past(outbox[r].of)'
    \/ /\ outbox[r] # None /\ outbox'[r] \in OutboxRows
       /\ outbox'[r].lease = outbox[r].lease /\ outbox'[r].of = outbox[r].of

\* A row that is written is secured, and one that goes away is settled.
SecuredFollows ==
    /\ secured' \subseteq Requests
    /\ \A r \in secured' :
           \/ outbox'[r] # None
           \/ Settled(r)'
           \/ r \in secured /\ outbox[r] = None

\* A reservation ends by time, by an administrator, or for an attempt that is
\* past its generation.
ResvFollows(r) ==
    \/ resv'[r] = resv[r]
    \/ resv'[r].status \in {"active", "expired"}
    \/ AdministrativelyReleased(resv'[r])
    \/ resv'[r].owner \in Owners /\ Past(resv[r].owner)'

\* What an actor that does not move relies on grows, so it is where it was.
LEMMA JobStays ==
    ASSUME SettlementInductive, Grows, NEW y \in Actors, job'[y] = job[y]
    PROVE  JobOK(y)'
  <1>1. JobOK(y) /\ job[y] \in Jobs
    BY DEF SettlementInductive, SettlementTypes
  <1>2. Req(y) \in Requests /\ Req(y)' = Req(y)
    BY <1>1, SettlementAssumption DEF Req, Jobs
  <1>3. /\ Req(y) \in metered => Req(y)' \in metered'
        /\ Req(y) \in shared => Req(y)' \in shared'
        /\ spent[Req(y)] # None => (spent[Req(y)])' # None
    BY <1>2 DEF Grows
  <1>4. Settled(Req(y)) => Settled(Req(y))'
    BY <1>3 DEF Settled
  <1>5. AttemptOK(y) => AttemptOK(y)'
    BY <1>3, <1>4 DEF AttemptOK, At
  <1>6. WorkerOK(y) => WorkerOK(y)'
    BY <1>3, <1>4 DEF WorkerOK, At
  <1> QED BY <1>1, <1>3, <1>5, <1>6 DEF JobOK, At

\* No actor moves: seen from any attempt, nothing happened.
LEMMA NobodyMoves ==
    ASSUME SettlementInductive, Grows, job' = job, NEW o \in Owners
    PROVE  Moves(o) /\ o \in Actors /\ o \notin Workers
  <1>1. /\ o \in Actors /\ o \notin Workers
        /\ job \in [Actors -> Jobs] /\ job[o] \in Jobs
    BY SettlementAssumption DEF Actors, SettlementInductive, SettlementTypes
  <1>2. job' = [job EXCEPT ![o] = job'[o]] /\ job'[o] \in Jobs
    BY <1>1
  <1>3. JobOK(o)'
    BY <1>1, JobStays
  <1>4. Past(o) => Past(o)'
    BY DEF Past
  <1>5. At(o, "running")' => At(o, "running")
    BY DEF At
  <1> QED BY <1>1, <1>2, <1>3, <1>4, <1>5 DEF Moves

\* One actor moves.
LEMMA JobsStep ==
    ASSUME SettlementInductive, Grows, NEW x \in Actors, Moves(x)
    PROVE  /\ job' \in [Actors -> Jobs]
           /\ \A y \in Actors : JobOK(y)'
           /\ \A y \in Actors : y # x => job'[y] = job[y]
           /\ \A o \in Owners : Past(o) => Past(o)'
  <1>1. job \in [Actors -> Jobs]
    BY DEF SettlementInductive, SettlementTypes
  <1>2. job' \in [Actors -> Jobs] /\ \A y \in Actors : y # x => job'[y] = job[y]
    BY <1>1 DEF Moves
  <1>3. \A y \in Actors : JobOK(y)'
    BY <1>2, JobStays DEF Moves
  <1>4. \A o \in Owners : Past(o) => Past(o)'
    BY <1>2 DEF Moves, Past, Actors
  <1> QED BY <1>2, <1>3, <1>4

\* A step that takes no new lease keeps the invariant.
LEMMA StepSafe ==
    ASSUME SettlementInductive, WalletInvariant', Grows,
           metered' \subseteq Requests, shared' \subseteq Requests,
           faults' \in 0..MaxFaults,
           outbox' = [r \in Requests |-> outbox'[r]],
           NEW x \in Actors, Moves(x), x \in Workers => KeepsClaim(x),
           \A r \in Requests : RowFollows(r) /\ ResvFollows(r),
           SecuredFollows
    PROVE  SettlementInductive'
  <1>1. /\ job' \in [Actors -> Jobs]
        /\ \A y \in Actors : JobOK(y)'
        /\ \A y \in Actors : y # x => job'[y] = job[y]
        /\ \A o \in Owners : Past(o) => Past(o)'
    BY JobsStep
  <1>2. \A r \in Requests : outbox'[r] \in OutboxRows \cup {None}
    BY DEF RowFollows
  <1>3. SettlementTypes'
    BY <1>1, <1>2 DEF SettlementTypes, SecuredFollows
  <1>4. \A w \in Workers : KeepsClaim(w)
    BY <1>1 DEF KeepsClaim, At, Actors
  <1>5. /\ \A r \in Requests : outbox[r] # None => outbox[r].of \in Owners
        /\ \A w \in Workers : job[w].of \in Owners
    BY DEF SettlementInductive, SettlementTypes, OutboxRows, Jobs, Actors
  <1>6. SettledForPast'
    <2>1. ASSUME NEW r \in Requests, outbox'[r] # None
          PROVE  Past(outbox[r].of)'
      <3>1. CASE outbox'[r].lease = None /\ Past(outbox[r].of)'
        BY <3>1
      <3>2. CASE outbox[r] # None /\ outbox'[r].of = outbox[r].of
        <4>1. outbox[r].of \in Owners /\ Past(outbox[r].of)
          BY <1>5, <3>2 DEF SettlementInductive, SettledForPast
        <4> QED BY <1>1, <3>2, <4>1 DEF Past
      <3> QED BY <2>1, <3>1, <3>2 DEF RowFollows
    <2>2. ASSUME NEW w \in Workers, ~At(w, "idle")'
          PROVE  Past(job[w].of)'
      <3>1. job'[w].of = job[w].of /\ ~At(w, "idle")
        BY <1>4, <2>2 DEF KeepsClaim
      <3>2. job[w].of \in Owners /\ Past(job[w].of)
        BY <1>5, <3>1 DEF SettlementInductive, SettledForPast
      <3> QED BY <1>1, <3>1, <3>2 DEF Past
    <2> QED BY <2>1, <2>2 DEF SettledForPast, Past
  <1>7. LeasesAgree'
    <2> SUFFICES ASSUME NEW w \in Workers, NEW r \in Requests,
                        outbox'[r] # None, outbox'[r].lease # None,
                        outbox'[r].lease = job'[w].lease
                 PROVE  outbox'[r].of = job'[w].of
      BY DEF LeasesAgree
    <2>1. /\ outbox[r] # None
          /\ outbox'[r].lease = outbox[r].lease /\ outbox'[r].of = outbox[r].of
      BY DEF RowFollows
    <2>2. job'[w].of = job[w].of /\ job'[w].lease = job[w].lease
      BY <1>4 DEF KeepsClaim
    <2> QED BY <2>1, <2>2 DEF SettlementInductive, LeasesAgree
  <1>8. SecuredNeverLost'
    <2> SUFFICES ASSUME NEW r \in secured', outbox'[r] = None
                 PROVE  Settled(r)'
      BY DEF SecuredNeverLost
    <2>1. CASE r \in secured /\ outbox[r] = None
      <3>1. Settled(r) /\ r \in Requests
        BY <2>1 DEF SettlementInductive, SecuredNeverLost, SettlementTypes
      <3> QED BY <3>1 DEF Settled, Grows
    <2> QED BY <2>1 DEF SecuredFollows
  <1>9. RunningKeepsReservation'
    <2> SUFFICES ASSUME NEW o \in Owners, At(o, "running")',
                        resv'[RequestOf[o]].owner = o
                 PROVE  \/ resv'[RequestOf[o]].status \in {"active", "expired"}
                        \/ AdministrativelyReleased(resv'[RequestOf[o]])
      BY DEF RunningKeepsReservation
    <2>1. RequestOf[o] \in Requests /\ o \in Actors
      BY SettlementAssumption DEF Actors
    <2>2. ~Past(o)'
      BY DEF Past, At
    <2>3. At(o, "running") \/ resv'[RequestOf[o]].status = "active"
      BY <1>1, <2>1 DEF Moves, At
    <2>4. CASE resv'[RequestOf[o]] = resv[RequestOf[o]]
      BY <2>3, <2>4 DEF SettlementInductive, RunningKeepsReservation
    <2> QED BY <2>1, <2>2, <2>4 DEF ResvFollows
  <1> QED BY <1>1, <1>3, <1>6, <1>7, <1>8, <1>9 DEF SettlementInductive

-----------------------------------------------------------------------------
(* The actor that moves.                                                   *)

\* Only x moves, and goes on with the attempt it works for.
Keeps(x) ==
    /\ job' = [job EXCEPT ![x] = job'[x]]
    /\ job'[x] \in Jobs
    /\ job'[x].of = job[x].of

\* It moves to a place, and nothing else of its job changes.
GoesTo(x, pc) ==
    /\ Keeps(x)
    /\ job'[x].pc = pc /\ job'[x].amount = job[x].amount
    /\ job'[x].ok = job[x].ok /\ job'[x].tpm = job[x].tpm
    /\ job'[x].lease = job[x].lease

\* What the writes to a job say of its fields.
LEMMA GotoJob ==
    ASSUME SettlementTypes, NEW x \in Actors, NEW pc \in Pcs, Goto(x, pc)
    PROVE  GoesTo(x, pc)
  <1>1. job \in [Actors -> Jobs] /\ job[x] \in Jobs
    BY DEF SettlementTypes
  <1> DEFINE new == [job[x] EXCEPT !.pc = pc]
  <1>2. new \in Jobs
    BY <1>1 DEF Jobs
  <1>3. /\ new.pc = pc /\ new.of = job[x].of /\ new.amount = job[x].amount
        /\ new.ok = job[x].ok /\ new.tpm = job[x].tpm
        /\ new.lease = job[x].lease
    BY <1>1 DEF Jobs
  <1>4. job' = [job EXCEPT ![x] = new]
    BY DEF Goto
  <1> HIDE DEF new
  <1>5. job'[x] = new
    BY <1>1, <1>4
  <1> QED BY <1>2, <1>3, <1>4, <1>5 DEF GoesTo, Keeps

\* A failed effect is noted.
LEMMA FailJob ==
    ASSUME SettlementTypes, NEW x \in Actors, NEW pc \in Pcs,
           job' = [job EXCEPT ![x].pc = pc, ![x].ok = FALSE]
    PROVE  /\ Keeps(x) /\ job'[x].pc = pc /\ job'[x].ok = FALSE
           /\ job'[x].tpm = job[x].tpm /\ job'[x].amount = job[x].amount
           /\ job'[x].lease = job[x].lease
  <1>1. job \in [Actors -> Jobs] /\ job[x] \in Jobs
    BY DEF SettlementTypes
  <1> DEFINE new == [job[x] EXCEPT !.pc = pc, !.ok = FALSE]
  <1>2. new \in Jobs
    BY <1>1 DEF Jobs
  <1>3. /\ new.pc = pc /\ new.of = job[x].of /\ new.amount = job[x].amount
        /\ new.ok = FALSE /\ new.tpm = job[x].tpm
        /\ new.lease = job[x].lease
    BY <1>1 DEF Jobs
  <1>4. job' = [job EXCEPT ![x] = new]
    BY <1>1
  <1> HIDE DEF new
  <1>5. job'[x] = new
    BY <1>1, <1>4
  <1> QED BY <1>2, <1>3, <1>4, <1>5 DEF Keeps

\* The generation, or the upstream, tells the amount.
LEMMA AmountJob ==
    ASSUME SettlementTypes, NEW x \in Actors, NEW pc \in Pcs,
           NEW amount \in Amounts,
           job' = [job EXCEPT ![x].pc = pc, ![x].amount = amount]
    PROVE  /\ Keeps(x) /\ job'[x].pc = pc /\ job'[x].ok = job[x].ok
           /\ job'[x].tpm = job[x].tpm /\ job'[x].amount = amount
           /\ job'[x].lease = job[x].lease
  <1>1. job \in [Actors -> Jobs] /\ job[x] \in Jobs
    BY DEF SettlementTypes
  <1> DEFINE new == [job[x] EXCEPT !.pc = pc, !.amount = amount]
  <1>2. new \in Jobs
    BY <1>1 DEF Jobs
  <1>3. /\ new.pc = pc /\ new.of = job[x].of /\ new.amount = amount
        /\ new.ok = job[x].ok /\ new.tpm = job[x].tpm
        /\ new.lease = job[x].lease
    BY <1>1 DEF Jobs
  <1>4. job' = [job EXCEPT ![x] = new]
    BY <1>1
  <1> HIDE DEF new
  <1>5. job'[x] = new
    BY <1>1, <1>4
  <1> QED BY <1>2, <1>3, <1>4, <1>5 DEF Keeps

\* The meter of an attempt answers.
LEMMA MeterJob ==
    ASSUME SettlementTypes, NEW x \in Actors, NEW tpm \in {"ok", "failed"},
           job' = [job EXCEPT ![x].tpm = tpm]
    PROVE  /\ Keeps(x) /\ job'[x].pc = job[x].pc /\ job'[x].ok = job[x].ok
           /\ job'[x].tpm = tpm /\ job'[x].amount = job[x].amount
           /\ job'[x].lease = job[x].lease
  <1>1. job \in [Actors -> Jobs] /\ job[x] \in Jobs
    BY DEF SettlementTypes
  <1> DEFINE new == [job[x] EXCEPT !.tpm = tpm]
  <1>2. new \in Jobs
    BY <1>1 DEF Jobs
  <1>3. /\ new.pc = job[x].pc /\ new.of = job[x].of
        /\ new.amount = job[x].amount /\ new.ok = job[x].ok /\ new.tpm = tpm
        /\ new.lease = job[x].lease
    BY <1>1 DEF Jobs
  <1>4. job' = [job EXCEPT ![x] = new]
    BY <1>1
  <1> HIDE DEF new
  <1>5. job'[x] = new
    BY <1>1, <1>4
  <1> QED BY <1>2, <1>3, <1>4, <1>5 DEF Keeps

\* A worker that stops has no claim.
LEMMA IdleJob ==
    ASSUME SettlementTypes, NEW w \in Workers, Idle(w)
    PROVE  /\ Keeps(w) /\ job'[w].pc = "idle" /\ job'[w].lease = None
           /\ job'[w].amount = None
  <1>1. job \in [Actors -> Jobs] /\ w \in Actors /\ job[w] \in Jobs
    BY DEF SettlementTypes, Actors
  <1> DEFINE new == NoJob(job[w].of)
  <1>2. /\ new \in Jobs /\ new.of = job[w].of /\ new.pc = "idle"
        /\ new.lease = None /\ new.amount = None
    BY <1>1 DEF NoJob, Jobs, Pcs
  <1>3. job' = [job EXCEPT ![w] = new]
    BY DEF Idle
  <1> HIDE DEF new
  <1>4. job'[w] = new
    BY <1>1, <1>3
  <1> QED BY <1>2, <1>3, <1>4 DEF Keeps

\* What an attempt needs to have done to move where it moves.
LEMMA AttemptMoves ==
    ASSUME SettlementInductive, NEW o \in Owners, Keeps(o),
           job'[o].pc # "idle",
           job'[o].pc = "running" =>
               At(o, "idle") /\ resv'[RequestOf[o]].status = "active",
           job'[o].pc \in {"save", "persist"} => job'[o].amount # None,
           job'[o].pc = "share" /\ job'[o].ok => spent'[RequestOf[o]] # None,
           job'[o].tpm = "ok" => RequestOf[o] \in metered',
           job'[o].pc = "meter" /\ job'[o].ok =>
               spent'[RequestOf[o]] # None /\ RequestOf[o] \in shared',
           job'[o].pc = "ack" => Settled(RequestOf[o])'
    PROVE  Moves(o) /\ o \in Actors /\ o \notin Workers
  <1>1. o \in Actors /\ o \notin Workers
    BY SettlementAssumption DEF Actors
  <1>2. job[o].of = o
    BY <1>1 DEF SettlementInductive, JobOK, AttemptOK
  <1>3. job'[o].of = o /\ Req(o)' = RequestOf[o]
    BY <1>2 DEF Keeps, Req
  <1>4. AttemptOK(o)'
    BY <1>3 DEF AttemptOK, At
  <1>5. JobOK(o)'
    BY <1>1, <1>3, <1>4 DEF JobOK, At
  <1>6. /\ Past(o) => Past(o)'
        /\ At(o, "running")' => resv'[RequestOf[o]].status = "active"
    BY DEF Past, At
  <1> QED BY <1>1, <1>5, <1>6 DEF Moves, Keeps

\* What a worker needs to have done to move where it moves.
LEMMA WorkerMoves ==
    ASSUME SettlementInductive, NEW w \in Workers, Keeps(w),
           job'[w].pc # "idle" => job'[w].lease \in Leases,
           job'[w].pc = "save" => job'[w].amount # None,
           job'[w].pc = "share" /\ job'[w].ok => spent'[Req(w)] # None,
           job'[w].pc \in {"refence", "settle", "consume", "share", "clear"} =>
               Req(w) \in metered',
           job'[w].pc = "clear" => spent'[Req(w)] # None /\ Req(w) \in shared'
    PROVE  Moves(w) /\ w \in Actors /\ w \notin Owners
  <1>1. w \in Actors /\ w \notin Owners
    BY SettlementAssumption DEF Actors
  <1>2. Req(w)' = Req(w)
    BY DEF Keeps, Req
  <1>3. WorkerOK(w)'
    BY <1>2 DEF WorkerOK, At, Settled
  <1>4. JobOK(w)'
    BY <1>1, <1>2, <1>3 DEF JobOK, At
  <1> QED BY <1>1, <1>4 DEF Moves, Keeps

\* What the invariant says of an attempt.
LEMMA AttemptFacts ==
    ASSUME SettlementInductive, NEW o \in Owners
    PROVE  /\ o \in Actors /\ o \notin Workers /\ SettlementTypes
           /\ job[o] \in Jobs /\ job[o].of = o
           /\ Req(o) = RequestOf[o] /\ RequestOf[o] \in Requests
           /\ job[o].pc \in {"save", "persist"} => job[o].amount # None
           /\ job[o].pc = "share" /\ job[o].ok => spent[RequestOf[o]] # None
           /\ job[o].tpm = "ok" => RequestOf[o] \in metered
           /\ job[o].pc = "meter" /\ job[o].ok =>
                  spent[RequestOf[o]] # None /\ RequestOf[o] \in shared
           /\ job[o].pc = "ack" => Settled(RequestOf[o])
  <1>1. o \in Actors /\ o \notin Workers /\ RequestOf[o] \in Requests
    BY SettlementAssumption DEF Actors
  <1>2. SettlementTypes /\ job[o] \in Jobs
    BY <1>1 DEF SettlementInductive, SettlementTypes
  <1>3. JobOK(o) /\ AttemptOK(o)
    BY <1>1 DEF SettlementInductive, JobOK
  <1>4. job[o].of = o /\ Req(o) = RequestOf[o]
    BY <1>3 DEF AttemptOK, Req
  <1> QED BY <1>1, <1>2, <1>3, <1>4 DEF JobOK, AttemptOK, At

\* What it says of a worker.
LEMMA WorkerFacts ==
    ASSUME SettlementInductive, NEW w \in Workers
    PROVE  /\ w \in Actors /\ w \notin Owners /\ SettlementTypes
           /\ job[w] \in Jobs /\ job[w].of \in Owners /\ Req(w) \in Requests
           /\ job[w].pc # "idle" => job[w].lease \in Leases
           /\ job[w].pc # "idle" => Past(job[w].of)
           /\ job[w].pc = "save" => job[w].amount # None
           /\ job[w].pc = "share" /\ job[w].ok => spent[Req(w)] # None
           /\ job[w].pc \in {"refence", "settle", "consume", "share", "clear"}
                  => Req(w) \in metered
           /\ job[w].pc = "clear" => Settled(Req(w))
  <1>1. w \in Actors /\ w \notin Owners
    BY SettlementAssumption DEF Actors
  <1>2. SettlementTypes /\ job[w] \in Jobs
    BY <1>1 DEF SettlementInductive, SettlementTypes
  <1>3. job[w].of \in Owners /\ Req(w) \in Requests
    BY <1>2, SettlementAssumption DEF Jobs, Req
  <1>4. JobOK(w) /\ WorkerOK(w)
    BY <1>1 DEF SettlementInductive, JobOK
  <1>5. job[w].pc # "idle" => Past(job[w].of)
    BY DEF SettlementInductive, SettledForPast, At
  <1> QED BY <1>1, <1>2, <1>3, <1>4, <1>5 DEF JobOK, WorkerOK, At

\* The bound on faults.
LEMMA FaultType ==
    ASSUME SettlementTypes, Fault \/ faults' = faults
    PROVE  faults' \in 0..MaxFaults
  BY SettlementAssumption DEF SettlementTypes, Fault

\* A step that leaves the wallet, the outbox and the claims alone.
LEMMA PlainSafe ==
    ASSUME SettlementInductive, UNCHANGED <<balanceVars, outbox, secured>>,
           metered \subseteq metered', metered' \subseteq Requests,
           shared \subseteq shared', shared' \subseteq Requests,
           Fault \/ faults' = faults,
           NEW x \in Actors, Moves(x), x \in Workers => KeepsClaim(x)
    PROVE  SettlementInductive'
  <1>1. WalletInvariant'
    BY WalletStep DEF SettlementInductive
  <1>2. Grows
    BY DEF Grows, balanceVars
  <1>3. faults' \in 0..MaxFaults
    BY FaultType DEF SettlementInductive
  <1>4. outbox' = [r \in Requests |-> outbox'[r]]
    BY DEF SettlementInductive, SettlementTypes
  <1>5. \A r \in Requests : RowFollows(r) /\ ResvFollows(r)
    <2>1. \A r \in Requests : outbox[r] \in OutboxRows \cup {None}
      BY DEF SettlementInductive, SettlementTypes
    <2> QED BY <2>1 DEF RowFollows, ResvFollows, balanceVars
  <1>6. SecuredFollows
    BY DEF SecuredFollows, SettlementInductive, SettlementTypes
  <1> QED BY <1>1, <1>2, <1>3, <1>4, <1>5, <1>6, StepSafe

\* An attempt that calls nothing, or whose call fails.
LEMMA AttemptPlain ==
    ASSUME SettlementInductive, NEW o \in Owners,
           \/ Cancel(o) \/ Crash(o) \/ PersistFails(o) \/ SaveFails(o)
           \/ MeterAttempt(o) \/ MeterAttemptFails(o) \/ Conclude(o)
           \/ \E amount \in Amounts : Finish(o, amount)
    PROVE  SettlementInductive'
  <1>0. /\ o \in Actors /\ o \notin Workers /\ SettlementTypes
        /\ job[o] \in Jobs /\ job[o].of = o /\ RequestOf[o] \in Requests
        /\ job[o].pc \in {"save", "persist"} => job[o].amount # None
        /\ job[o].pc = "share" /\ job[o].ok => spent[RequestOf[o]] # None
        /\ job[o].tpm = "ok" => RequestOf[o] \in metered
        /\ job[o].pc = "meter" /\ job[o].ok =>
               spent[RequestOf[o]] # None /\ RequestOf[o] \in shared
        /\ job[o].pc = "ack" => Settled(RequestOf[o])
    BY AttemptFacts
  <1>t. metered \subseteq Requests /\ shared \subseteq Requests
    BY <1>0 DEF SettlementTypes
  <1>1. ASSUME UNCHANGED <<balanceVars, Rest>>, Fault \/ faults' = faults,
               Keeps(o),
               job'[o].pc \notin {"idle", "running", "share"},
               job'[o].pc \in {"save", "persist"} => job'[o].amount # None,
               job'[o].tpm = "ok" => RequestOf[o] \in metered,
               job'[o].pc = "meter" => ~job'[o].ok,
               job'[o].pc = "ack" => Settled(RequestOf[o])
        PROVE  SettlementInductive'
    <2>1. UNCHANGED <<spent, metered, shared, outbox, secured>>
      BY <1>1 DEF balanceVars, Rest
    <2>2. job'[o].pc = "ack" => Settled(RequestOf[o])'
      BY <1>1, <2>1 DEF Settled
    <2>3. Moves(o)
      BY <1>1, <2>1, <2>2, AttemptMoves
    <2> QED BY <1>0, <1>1, <1>t, <2>1, <2>3, PlainSafe
  <1>2. CASE Cancel(o)
    <2>1. GoesTo(o, "dropping")
      BY <1>0, <1>2, GotoJob DEF Cancel, Pcs
    <2> QED BY <1>0, <1>1, <1>2, <2>1 DEF Cancel, GoesTo
  <1>3. CASE Crash(o)
    <2>1. GoesTo(o, "gone")
      BY <1>0, <1>3, GotoJob DEF Crash, Pcs
    <2> QED BY <1>0, <1>1, <1>3, <2>1 DEF Crash, GoesTo
  <1>4. CASE PersistFails(o)
    <2>1. CASE At(o, "persist")
      <3>1. Goto(o, "save")
        BY <1>4, <2>1 DEF PersistFails
      <3>2. GoesTo(o, "save")
        BY <1>0, <3>1, GotoJob DEF Pcs
      <3> QED BY <1>0, <1>1, <1>4, <2>1, <3>2 DEF PersistFails, GoesTo, At
    <2>2. CASE ~At(o, "persist")
      <3>1. Goto(o, "gone")
        BY <1>4, <2>2 DEF PersistFails
      <3>2. GoesTo(o, "gone")
        BY <1>0, <3>1, GotoJob DEF Pcs
      <3> QED BY <1>0, <1>1, <1>4, <3>2 DEF PersistFails, GoesTo
    <2> QED BY <2>1, <2>2
  <1>5. CASE SaveFails(o)
    <2>1. ASSUME NEW pc \in {"gone", "meter"},
                 job' = [job EXCEPT ![o].pc = pc, ![o].ok = FALSE]
          PROVE  SettlementInductive'
      <3>1. /\ Keeps(o) /\ job'[o].pc = pc /\ job'[o].ok = FALSE
            /\ job'[o].tpm = job[o].tpm
        BY <1>0, <2>1, FailJob DEF Pcs
      <3> QED BY <1>0, <1>1, <1>5, <3>1 DEF SaveFails
    <2>2. CASE Path[o] = "responses"
      BY <1>5, <2>1, <2>2 DEF SaveFails
    <2>3. CASE Path[o] # "responses"
      BY <1>5, <2>1, <2>3 DEF SaveFails
    <2> QED BY <2>2, <2>3
  <1>6. ASSUME NEW tpm \in {"ok", "failed"}, MayMeter(o),
               job' = [job EXCEPT ![o].tpm = tpm],
               UNCHANGED <<balanceVars, outbox, shared, secured>>,
               metered' = metered \cup {RequestOf[o]} \/ metered' = metered,
               tpm = "ok" => RequestOf[o] \in metered',
               Fault \/ faults' = faults
        PROVE  SettlementInductive'
    <2>1. /\ Keeps(o) /\ job'[o].pc = job[o].pc /\ job'[o].ok = job[o].ok
          /\ job'[o].tpm = tpm /\ job'[o].amount = job[o].amount
      BY <1>0, <1>6, MeterJob
    <2>2. spent' = spent /\ metered \subseteq metered' /\ metered' \subseteq Requests
      BY <1>0, <1>6, <1>t DEF balanceVars
    <2>3. job[o].pc \in {"meter", "save", "settle", "consume", "share"}
      BY <1>6 DEF MayMeter, At
    <2>4. Moves(o)
      BY <1>0, <1>6, <2>1, <2>2, <2>3, AttemptMoves
    <2> QED BY <1>0, <1>6, <1>t, <2>2, <2>4, PlainSafe
  <1>7. CASE MeterAttempt(o)
    BY <1>6, <1>7 DEF MeterAttempt
  <1>8. CASE MeterAttemptFails(o)
    BY <1>6, <1>8 DEF MeterAttemptFails, Rest
  <1>9. CASE Conclude(o)
    <2>1. ASSUME NEW pc \in {"ack", "defer", "gone"}, Goto(o, pc),
                 pc = "ack" => job[o].ok /\ job[o].tpm = "ok"
          PROVE  SettlementInductive'
      <3>1. GoesTo(o, pc)
        BY <1>0, <2>1, GotoJob DEF Pcs
      <3>2. pc = "ack" => Settled(RequestOf[o])
        BY <1>0, <1>9, <2>1 DEF Conclude, At, Settled
      <3> QED BY <1>0, <1>1, <1>9, <3>1, <3>2 DEF Conclude, GoesTo
    <2>2. CASE job[o].ok /\ job[o].tpm = "ok"
      BY <1>9, <2>1, <2>2 DEF Conclude
    <2>3. CASE ~(job[o].ok /\ job[o].tpm = "ok") /\ Path[o] = "responses"
      BY <1>9, <2>1, <2>3 DEF Conclude
    <2>4. CASE ~(job[o].ok /\ job[o].tpm = "ok") /\ Path[o] # "responses"
      BY <1>9, <2>1, <2>4 DEF Conclude
    <2> QED BY <2>2, <2>3, <2>4
  <1>10. ASSUME NEW amount \in Amounts, Finish(o, amount)
         PROVE  SettlementInductive'
    <2>1. /\ Keeps(o) /\ job'[o].pc = "persist" /\ job'[o].amount = amount
          /\ job'[o].tpm = job[o].tpm
      BY <1>0, <1>10, AmountJob DEF Finish, Pcs
    <2>2. amount # None
      BY BalanceAssumption
    <2> QED BY <1>0, <1>1, <1>10, <2>1, <2>2 DEF Finish
  <1> QED BY <1>2, <1>3, <1>4, <1>5, <1>7, <1>8, <1>9, <1>10

\* An effect that fails leaves the ledger alone and is noted; the shares are
\* recorded by request.
LEMMA EffectPlain ==
    ASSUME SettlementInductive, NEW x \in Actors,
           DeductFails(x) \/ Share(x) \/ ShareFails(x)
    PROVE  SettlementInductive'
  <1>a. ASSUME x \in Owners
        PROVE  /\ x \notin Workers /\ job[x] \in Jobs
               /\ Req(x) = RequestOf[x] /\ RequestOf[x] \in Requests
               /\ job[x].tpm = "ok" => RequestOf[x] \in metered
               /\ job[x].pc = "share" /\ job[x].ok => spent[RequestOf[x]] # None
    BY <1>a, AttemptFacts
  <1>w. ASSUME x \in Workers
        PROVE  /\ x \notin Owners /\ job[x] \in Jobs /\ Req(x) \in Requests
               /\ job[x].pc # "idle" => job[x].lease \in Leases
               /\ job[x].pc = "share" /\ job[x].ok => spent[Req(x)] # None
               /\ job[x].pc \in {"settle", "consume", "share"} =>
                      Req(x) \in metered
    BY <1>w, WorkerFacts
  <1>0. /\ x \in Owners \/ x \in Workers
        /\ SettlementTypes /\ Req(x) \in Requests
        /\ metered \subseteq Requests /\ shared \subseteq Requests
    BY <1>a, <1>w DEF Actors, SettlementInductive, SettlementTypes
  <1>1. CASE DeductFails(x)
    <2>1. /\ Keeps(x) /\ job'[x].pc = "share" /\ job'[x].ok = FALSE
          /\ job'[x].tpm = job[x].tpm /\ job'[x].lease = job[x].lease
      BY <1>0, <1>1, FailJob DEF DeductFails, Pcs
    <2>2. /\ UNCHANGED <<balanceVars, outbox, metered, shared, secured>> /\ Fault
          /\ job[x].pc \in {"settle", "consume"}
      BY <1>1 DEF DeductFails, Rest, At
    <2>3. CASE x \in Owners
      <3>1. Moves(x)
        BY <1>a, <2>1, <2>2, <2>3, AttemptMoves
      <3> QED BY <1>0, <1>a, <2>2, <2>3, <3>1, PlainSafe
    <2>4. CASE x \in Workers
      <3>1. Moves(x)
        BY <1>w, <2>1, <2>2, <2>4, WorkerMoves
      <3>2. KeepsClaim(x)
        BY <2>1, <2>2 DEF KeepsClaim, Keeps, At
      <3> QED BY <1>0, <2>2, <2>4, <3>1, <3>2, PlainSafe
    <2> QED BY <1>0, <2>3, <2>4
  <1>2. CASE Share(x)
    <2>1. /\ UNCHANGED <<balanceVars, outbox, metered, secured, faults>>
          /\ shared' = shared \cup {Req(x)} /\ At(x, "share")
          /\ Goto(x, AfterEffects(x, job[x].ok))
      BY <1>2 DEF Share
    <2>2. /\ spent' = spent /\ Req(x) \in shared' /\ shared \subseteq shared'
          /\ shared' \subseteq Requests
      BY <1>0, <2>1 DEF balanceVars
    <2>3. CASE x \in Owners
      <3>1. AfterEffects(x, job[x].ok) \in {"meter", "defer"}
        BY <1>a, <2>3 DEF AfterEffects
      <3>2. PICK pc \in {"meter", "defer"} : pc = AfterEffects(x, job[x].ok)
        BY <3>1
      <3>3. GoesTo(x, pc)
        BY <1>0, <2>1, <3>2, GotoJob DEF Pcs
      <3>4. Moves(x)
        BY <1>a, <2>1, <2>2, <2>3, <3>2, <3>3, AttemptMoves DEF GoesTo, At
      <3> QED BY <1>0, <1>a, <2>1, <2>2, <2>3, <3>4, PlainSafe
    <2>4. CASE x \in Workers
      <3>1. /\ AfterEffects(x, job[x].ok) \in {"clear", "reschedule"}
            /\ AfterEffects(x, job[x].ok) = "clear" => job[x].ok
        BY <2>4 DEF AfterEffects
      <3>2. PICK pc \in {"clear", "reschedule"} : pc = AfterEffects(x, job[x].ok)
        BY <3>1
      <3>3. GoesTo(x, pc)
        BY <1>0, <2>1, <3>2, GotoJob DEF Pcs
      <3>4. Moves(x)
        BY <1>w, <2>1, <2>2, <2>4, <3>1, <3>2, <3>3, WorkerMoves DEF GoesTo, At
      <3>5. KeepsClaim(x)
        BY <2>1, <3>3 DEF KeepsClaim, GoesTo, Keeps, At
      <3> QED BY <1>0, <2>1, <2>2, <2>4, <3>4, <3>5, PlainSafe
    <2> QED BY <1>0, <2>3, <2>4
  <1>3. CASE ShareFails(x)
    <2>1. /\ UNCHANGED <<balanceVars, outbox, metered, shared, secured>> /\ Fault
          /\ At(x, "share")
          /\ job' = [job EXCEPT ![x].pc = AfterEffects(x, FALSE),
                                ![x].ok = FALSE]
      BY <1>3 DEF ShareFails, Rest
    <2>2. CASE x \in Owners
      <3>1. AfterEffects(x, FALSE) \in {"meter", "defer"}
        BY <1>a, <2>2 DEF AfterEffects
      <3>2. PICK pc \in {"meter", "defer"} : pc = AfterEffects(x, FALSE)
        BY <3>1
      <3>3. /\ Keeps(x) /\ job'[x].pc = pc /\ job'[x].ok = FALSE
            /\ job'[x].tpm = job[x].tpm
        BY <1>0, <2>1, <3>2, FailJob DEF Pcs
      <3>4. Moves(x)
        BY <1>a, <2>1, <2>2, <3>2, <3>3, AttemptMoves
      <3> QED BY <1>0, <1>a, <2>1, <2>2, <3>4, PlainSafe
    <2>3. CASE x \in Workers
      <3>1. AfterEffects(x, FALSE) = "reschedule"
        BY <2>3 DEF AfterEffects
      <3>2. /\ Keeps(x) /\ job'[x].pc = "reschedule"
            /\ job'[x].lease = job[x].lease
        BY <1>0, <2>1, <3>1, FailJob DEF Pcs
      <3>3. Moves(x)
        BY <1>w, <2>1, <2>3, <3>2, WorkerMoves DEF At
      <3>4. KeepsClaim(x)
        BY <2>1, <3>2 DEF KeepsClaim, Keeps, At
      <3> QED BY <1>0, <2>1, <2>3, <3>3, <3>4, PlainSafe
    <2> QED BY <1>0, <2>2, <2>3
  <1> QED BY <1>1, <1>2, <1>3

\* A worker that looks, asks, meters or stops.
LEMMA WorkerPlain ==
    ASSUME SettlementInductive, NEW w \in Workers,
           \/ Superseded(w) \/ Quit(w) \/ Lookup(w) \/ MeterWorker(w)
           \/ RetryLater(w)
           \/ \E amount \in Amounts : Poll(w, amount)
    PROVE  SettlementInductive'
  <1>0. /\ w \in Actors /\ w \notin Owners /\ SettlementTypes
        /\ job[w] \in Jobs /\ Req(w) \in Requests
        /\ job[w].pc # "idle" => job[w].lease \in Leases
    BY WorkerFacts
  <1>t. metered \subseteq Requests /\ shared \subseteq Requests
    BY <1>0 DEF SettlementTypes
  <1>1. ASSUME UNCHANGED <<balanceVars, Rest>>, Fault \/ faults' = faults,
               Idle(w)
        PROVE  SettlementInductive'
    <2>1. Keeps(w) /\ job'[w].pc = "idle" /\ job'[w].lease = None
      BY <1>0, <1>1, IdleJob
    <2>2. Moves(w)
      BY <2>1, WorkerMoves
    <2>3. KeepsClaim(w)
      BY <2>1 DEF KeepsClaim, At
    <2>4. UNCHANGED <<metered, shared, outbox, secured>>
      BY <1>1 DEF Rest
    <2> QED BY <1>0, <1>1, <1>t, <2>2, <2>3, <2>4, PlainSafe
  <1>2. CASE Superseded(w) \/ Quit(w)
    BY <1>1, <1>2 DEF Superseded, Quit
  <1>3. ASSUME ~At(w, "idle"), UNCHANGED <<balanceVars, outbox, shared, secured>>,
               metered \subseteq metered', metered' \subseteq Requests,
               Fault \/ faults' = faults,
               Keeps(w), job'[w].lease = job[w].lease,
               job'[w].pc \in {"meter", "save", "poll", "refence", "reschedule"},
               job'[w].pc = "save" => job'[w].amount # None,
               job'[w].pc = "refence" => Req(w) \in metered'
        PROVE  SettlementInductive'
    <2>1. job[w].lease \in Leases
      BY <1>0, <1>3 DEF At
    <2>2. Moves(w)
      BY <1>3, <2>1, WorkerMoves
    <2>3. KeepsClaim(w)
      BY <1>3 DEF KeepsClaim, Keeps, At
    <2> QED BY <1>0, <1>3, <1>t, <2>2, <2>3, PlainSafe
  <1>4. CASE Lookup(w)
    <2>1. ASSUME NEW pc \in {"meter", "save", "poll"}, Goto(w, pc),
                 pc = "save" => job[w].amount # None
          PROVE  SettlementInductive'
      <3>1. GoesTo(w, pc)
        BY <1>0, <2>1, GotoJob DEF Pcs
      <3>2. ~At(w, "idle")
        BY <1>4 DEF Lookup, At
      <3> QED BY <1>0, <1>3, <1>4, <1>t, <2>1, <3>1, <3>2
          DEF Lookup, GoesTo, Rest
    <2>2. CASE usage[Req(w)] # None
      BY <1>4, <2>1, <2>2 DEF Lookup
    <2>3. CASE usage[Req(w)] = None /\ job[w].amount # None
      BY <1>4, <2>1, <2>3 DEF Lookup
    <2>4. CASE usage[Req(w)] = None /\ job[w].amount = None
      BY <1>4, <2>1, <2>4 DEF Lookup
    <2> QED BY <2>2, <2>3, <2>4
  <1>5. CASE MeterWorker(w)
    <2>1. GoesTo(w, "refence")
      BY <1>0, <1>5, GotoJob DEF MeterWorker, Pcs
    <2>2. ~At(w, "idle")
      BY <1>5 DEF MeterWorker, At
    <2> QED BY <1>0, <1>3, <1>5, <1>t, <2>1, <2>2 DEF MeterWorker, GoesTo
  <1>6. CASE RetryLater(w)
    <2>1. GoesTo(w, "reschedule")
      BY <1>0, <1>6, GotoJob DEF RetryLater, Pcs
    <2>2. ~At(w, "idle")
      BY <1>6 DEF RetryLater, At
    <2> QED BY <1>0, <1>3, <1>6, <1>t, <2>1, <2>2 DEF RetryLater, GoesTo, Rest
  <1>7. ASSUME NEW amount \in Amounts, Poll(w, amount)
        PROVE  SettlementInductive'
    <2>1. /\ Keeps(w) /\ job'[w].pc = "save" /\ job'[w].amount = amount
          /\ job'[w].lease = job[w].lease
      BY <1>0, <1>7, AmountJob DEF Poll, Pcs
    <2>2. ~At(w, "idle") /\ amount # None
      BY <1>7, BalanceAssumption DEF Poll, At
    <2> QED BY <1>0, <1>3, <1>7, <1>t, <2>1, <2>2 DEF Poll, Rest
  <1> QED BY <1>2, <1>4, <1>5, <1>6, <1>7

-----------------------------------------------------------------------------
(* The outbox.                                                             *)

\* A step that writes one row of the outbox and leaves the wallet alone.
LEMMA RowSafe ==
    ASSUME SettlementInductive, UNCHANGED <<balanceVars, metered, shared>>,
           Fault \/ faults' = faults,
           NEW x \in Actors, Moves(x), x \in Workers => KeepsClaim(x),
           NEW q \in Requests, outbox' = [outbox EXCEPT ![q] = outbox'[q]],
           RowFollows(q),
           secured' = secured \/ secured' = secured \cup {q},
           outbox'[q] # None \/ (Settled(q) /\ secured' = secured)
    PROVE  SettlementInductive'
  <1>1. WalletInvariant'
    BY WalletStep DEF SettlementInductive
  <1>2. Grows
    BY DEF Grows, balanceVars
  <1>3. faults' \in 0..MaxFaults
    BY FaultType DEF SettlementInductive
  <1>4. /\ outbox \in [Requests -> OutboxRows \cup {None}]
        /\ metered \subseteq Requests /\ shared \subseteq Requests
        /\ secured \subseteq Requests
    BY DEF SettlementInductive, SettlementTypes
  <1>5. outbox' = [r \in Requests |-> outbox'[r]]
    BY <1>4
  <1>6. \A r \in Requests : r # q => outbox'[r] = outbox[r]
    BY <1>4
  <1>7. \A r \in Requests : RowFollows(r) /\ ResvFollows(r)
    BY <1>4, <1>6 DEF RowFollows, ResvFollows, balanceVars
  <1>8. SecuredFollows
    <2>1. Settled(q) => Settled(q)'
      BY DEF Settled, balanceVars
    <2>2. secured' \subseteq Requests
      BY <1>4
    <2>3. ASSUME NEW r \in secured', outbox'[r] = None
          PROVE  Settled(r)' \/ (r \in secured /\ outbox[r] = None)
      BY <1>6, <2>1, <2>2, <2>3
    <2> QED BY <2>2, <2>3 DEF SecuredFollows
  <1> QED BY <1>1, <1>2, <1>3, <1>4, <1>5, <1>7, <1>8, StepSafe

\* A new settlement row is typed and has no lease.
LEMMA RowType ==
    ASSUME NEW o \in Owners, NEW amount \in Amounts \cup {None}
    PROVE  /\ Row(o, amount) \in OutboxRows /\ Row(o, amount).lease = None
           /\ Row(o, amount).of = o /\ Row(o, amount) # None
  <1>1. /\ Row(o, amount) \in OutboxRows /\ Row(o, amount).lease = None
        /\ Row(o, amount).of = o
    BY DEF Row, OutboxRows
  <1>2. Row(o, amount) # None
    BY <1>1, SettlementAssumption
  <1> QED BY <1>1, <1>2

\* An attempt secures what it has to settle, or acknowledges what is settled.
LEMMA AttemptRow ==
    ASSUME SettlementInductive, NEW o \in Owners,
           Persist(o) \/ Background(o) \/ Acknowledge(o)
    PROVE  SettlementInductive'
  <1>0. /\ o \in Actors /\ o \notin Workers /\ SettlementTypes
        /\ job[o] \in Jobs /\ job[o].of = o /\ RequestOf[o] \in Requests
        /\ job[o].pc \in {"save", "persist"} => job[o].amount # None
        /\ job[o].tpm = "ok" => RequestOf[o] \in metered
        /\ job[o].pc = "ack" => Settled(RequestOf[o])
    BY AttemptFacts
  <1>t. /\ outbox \in [Requests -> OutboxRows \cup {None}]
        /\ job[o].amount \in Amounts \cup {None}
    BY <1>0 DEF SettlementTypes, Jobs
  <1>1. ASSUME NEW amount \in Amounts \cup {None}, NEW pc \in {"save", "gone"},
               Goto(o, pc), pc = "save" => job[o].amount # None,
               outbox' = [outbox EXCEPT ![RequestOf[o]] = Row(o, amount)],
               secured' = secured \cup {RequestOf[o]},
               UNCHANGED <<balanceVars, metered, shared, faults>>
        PROVE  SettlementInductive'
    <2>1. GoesTo(o, pc)
      BY <1>0, <1>1, GotoJob DEF Pcs
    <2>2. Moves(o)
      BY <1>0, <1>1, <2>1, AttemptMoves DEF GoesTo
    <2>3. /\ outbox'[RequestOf[o]] = Row(o, amount)
          /\ outbox' = [outbox EXCEPT ![RequestOf[o]] = outbox'[RequestOf[o]]]
      BY <1>0, <1>1, <1>t
    <2>4. /\ Row(o, amount) \in OutboxRows /\ Row(o, amount).lease = None
          /\ Row(o, amount).of = o /\ Row(o, amount) # None
      BY <1>1, RowType
    <2>5. Past(o)'
      BY <1>1, <2>1 DEF Past, GoesTo
    <2>6. RowFollows(RequestOf[o])
      <3> DEFINE r == RequestOf[o]
      <3>1. outbox'[r] \in OutboxRows /\ outbox'[r].lease = None
        BY <2>3, <2>4
      <3>2. outbox'[r].of = o
        BY <2>3, <2>4
      <3>3. Past(outbox[r].of)'
        BY <2>5, <3>2 DEF Past
      <3> QED BY <3>1, <3>3 DEF RowFollows
    <2> QED BY <1>0, <1>1, <2>2, <2>3, <2>4, <2>6, RowSafe
  <1>2. CASE Persist(o)
    <2>1. PICK amount \in Amounts \cup {None} : amount = job[o].amount
      BY <1>t
    <2>2. CASE At(o, "persist")
      BY <1>0, <1>1, <1>2, <2>1, <2>2 DEF Persist, At
    <2>3. CASE ~At(o, "persist")
      BY <1>0, <1>1, <1>2, <2>1, <2>3 DEF Persist
    <2> QED BY <2>2, <2>3
  <1>3. CASE Background(o)
    BY <1>1, <1>3 DEF Background
  <1>4. CASE Acknowledge(o)
    <2>1. GoesTo(o, "gone")
      BY <1>0, <1>4, GotoJob DEF Acknowledge, Pcs
    <2>2. UNCHANGED <<balanceVars, metered, shared, secured, faults>>
      BY <1>4 DEF Acknowledge
    <2>3. Moves(o)
      BY <1>0, <2>1, <2>2, AttemptMoves DEF GoesTo
    <2>4. /\ outbox'[RequestOf[o]] = None
          /\ outbox' = [outbox EXCEPT ![RequestOf[o]] = outbox'[RequestOf[o]]]
      BY <1>0, <1>4, <1>t DEF Acknowledge
    <2>5. Settled(RequestOf[o])
      BY <1>0, <1>4 DEF Acknowledge, At
    <2>6. RowFollows(RequestOf[o])
      BY <2>4 DEF RowFollows
    <2> QED BY <1>0, <2>2, <2>3, <2>4, <2>5, <2>6, RowSafe
  <1> QED BY <1>2, <1>3, <1>4

\* The last write of a worker: only the row whose lease it holds, and only a
\* settled request's row goes away.
LEMMA WorkerRow ==
    ASSUME SettlementInductive, NEW w \in Workers,
           Clear(w) \/ Reschedule(w) \/ Relinquish(w)
    PROVE  SettlementInductive'
  <1>0. /\ w \in Actors /\ w \notin Owners /\ SettlementTypes
        /\ job[w] \in Jobs /\ job[w].of \in Owners /\ Req(w) \in Requests
        /\ job[w].pc # "idle" => Past(job[w].of)
        /\ job[w].pc = "clear" => Settled(Req(w))
    BY WorkerFacts
  <1>t. /\ outbox \in [Requests -> OutboxRows \cup {None}]
        /\ job[w].amount \in Amounts \cup {None}
        /\ metered \subseteq Requests /\ shared \subseteq Requests
    BY <1>0 DEF SettlementTypes, Jobs
  <1>1. /\ Idle(w)
        /\ Fault \/ faults' = faults
        /\ UNCHANGED <<balanceVars, metered, shared, secured>>
        /\ job[w].pc \in {"clear", "reschedule", "fence", "lookup", "poll", "save"}
    BY DEF Clear, Reschedule, Relinquish, At
  <1>2. Keeps(w) /\ job'[w].pc = "idle" /\ job'[w].lease = None
    BY <1>0, <1>1, IdleJob
  <1>3. Moves(w)
    BY <1>2, WorkerMoves
  <1>4. KeepsClaim(w)
    BY <1>2 DEF KeepsClaim, At
  <1>5. Fault \/ faults' = faults
    BY <1>1
  <1>6. CASE outbox' = outbox
    BY <1>0, <1>1, <1>3, <1>4, <1>5, <1>6, <1>t, PlainSafe
  <1>7. PICK q \in Requests : q = Req(w)
    BY <1>0
  <1>8. CASE Clear(w) /\ Owns(w)
    <2>1. /\ outbox'[q] = None /\ outbox' = [outbox EXCEPT ![q] = outbox'[q]]
      BY <1>7, <1>8, <1>t DEF Clear
    <2>2. Settled(q)
      BY <1>0, <1>7, <1>8 DEF Clear, At
    <2>3. RowFollows(q)
      BY <2>1 DEF RowFollows
    <2> QED BY <1>0, <1>1, <1>3, <1>4, <1>5, <2>1, <2>2, <2>3, RowSafe
  <1>9. CASE Reschedule(w) /\ Owns(w)
    <2>1. PICK amount \in Amounts \cup {None} : amount = job[w].amount
      BY <1>t
    <2>2. PICK o \in Owners : o = job[w].of
      BY <1>0
    <2>3. /\ outbox'[q] = Row(o, amount)
          /\ outbox' = [outbox EXCEPT ![q] = outbox'[q]]
      BY <1>7, <1>9, <1>t, <2>1, <2>2 DEF Reschedule
    <2>4. /\ Row(o, amount) \in OutboxRows /\ Row(o, amount).lease = None
          /\ Row(o, amount).of = o /\ Row(o, amount) # None
      BY <2>1, RowType
    <2>5. Past(o) /\ o \in Actors /\ o # w
      BY <1>0, <1>1, <2>2 DEF Actors
    <2>6. job'[o] = job[o]
      BY <1>0, <1>2, <2>5 DEF Keeps, SettlementTypes
    <2>7. RowFollows(q)
      <3>1. outbox'[q] \in OutboxRows /\ outbox'[q].lease = None
        BY <2>3, <2>4
      <3>2. outbox'[q].of = o
        BY <2>3, <2>4
      <3>3. Past(outbox[q].of)'
        BY <2>5, <2>6, <3>2 DEF Past
      <3> QED BY <3>1, <3>3 DEF RowFollows
    <2> QED BY <1>0, <1>1, <1>3, <1>4, <1>5, <2>3, <2>4, <2>7, RowSafe
  <1>10. CASE Relinquish(w) /\ Owns(w)
    <2> DEFINE new == [outbox[q] EXCEPT !.lease = None]
    <2>1. outbox[q] # None /\ outbox[q] \in OutboxRows
      BY <1>7, <1>10, <1>t DEF Owns
    <2>2. /\ new \in OutboxRows /\ new.lease = None /\ new.of = outbox[q].of
      BY <2>1 DEF OutboxRows
    <2>3. new # None
      BY <2>2, SettlementAssumption
    <2>4. outbox' = [outbox EXCEPT ![q] = new]
      BY <1>7, <1>10 DEF Relinquish
    <2> HIDE DEF new
    <2>5. outbox'[q] = new /\ outbox' = [outbox EXCEPT ![q] = outbox'[q]]
      BY <1>t, <2>4
    <2>6. PICK o \in Owners : o = outbox[q].of
      BY <2>1 DEF OutboxRows
    <2>7. Past(o) /\ o \in Actors /\ o # w
      BY <1>0, <2>1, <2>6 DEF Actors, SettlementInductive, SettledForPast
    <2>8. job'[o] = job[o]
      BY <1>0, <1>2, <2>7 DEF Keeps, SettlementTypes
    <2>9. RowFollows(q)
      <3>1. outbox'[q] \in OutboxRows /\ outbox'[q].lease = None
        BY <2>2, <2>5
      <3>2. outbox'[q].of = o
        BY <2>2, <2>5, <2>6
      <3>3. Past(outbox[q].of)'
        BY <2>7, <2>8, <3>2 DEF Past
      <3> QED BY <3>1, <3>3 DEF RowFollows
    <2> QED BY <1>0, <1>1, <1>3, <1>4, <1>5, <2>3, <2>5, <2>9, RowSafe
  <1>11. outbox' = outbox \/ Owns(w)
    BY DEF Clear, Reschedule, Relinquish
  <1> QED BY <1>6, <1>8, <1>9, <1>10, <1>11

\* The time of a lease runs out.
LEMMA LeaseExpiresSafe ==
    ASSUME SettlementInductive, NEW r \in Requests, LeaseExpires(r)
    PROVE  SettlementInductive'
  <1>1. /\ outbox \in [Requests -> OutboxRows \cup {None}]
        /\ job \in [Actors -> Jobs]
    BY DEF SettlementInductive, SettlementTypes
  <1> DEFINE new == [outbox[r] EXCEPT !.live = FALSE]
  <1>2. /\ UNCHANGED <<balanceVars, metered, shared, job, secured>>
        /\ Fault \/ faults' = faults
        /\ outbox[r] # None /\ outbox[r] \in OutboxRows
        /\ outbox' = [outbox EXCEPT ![r] = new]
    BY <1>1 DEF LeaseExpires
  <1>3. /\ new \in OutboxRows /\ new.lease = outbox[r].lease
        /\ new.of = outbox[r].of
    BY <1>2 DEF OutboxRows
  <1>4. new # None
    BY <1>3, SettlementAssumption
  <1> HIDE DEF new
  <1>5. outbox'[r] = new /\ outbox' = [outbox EXCEPT ![r] = outbox'[r]]
    BY <1>1, <1>2
  <1>6. RowFollows(r)
    BY <1>2, <1>3, <1>5 DEF RowFollows
  <1>7. PICK o \in Owners : TRUE
    BY SettlementAssumption
  <1>8. Moves(o) /\ o \in Actors /\ o \notin Workers
    BY <1>2, NobodyMoves DEF Grows, balanceVars
  <1> QED BY <1>2, <1>4, <1>5, <1>6, <1>8, RowSafe

\* A worker takes a lease nobody has: it holds the row it names, and nobody
\* else holds that row from then on.
LEMMA LeaseSafe ==
    ASSUME SettlementInductive, NEW w \in Workers, NEW q \in Requests,
           NEW l \in Leases, Fresh(l),
           UNCHANGED <<balanceVars, metered, shared, secured, faults>>,
           Moves(w), outbox' = [outbox EXCEPT ![q] = outbox'[q]],
           outbox[q] # None, outbox'[q] \in OutboxRows,
           outbox'[q].of = outbox[q].of, outbox'[q].lease = l,
           job'[w].lease = l, job'[w].of = outbox[q].of
    PROVE  SettlementInductive'
  <1>0. w \in Actors /\ w \notin Owners
    BY WorkerFacts
  <1>1. /\ outbox \in [Requests -> OutboxRows \cup {None}]
        /\ job \in [Actors -> Jobs]
    BY DEF SettlementInductive, SettlementTypes
  <1>2. WalletInvariant' /\ Grows
    BY WalletStep DEF SettlementInductive, Grows, balanceVars
  <1>3. /\ job' \in [Actors -> Jobs]
        /\ \A y \in Actors : JobOK(y)'
        /\ \A y \in Actors : y # w => job'[y] = job[y]
        /\ \A o \in Owners : Past(o) => Past(o)'
    BY <1>0, <1>2, JobsStep
  <1>4. outbox'[q] # None /\ \A r \in Requests : r # q => outbox'[r] = outbox[r]
    BY <1>1, SettlementAssumption
  <1>5. SettlementTypes'
    BY <1>1, <1>3 DEF SettlementInductive, SettlementTypes
  <1>6. /\ \A r \in Requests :
               outbox[r] # None => outbox[r].of \in Owners /\ Past(outbox[r].of)
        /\ \A v \in Workers :
               /\ job[v].of \in Owners
               /\ ~At(v, "idle") => Past(job[v].of)
    BY <1>1 DEF OutboxRows, Jobs, Actors, SettlementInductive, SettledForPast
  <1>7. SettledForPast'
    <2>1. ASSUME NEW r \in Requests, outbox'[r] # None
          PROVE  Past(outbox[r].of)'
      <3>1. outbox[r] # None /\ outbox'[r].of = outbox[r].of
        BY <1>4, <2>1
      <3> QED BY <1>3, <1>6, <3>1 DEF Past
    <2>2. ASSUME NEW v \in Workers, ~At(v, "idle")'
          PROVE  Past(job[v].of)'
      <3>1. CASE v = w
        <4>1. job'[v].of = outbox[q].of
          BY <3>1
        <4> QED BY <1>3, <1>6, <4>1 DEF Past
      <3>2. CASE v # w
        <4>1. job'[v] = job[v] /\ ~At(v, "idle")
          BY <1>3, <2>2, <3>2 DEF Actors, At
        <4> QED BY <1>3, <1>6, <4>1 DEF Past
      <3> QED BY <3>1, <3>2
    <2> QED BY <2>1, <2>2 DEF SettledForPast, Past
  <1>8. /\ \A r \in Requests : outbox[r] # None => outbox[r].lease # l
        /\ \A v \in Workers : job[v].lease # l
    BY DEF Fresh, Held
  <1>9. LeasesAgree'
    <2> SUFFICES ASSUME NEW v \in Workers, NEW r \in Requests,
                        outbox'[r] # None, outbox'[r].lease # None,
                        outbox'[r].lease = job'[v].lease
                 PROVE  outbox'[r].of = job'[v].of
      BY DEF LeasesAgree
    <2>1. CASE v = w
      <3>1. r = q
        BY <1>4, <1>8, <2>1
      <3> QED BY <2>1, <3>1
    <2>2. CASE v # w
      <3>1. job'[v] = job[v]
        BY <1>3, <2>2 DEF Actors
      <3>2. r # q
        BY <1>8, <3>1
      <3>3. outbox'[r] = outbox[r]
        BY <1>4, <3>2
      <3> QED BY <3>1, <3>3 DEF SettlementInductive, LeasesAgree
    <2> QED BY <2>1, <2>2
  <1>10. SecuredNeverLost'
    <2> SUFFICES ASSUME NEW r \in secured, outbox'[r] = None
                 PROVE  Settled(r)'
      BY DEF SecuredNeverLost
    <2>1. r \in Requests /\ outbox[r] = None
      BY <1>4 DEF SettlementInductive, SettlementTypes
    <2>2. Settled(r)
      BY <2>1 DEF SettlementInductive, SecuredNeverLost
    <2> QED BY <2>2 DEF Settled, balanceVars
  <1>11. RunningKeepsReservation'
    <2>1. \A o \in Owners : job'[o] = job[o]
      BY <1>0, <1>3 DEF Actors
    <2> QED BY <2>1
        DEF SettlementInductive, RunningKeepsReservation, At, balanceVars
  <1> QED BY <1>2, <1>3, <1>5, <1>7, <1>9, <1>10, <1>11
      DEF SettlementInductive

\* claim_due_settlements_before_for: the worker starts on the row as it is.
LEMMA ClaimSafe ==
    ASSUME SettlementInductive, NEW w \in Workers, NEW q \in Requests,
           NEW l \in Leases, Claim(w, q, l)
    PROVE  SettlementInductive'
  <1>0. w \in Actors /\ w \notin Owners
    BY WorkerFacts
  <1>1. /\ outbox \in [Requests -> OutboxRows \cup {None}]
        /\ job \in [Actors -> Jobs]
    BY DEF SettlementInductive, SettlementTypes
  <1> DEFINE row == [outbox[q] EXCEPT !.lease = l, !.live = TRUE]
             new == [NoJob(outbox[q].of) EXCEPT !.pc = "fence",
                        !.amount = outbox[q].amount, !.lease = l]
  <1>2. outbox[q] # None /\ outbox[q] \in OutboxRows
    BY <1>1 DEF Claim
  <1>3. row \in OutboxRows /\ row.of = outbox[q].of /\ row.lease = l
    BY <1>2 DEF OutboxRows
  <1>4. /\ new \in Jobs /\ new.pc = "fence" /\ new.of = outbox[q].of
        /\ new.lease = l
    BY <1>2 DEF NoJob, Jobs, Pcs, OutboxRows
  <1>5. /\ outbox' = [outbox EXCEPT ![q] = row]
        /\ job' = [job EXCEPT ![w] = new]
        /\ Fresh(l)
        /\ UNCHANGED <<balanceVars, metered, shared, secured, faults>>
    BY <1>1 DEF Claim
  <1> HIDE DEF row, new
  <1>6. /\ outbox'[q] = row /\ outbox' = [outbox EXCEPT ![q] = outbox'[q]]
        /\ job'[w] = new /\ job' = [job EXCEPT ![w] = job'[w]]
    BY <1>0, <1>1, <1>5
  <1>7. Moves(w)
    <2>1. WorkerOK(w)'
      BY <1>4, <1>6 DEF WorkerOK, At
    <2>2. JobOK(w)'
      BY <1>0, <1>4, <1>6, <2>1 DEF JobOK, At
    <2> QED BY <1>0, <1>4, <1>6, <2>2 DEF Moves
  <1> QED BY <1>2, <1>3, <1>4, <1>5, <1>6, <1>7, LeaseSafe

\* renew_claimed_settlement, between two steps of the worker or beside one.
LEMMA RenewSafe ==
    ASSUME SettlementInductive, NEW w \in Workers, NEW l \in Leases,
           NEW pc \in Pcs \ {"idle", "clear"}, Renew(w, l, pc),
           ~At(w, "idle"),
           pc = "save" => job[w].amount # None,
           pc = "share" /\ job[w].ok => spent[Req(w)] # None,
           pc \in {"refence", "settle", "consume", "share"} =>
               Req(w) \in metered,
           UNCHANGED <<balanceVars, metered, shared, secured, faults>>
    PROVE  SettlementInductive'
  <1>0. /\ w \in Actors /\ w \notin Owners /\ SettlementTypes
        /\ job[w] \in Jobs /\ Req(w) \in Requests
        /\ job[w].lease \in Leases
    BY WorkerFacts DEF At
  <1>1. /\ outbox \in [Requests -> OutboxRows \cup {None}]
        /\ job \in [Actors -> Jobs]
    BY <1>0 DEF SettlementTypes
  <1>2. PICK q \in Requests : q = Req(w)
    BY <1>0
  <1>3. /\ outbox[q] # None /\ outbox[q] \in OutboxRows
        /\ outbox[q].lease = job[w].lease
    BY <1>1, <1>2 DEF Renew, Owns
  <1>4. outbox[q].of = job[w].of
    <2>1. outbox[q].lease # None
      BY <1>0, <1>3, SettlementAssumption
    <2> QED BY <1>3, <2>1 DEF SettlementInductive, LeasesAgree
  <1> DEFINE row == [outbox[q] EXCEPT !.lease = l]
             new == [job[w] EXCEPT !.lease = l, !.pc = pc]
  <1>5. row \in OutboxRows /\ row.of = outbox[q].of /\ row.lease = l
    BY <1>3 DEF OutboxRows
  <1>6. /\ new \in Jobs /\ new.pc = pc /\ new.of = job[w].of
        /\ new.lease = l /\ new.amount = job[w].amount /\ new.ok = job[w].ok
    BY <1>0 DEF Jobs
  <1>7. outbox' = [outbox EXCEPT ![q] = row] /\ Fresh(l)
    BY <1>2 DEF Renew
  <1>8. job' = [job EXCEPT ![w] = new]
    BY <1>0, <1>1 DEF Renew
  <1> HIDE DEF row, new
  <1>9. /\ outbox'[q] = row /\ outbox' = [outbox EXCEPT ![q] = outbox'[q]]
        /\ job'[w] = new /\ job' = [job EXCEPT ![w] = job'[w]]
    BY <1>0, <1>1, <1>7, <1>8
  <1>10. Keeps(w)
    BY <1>6, <1>9 DEF Keeps
  <1>11. Moves(w)
    <2>1. spent' = spent
      BY DEF balanceVars
    <2> QED BY <1>6, <1>9, <1>10, <2>1, WorkerMoves
  <1> QED BY <1>3, <1>4, <1>5, <1>6, <1>7, <1>9, <1>11, LeaseSafe

\* The fences and the maintenance loop.
LEMMA FenceSafe ==
    ASSUME SettlementInductive, NEW w \in Workers, NEW l \in Leases,
           Fence(w, l) \/ Maintain(w, l)
    PROVE  SettlementInductive'
  <1>0. /\ job[w].pc = "save" => job[w].amount # None
        /\ job[w].pc = "share" /\ job[w].ok => spent[Req(w)] # None
        /\ job[w].pc \in {"refence", "settle", "consume", "share"} =>
               Req(w) \in metered
    BY WorkerFacts
  <1>1. CASE At(w, "fence") /\ Fence(w, l)
    BY <1>1, RenewSafe DEF Fence, At, Pcs
  <1>2. CASE At(w, "refence") /\ Fence(w, l)
    BY <1>0, <1>2, RenewSafe DEF Fence, At, Pcs
  <1>3. CASE Maintain(w, l)
    <2>1. PICK pc \in {"lookup", "poll", "save", "settle", "consume", "share"} :
              pc = job[w].pc
      BY <1>3 DEF Maintain
    <2>2. /\ Renew(w, l, pc) /\ ~At(w, "idle")
          /\ UNCHANGED <<balanceVars, metered, shared, secured, faults>>
      BY <1>3, <2>1 DEF Maintain, At
    <2> QED BY <1>0, <2>1, <2>2, RenewSafe DEF Pcs
  <1> QED BY <1>1, <1>2, <1>3 DEF Fence

-----------------------------------------------------------------------------
(* The wallet.                                                             *)

\* A transaction on the wallet, by an actor that moves on.
LEMMA MoneySafe ==
    ASSUME SettlementInductive, [BalanceNext]_balanceVars,
           UNCHANGED <<Rest, faults>>,
           NEW x \in Actors, Moves(x), x \in Workers => KeepsClaim(x),
           \A r \in Requests : ResvFollows(r)
    PROVE  SettlementInductive'
  <1>1. WalletInvariant'
    BY WalletStep DEF SettlementInductive
  <1>2. Grows
    BY EndedStep DEF SettlementInductive, Grows, Rest
  <1>3. /\ UNCHANGED <<outbox, metered, shared, secured>>
        /\ outbox \in [Requests -> OutboxRows \cup {None}]
        /\ metered \subseteq Requests /\ shared \subseteq Requests
        /\ secured \subseteq Requests /\ faults' \in 0..MaxFaults
    BY DEF SettlementInductive, SettlementTypes, Rest
  <1>4. \A r \in Requests : RowFollows(r)
    BY <1>3 DEF RowFollows
  <1>5. SecuredFollows
    BY <1>3 DEF SecuredFollows
  <1>6. outbox' = [r \in Requests |-> outbox'[r]]
    BY <1>3
  <1> QED BY <1>1, <1>2, <1>3, <1>4, <1>5, <1>6, StepSafe

\* Reclaiming ends reservations by time.
LEMMA ReclaimFollows ==
    ASSUME SettlementInductive, NEW r \in Requests, resv'[r] = ReclaimedResv[r]
    PROVE  ResvFollows(r)
  <1>1. BalanceTypeOK
    BY DEF SettlementInductive, WalletInvariant
  <1>2. /\ resv[r].status # "active" => ReclaimedResv[r] = resv[r]
        /\ ReclaimedResv[r].status \in {resv[r].status, "expired"}
    BY <1>1, ReclaimedStatus
  <1> QED BY <1>2 DEF ResvFollows

\* The reservation of a new attempt.
LEMMA BeginSafe ==
    ASSUME SettlementInductive, NEW o \in Owners, NEW requested \in Amounts,
           Begin(o, requested)
    PROVE  SettlementInductive'
  <1>0. /\ o \in Actors /\ o \notin Workers /\ SettlementTypes
        /\ job[o].tpm = "ok" => RequestOf[o] \in metered
        /\ RequestOf[o] \in Requests
    BY AttemptFacts
  <1>1. GoesTo(o, "running")
    BY <1>0, GotoJob DEF Begin, Pcs
  <1> DEFINE q == RequestOf[o]
             amount == AmountToReserve(requested)
             new == [status |-> "active", owner |-> o, amount |-> amount,
                     due |-> FALSE, administrative |-> FALSE]
  <1>2. /\ At(o, "idle") /\ Reserve(q, o, requested)
        /\ UNCHANGED <<Rest, faults>>
    BY DEF Begin
  <1>3. /\ resv' = [ReclaimedResv EXCEPT ![q] = new]
        /\ spent' = spent
    BY <1>2 DEF Reserve
  <1>4. new.status = "active"
    OBVIOUS
  <1> HIDE DEF new, amount
  <1>5. /\ resv'[q].status = "active"
        /\ \A r \in Requests : r # q => resv'[r] = ReclaimedResv[r]
    BY <1>0, <1>3, <1>4 DEF ReclaimedResv
  <1>6. \A r \in Requests : ResvFollows(r)
    BY <1>5, ReclaimFollows DEF ResvFollows
  <1>7. BalanceNext
    BY <1>0, <1>2 DEF BalanceNext, RequestNext
  <1>8. Moves(o)
    BY <1>0, <1>1, <1>2, <1>5, AttemptMoves DEF GoesTo, Rest
  <1> QED BY <1>0, <1>2, <1>6, <1>7, <1>8, MoneySafe

\* A dropped attempt releases what is still its own.
LEMMA ReleaseDroppedSafe ==
    ASSUME SettlementInductive, NEW o \in Owners, ReleaseDropped(o)
    PROVE  SettlementInductive'
  <1>0. /\ o \in Actors /\ o \notin Workers /\ SettlementTypes
        /\ job[o].tpm = "ok" => RequestOf[o] \in metered
        /\ RequestOf[o] \in Requests
    BY AttemptFacts
  <1>1. GoesTo(o, "gone")
    BY <1>0, GotoJob DEF ReleaseDropped, Pcs
  <1>2. Moves(o)
    BY <1>0, <1>1, AttemptMoves DEF GoesTo, ReleaseDropped, Rest
  <1>3. Past(o)'
    BY <1>1 DEF GoesTo, Past
  <1>4. UNCHANGED <<Rest, faults>>
    BY DEF ReleaseDropped
  <1> DEFINE q == RequestOf[o]
  <1>5. CASE Release(q, o)
    <2>1. /\ resv' = [resv EXCEPT ![q] = [resv[q] EXCEPT !.status = "released"]]
          /\ resv[q].owner = o
      BY <1>5 DEF Release, HeldBy
    <2>2. resv \in [Requests -> Reservations]
      BY DEF SettlementInductive, WalletInvariant, BalanceTypeOK
    <2>3. [resv[q] EXCEPT !.status = "released"].owner = resv[q].owner
      BY <1>0, <2>2 DEF Reservations
    <2>4. /\ resv'[q].owner = o
          /\ \A r \in Requests : r # q => resv'[r] = resv[r]
      BY <1>0, <2>1, <2>2, <2>3
    <2>5. Past(resv[q].owner)'
      BY <1>3, <2>4 DEF Past
    <2>6. \A r \in Requests : ResvFollows(r)
      BY <2>4, <2>5 DEF ResvFollows
    <2>7. BalanceNext
      BY <1>0, <1>5 DEF BalanceNext, RequestNext
    <2> QED BY <1>0, <1>2, <1>4, <2>6, <2>7, MoneySafe
  <1>6. CASE UNCHANGED balanceVars
    <2>1. \A r \in Requests : ResvFollows(r)
      BY <1>6 DEF ResvFollows, balanceVars
    <2> QED BY <1>0, <1>2, <1>4, <1>6, <2>1, MoneySafe
  <1> QED BY <1>5, <1>6 DEF ReleaseDropped

\* The log of the request is saved, or was.
LEMMA SaveSafe ==
    ASSUME SettlementInductive, NEW x \in Actors, Save(x)
    PROVE  SettlementInductive'
  <1>0. /\ SettlementTypes /\ job[x] \in Jobs /\ JobOK(x)
        /\ x \in Owners \/ x \in Workers
    BY DEF SettlementInductive, SettlementTypes, Actors
  <1>1. /\ At(x, "save") /\ Goto(x, AfterSave(x)) /\ UNCHANGED <<Rest, faults>>
        /\ \/ SaveUsage(Req(x), job[x].amount)
           \/ UNCHANGED balanceVars
    BY DEF Save
  <1>2. PICK q \in Requests : q = Req(x)
    BY <1>0, SettlementAssumption DEF Jobs, Req
  <1>3. PICK amount \in Amounts : amount = job[x].amount
    BY <1>0, <1>1 DEF Jobs, JobOK
  <1>4. [BalanceNext]_balanceVars
    <2>1. CASE SaveUsage(q, amount)
      BY <2>1 DEF BalanceNext, RequestNext
    <2> QED BY <1>1, <1>2, <1>3, <2>1
  <1>5. /\ UNCHANGED <<metered, shared>>
        /\ \A r \in Requests : ResvFollows(r)
    BY <1>1 DEF Rest, SaveUsage, balanceVars, ResvFollows
  <1>6. CASE x \in Owners
    <2>1. x \notin Workers /\ (job[x].tpm = "ok" => RequestOf[x] \in metered)
      BY <1>6, AttemptFacts
    <2>2. GoesTo(x, "settle")
      BY <1>0, <1>1, <2>1, GotoJob DEF AfterSave, Pcs
    <2>3. Moves(x)
      BY <1>5, <1>6, <2>1, <2>2, AttemptMoves DEF GoesTo
    <2> QED BY <1>1, <1>4, <1>5, <2>1, <2>3, MoneySafe
  <1>7. CASE x \in Workers
    <2>1. job[x].lease \in Leases
      BY <1>1, <1>7, WorkerFacts DEF At
    <2>2. GoesTo(x, "meter")
      BY <1>0, <1>1, <1>7, GotoJob DEF AfterSave, Pcs
    <2>3. Moves(x)
      BY <1>5, <1>7, <2>1, <2>2, WorkerMoves DEF GoesTo
    <2>4. KeepsClaim(x)
      BY <1>1, <2>2 DEF KeepsClaim, GoesTo, Keeps, At
    <2> QED BY <1>1, <1>4, <1>5, <1>7, <2>3, <2>4, MoneySafe
  <1> QED BY <1>0, <1>6, <1>7

\* The charge of a request is made or found.
LEMMA ChargeMade ==
    ASSUME BalanceTypeOK, NEW q \in Requests, NEW o,
           \/ Settle(q, o) \/ Consume(q)
           \/ SettleReplays(q) /\ UNCHANGED balanceVars
    PROVE  spent'[q] # None
  <1>1. spent \in [Requests -> Amounts \cup {None}]
    BY DEF BalanceTypeOK
  <1>2. CASE spent[q] # None
    <2>1. spent' = spent
      BY <1>2 DEF Settle, Consume, balanceVars
    <2> QED BY <1>2, <2>1
  <1>3. CASE spent[q] = None
    <2>1. usage[q] # None /\ spent' = [spent EXCEPT ![q] = usage[q]]
      BY <1>3 DEF Settle, Consume, SettleReplays
    <2> QED BY <1>1, <2>1
  <1> QED BY <1>2, <1>3

\* deduct_balance_if_configured, by the attempt or by a worker.  Only the
\* reservation of an attempt that is past its generation is settled.
LEMMA DeductSafe ==
    ASSUME SettlementInductive, NEW x \in Actors, Deduct(x)
    PROVE  SettlementInductive'
  <1>0. /\ SettlementTypes /\ job[x] \in Jobs /\ BalanceTypeOK
        /\ x \in Owners \/ x \in Workers
    BY DEF SettlementInductive, SettlementTypes, WalletInvariant, Actors
  <1>1. PICK q \in Requests : q = Req(x)
    BY <1>0, SettlementAssumption DEF Jobs, Req
  <1>2. PICK o \in Owners : o = job[x].of
    BY <1>0 DEF Jobs
  <1>3. PICK pc \in {"share", "consume"} :
            /\ Goto(x, pc)
            /\ \/ pc = "share" /\ Settle(q, o)
               \/ pc = "share" /\ SettleReplays(q) /\ UNCHANGED balanceVars
               \/ pc = "share" /\ Consume(q)
               \/ pc = "consume" /\ UNCHANGED balanceVars
    BY <1>1, <1>2 DEF Deduct
  <1>4. /\ job[x].pc \in {"settle", "consume"} /\ UNCHANGED <<Rest, faults>>
    BY DEF Deduct, At
  <1>5. GoesTo(x, pc)
    BY <1>0, <1>3, GotoJob DEF Pcs
  <1>6. pc = "share" => spent'[q] # None
    BY <1>0, <1>3, ChargeMade
  <1>7. [BalanceNext]_balanceVars
    BY <1>3 DEF BalanceNext, RequestNext
  <1>8. Past(o)'
    <2>1. CASE x \in Owners
      <3>1. o = x
        BY <1>2, <2>1, AttemptFacts
      <3> QED BY <1>5, <3>1 DEF Past, GoesTo
    <2>2. CASE x \in Workers
      <3>1. Past(o) /\ o # x /\ o \in Actors
        BY <1>2, <1>4, <2>2, WorkerFacts DEF Actors
      <3>2. job'[o] = job[o]
        BY <1>0, <1>5, <3>1 DEF GoesTo, Keeps, SettlementTypes
      <3> QED BY <3>1, <3>2 DEF Past
    <2> QED BY <1>0, <2>1, <2>2
  <1>9. ASSUME NEW r \in Requests PROVE ResvFollows(r)
    <2>1. CASE Settle(q, o)
      <3>1. /\ resv' = [resv EXCEPT ![q] = [resv[q] EXCEPT !.status = "settled"]]
            /\ resv[q].owner = o
        BY <2>1 DEF Settle, HeldBy
      <3>2. resv \in [Requests -> Reservations]
        BY <1>0 DEF BalanceTypeOK
      <3>3. [resv[q] EXCEPT !.status = "settled"].owner = resv[q].owner
        BY <3>2 DEF Reservations
      <3>4. resv'[q].owner = o /\ (r # q => resv'[r] = resv[r])
        BY <3>1, <3>2, <3>3
      <3>5. Past(resv[q].owner)'
        BY <1>8, <3>4 DEF Past
      <3> QED BY <3>4, <3>5 DEF ResvFollows
    <2>2. CASE Consume(q)
      BY <2>2, ReclaimFollows DEF Consume
    <2>3. CASE UNCHANGED balanceVars
      BY <2>3 DEF ResvFollows, balanceVars
    <2> QED BY <1>3, <2>1, <2>2, <2>3
  <1>10. UNCHANGED <<metered, shared>>
    BY <1>4 DEF Rest
  <1>11. CASE x \in Owners
    <2>1. /\ x \notin Workers /\ Req(x) = RequestOf[x]
          /\ job[x].tpm = "ok" => RequestOf[x] \in metered
      BY <1>11, AttemptFacts
    <2>2. Moves(x)
      BY <1>1, <1>3, <1>5, <1>6, <1>10, <1>11, <2>1, AttemptMoves DEF GoesTo
    <2> QED BY <1>4, <1>7, <1>9, <2>1, <2>2, MoneySafe
  <1>12. CASE x \in Workers
    <2>1. job[x].lease \in Leases /\ Req(x) \in metered
      BY <1>4, <1>12, WorkerFacts
    <2>2. spent'[Req(x)] # None \/ pc # "share"
      BY <1>1, <1>6
    <2>3. Moves(x)
      BY <1>3, <1>5, <1>10, <1>12, <2>1, <2>2, WorkerMoves DEF GoesTo
    <2>4. KeepsClaim(x)
      BY <1>4, <1>5 DEF KeepsClaim, GoesTo, Keeps, At
    <2> QED BY <1>4, <1>7, <1>9, <1>12, <2>3, <2>4, MoneySafe
  <1> QED BY <1>0, <1>11, <1>12

\* What happens to the wallet meanwhile ends no reservation but by time or an
\* administrator.
LEMMA WalletNextSafe ==
    ASSUME SettlementInductive, WalletNext
    PROVE  SettlementInductive'
  <1>1. UNCHANGED <<Rest, job, faults>>
    BY DEF WalletNext
  <1>2. resv \in [Requests -> Reservations]
    BY DEF SettlementInductive, WalletInvariant, BalanceTypeOK
  <1>3. BalanceNext
    BY DEF WalletNext, BalanceNext, HouseNext, OfficeNext
  <1>4. ASSUME NEW r \in Requests PROVE ResvFollows(r)
    <2>1. CASE \E amount \in Amounts \ {0} : Credit(amount)
      BY <2>1 DEF Credit, ResvFollows
    <2>2. ASSUME NEW q \in Requests, Lapse(q) PROVE ResvFollows(r)
      <3>1. /\ resv' = [resv EXCEPT ![q] = [resv[q] EXCEPT !.due = TRUE]]
            /\ resv[q].status = "active"
        BY <2>2 DEF Lapse, Active
      <3>2. [resv[q] EXCEPT !.due = TRUE].status = "active"
        BY <1>2, <3>1 DEF Reservations
      <3>3. resv'[q].status = "active" /\ (r # q => resv'[r] = resv[r])
        BY <1>2, <3>1, <3>2
      <3> QED BY <3>3 DEF ResvFollows
    <2>3. CASE \E elsewhere \in Amounts : ReclaimExpired(elsewhere)
      BY <2>3, ReclaimFollows DEF ReclaimExpired
    <2>4. ASSUME NEW q \in Requests, NEW o \in Owners, AdminRelease(q, o, TRUE)
          PROVE  ResvFollows(r)
      <3> DEFINE new == [resv[q] EXCEPT !.status = "released",
                                        !.administrative = TRUE]
      <3>1. resv' = [resv EXCEPT ![q] = new]
        BY <1>2, <2>4 DEF AdminRelease
      <3>2. AdministrativelyReleased(new)
        BY <1>2 DEF Reservations, AdministrativelyReleased
      <3> HIDE DEF new
      <3>3. resv'[q] = new /\ (r # q => resv'[r] = resv[r])
        BY <1>2, <3>1
      <3> QED BY <3>2, <3>3 DEF ResvFollows
    <2> QED BY <2>1, <2>2, <2>3, <2>4 DEF WalletNext
  <1>5. PICK o \in Owners : TRUE
    BY SettlementAssumption
  <1>6. Grows
    BY <1>1, <1>3, EndedStep DEF Grows, Rest, SettlementInductive
  <1>7. Moves(o) /\ o \in Actors /\ o \notin Workers
    BY <1>1, <1>6, NobodyMoves
  <1> QED BY <1>1, <1>3, <1>4, <1>7, MoneySafe

-----------------------------------------------------------------------------
(* The theorems.                                                           *)

\* Nobody works, nothing is written and nothing is reserved.
LEMMA SettlementInitially ==
    ASSUME SettlementInit
    PROVE  SettlementInductive
  <1>1. WalletInvariant /\ resv = [r \in Requests |-> NoReservation]
    BY WalletInitially DEF SettlementInit, BalanceInit
  <1>2. PICK first \in Owners : first = CHOOSE o \in Owners : TRUE
    BY SettlementAssumption
  <1> DEFINE of(x) == IF x \in Owners THEN x ELSE first
  <1>3. /\ job = [x \in Actors |-> NoJob(of(x))]
        /\ outbox = [r \in Requests |-> None]
        /\ metered = {} /\ shared = {} /\ secured = {} /\ faults = 0
    BY <1>2 DEF SettlementInit
  <1>4. ASSUME NEW x \in Actors
        PROVE  /\ job[x] \in Jobs /\ job[x].pc = "idle" /\ job[x].tpm = "todo"
               /\ x \in Owners => job[x].of = x
    <2>1. job[x] = NoJob(of(x)) /\ of(x) \in Owners
      BY <1>3
    <2> QED BY <2>1 DEF NoJob, Jobs, Pcs
  <1>5. SettlementTypes
    BY <1>3, <1>4, SettlementAssumption DEF SettlementTypes
  <1>6. \A x \in Actors : JobOK(x)
    BY <1>4 DEF JobOK, AttemptOK, WorkerOK, At
  <1>7. SettledForPast /\ LeasesAgree /\ SecuredNeverLost
    BY <1>3, <1>4 DEF SettledForPast, LeasesAgree, SecuredNeverLost, At, Actors
  <1>8. RunningKeepsReservation
    BY <1>4 DEF RunningKeepsReservation, At, Actors
  <1> QED BY <1>1, <1>5, <1>6, <1>7, <1>8 DEF SettlementInductive

\* One case for each action of Settlement.
LEMMA SettlementStep ==
    SettlementInductive /\ [SettlementNext]_settlementVars
        => SettlementInductive'
  <1> SUFFICES ASSUME SettlementInductive, [SettlementNext]_settlementVars
               PROVE  SettlementInductive'
    OBVIOUS
  <1>1. ASSUME NEW o \in Owners, AttemptNext(o) PROVE SettlementInductive'
    BY <1>1, BeginSafe, ReleaseDroppedSafe, AttemptPlain, AttemptRow
       DEF AttemptNext
  <1>2. ASSUME NEW x \in Actors, EffectNext(x) PROVE SettlementInductive'
    BY <1>2, SaveSafe, DeductSafe, EffectPlain DEF EffectNext
  <1>3. ASSUME NEW w \in Workers, WorkerNext(w) PROVE SettlementInductive'
    BY <1>3, ClaimSafe, FenceSafe, WorkerPlain, WorkerRow DEF WorkerNext
  <1>4. CASE UNCHANGED settlementVars
    <2>1. /\ UNCHANGED <<balanceVars, outbox, metered, shared, secured>>
          /\ job' = job /\ faults' = faults
      BY <1>4 DEF settlementVars
    <2>2. PICK o \in Owners : TRUE
      BY SettlementAssumption
    <2>3. Grows
      BY <2>1 DEF Grows, balanceVars
    <2>4. Moves(o) /\ o \in Actors /\ o \notin Workers
      BY <2>1, <2>3, NobodyMoves
    <2>5. metered \subseteq Requests /\ shared \subseteq Requests
      BY DEF SettlementInductive, SettlementTypes
    <2> QED BY <2>1, <2>4, <2>5, PlainSafe
  <1> QED BY <1>1, <1>2, <1>3, <1>4, LeaseExpiresSafe, WalletNextSafe
          DEF SettlementNext

\* What the inductive invariant says of the properties that were asked for.
LEMMA SettlementEnough == SettlementInductive => SettlementInvariant
  BY DEF SettlementInductive, SettlementInvariant, SettlementTypeOK,
         SettlementTypes, WalletInvariant, Jobs, JobOK

\* A settlement that was written to the outbox is there until its request is
\* charged, metered and shared, whichever calls fail and whichever processes
\* die; an attempt that generates keeps its reservation whatever older
\* attempts and workers of the same request do (SettlementInvariant), for
\* every number of requests, attempts, workers and faults.
THEOREM SettlementSafe == SettlementSpec => []SettlementInvariant
  <1>1. SettlementInit => SettlementInductive
    BY SettlementInitially
  <1>2. SettlementInductive /\ [SettlementNext]_settlementVars
            => SettlementInductive'
    BY SettlementStep
  <1>3. SettlementInductive => SettlementInvariant
    BY SettlementEnough
  <1> QED BY <1>1, <1>2, <1>3, PTL DEF SettlementSpec

\* Whoever writes a row, it is for the attempt it was for, or the attempt that
\* is written is the one that moves.
RowOwnerKept(r) ==
    outbox[r] # None /\ outbox'[r] # None /\ outbox'[r].of # outbox[r].of
        => job'[outbox'[r].of] # job[outbox'[r].of]

\* An attempt that writes its row moves on in the same step.
LEMMA AttemptWrites ==
    ASSUME SettlementInductive, NEW o \in Owners, Persist(o) \/ Background(o),
           NEW r \in Requests
    PROVE  RowOwnerKept(r)
  <1>1. /\ SettlementTypes /\ o \in Actors /\ RequestOf[o] \in Requests
    BY AttemptFacts
  <1>2. /\ outbox \in [Requests -> OutboxRows \cup {None}]
        /\ job \in [Actors -> Jobs] /\ job[o] \in Jobs
    BY <1>1 DEF SettlementTypes
  <1>3. job'[o].pc # job[o].pc
    BY <1>2, <1>1 DEF Persist, Background, Goto, At, Jobs
  <1>4. PICK row : row.of = o /\ outbox' = [outbox EXCEPT ![RequestOf[o]] = row]
    <2>1. CASE Persist(o)
      <3>1. Row(o, job[o].amount).of = o
        BY DEF Row
      <3> QED BY <2>1, <3>1 DEF Persist
    <2>2. CASE Background(o)
      <3>1. Row(o, None).of = o
        BY DEF Row
      <3> QED BY <2>2, <3>1 DEF Background
    <2> QED BY <2>1, <2>2
  <1>5. r = RequestOf[o] => outbox'[r].of = o
    BY <1>1, <1>2, <1>4
  <1>6. r # RequestOf[o] => outbox'[r] = outbox[r]
    BY <1>2, <1>4
  <1> QED BY <1>3, <1>5, <1>6 DEF RowOwnerKept

\* A worker that reschedules still holds the lease of the row, and so has the
\* attempt of the row in hand.
LEMMA WorkerWrites ==
    ASSUME SettlementInductive, NEW w \in Workers, Reschedule(w),
           NEW r \in Requests
    PROVE  RowOwnerKept(r)
  <1>1. /\ SettlementTypes /\ Req(w) \in Requests
        /\ job[w].pc # "idle" => job[w].lease \in Leases
    BY WorkerFacts
  <1>2. outbox \in [Requests -> OutboxRows \cup {None}]
    BY <1>1 DEF SettlementTypes
  <1>3. job[w].lease # None
    BY <1>1, SettlementAssumption DEF Reschedule, At
  <1>4. CASE Owns(w)
    <2>1. outbox[Req(w)].of = job[w].of
      BY <1>1, <1>3, <1>4 DEF Owns, SettlementInductive, LeasesAgree
    <2>2. Row(job[w].of, job[w].amount).of = job[w].of
      BY DEF Row
    <2>3. outbox' = [outbox EXCEPT ![Req(w)] = Row(job[w].of, job[w].amount)]
      BY <1>4 DEF Reschedule
    <2>4. outbox'[r] = IF r = Req(w) THEN Row(job[w].of, job[w].amount)
                       ELSE outbox[r]
      BY <1>2, <2>3
    <2> QED BY <2>1, <2>2, <2>4 DEF RowOwnerKept
  <1>5. CASE ~Owns(w)
    BY <1>5 DEF Reschedule, RowOwnerKept
  <1> QED BY <1>4, <1>5

\* A lease is taken, renewed, given back or runs out on the row as it is.
LEMMA LeaseWrites ==
    ASSUME SettlementInductive, NEW q \in Requests, NEW l, NEW b, outbox[q] # None,
           \/ outbox' = [outbox EXCEPT ![q].lease = l, ![q].live = b]
           \/ outbox' = [outbox EXCEPT ![q].lease = l]
           \/ outbox' = [outbox EXCEPT ![q].live = b],
           NEW r \in Requests
    PROVE  RowOwnerKept(r)
  <1>1. outbox \in [Requests -> OutboxRows \cup {None}] /\ outbox[q] \in OutboxRows
    BY DEF SettlementInductive, SettlementTypes
  <1>2. PICK row : row.of = outbox[q].of /\ outbox' = [outbox EXCEPT ![q] = row]
    <2>1. CASE outbox' = [outbox EXCEPT ![q].lease = l, ![q].live = b]
      <3> DEFINE new == [outbox[q] EXCEPT !.lease = l, !.live = b]
      <3>1. new.of = outbox[q].of
        BY <1>1 DEF OutboxRows
      <3>2. outbox' = [outbox EXCEPT ![q] = new]
        BY <1>1, <2>1
      <3> QED BY <3>1, <3>2
    <2>2. CASE outbox' = [outbox EXCEPT ![q].lease = l]
      <3> DEFINE new == [outbox[q] EXCEPT !.lease = l]
      <3>1. new.of = outbox[q].of
        BY <1>1 DEF OutboxRows
      <3> QED BY <2>2, <3>1
    <2>3. CASE outbox' = [outbox EXCEPT ![q].live = b]
      <3> DEFINE new == [outbox[q] EXCEPT !.live = b]
      <3>1. new.of = outbox[q].of
        BY <1>1 DEF OutboxRows
      <3> QED BY <2>3, <3>1
    <2> QED BY <2>1, <2>2, <2>3
  <1>3. outbox'[r] = IF r = q THEN row ELSE outbox[r]
    BY <1>1, <1>2
  <1> QED BY <1>2, <1>3 DEF RowOwnerKept

\* The other steps write no row, or take one away.
LEMMA RowOwnerStep ==
    ASSUME SettlementInductive, [SettlementNext]_settlementVars,
           NEW r \in Requests
    PROVE  RowOwnerKept(r)
  <1>1. /\ outbox \in [Requests -> OutboxRows \cup {None}]
        /\ \A w \in Workers : Req(w) \in Requests
    BY WorkerFacts DEF SettlementInductive, SettlementTypes
  <1>2. ASSUME outbox' = outbox PROVE RowOwnerKept(r)
    BY <1>2 DEF RowOwnerKept
  <1>3. ASSUME NEW q \in Requests, outbox' = [outbox EXCEPT ![q] = None]
        PROVE  RowOwnerKept(r)
    BY <1>1, <1>3 DEF RowOwnerKept
  <1>4. ASSUME NEW o \in Owners, AttemptNext(o) PROVE RowOwnerKept(r)
    <2>1. CASE Persist(o) \/ Background(o)
      BY <2>1, AttemptWrites
    <2>2. CASE Acknowledge(o)
      BY <1>3, <2>2, SettlementAssumption DEF Acknowledge
    <2>3. CASE \/ \E requested \in Amounts : Begin(o, requested)
               \/ \E amount \in Amounts : Finish(o, amount)
               \/ Cancel(o) \/ ReleaseDropped(o) \/ Crash(o) \/ PersistFails(o)
               \/ SaveFails(o) \/ MeterAttempt(o) \/ MeterAttemptFails(o)
               \/ Conclude(o)
      BY <1>2, <2>3 DEF Begin, Finish, Cancel, ReleaseDropped, Crash,
         PersistFails, SaveFails, MeterAttempt, MeterAttemptFails, Conclude, Rest
    <2> QED BY <1>4, <2>1, <2>2, <2>3 DEF AttemptNext
  <1>5. ASSUME NEW x \in Actors, EffectNext(x) PROVE RowOwnerKept(r)
    BY <1>2, <1>5 DEF EffectNext, Save, Deduct, DeductFails, Share, ShareFails,
       Rest
  <1>6. ASSUME NEW w \in Workers, WorkerNext(w) PROVE RowOwnerKept(r)
    <2>1. ASSUME NEW q \in Requests, NEW l \in Leases, Claim(w, q, l)
          PROVE  RowOwnerKept(r)
      BY <2>1, LeaseWrites DEF Claim
    <2>2. PICK q \in Requests : q = Req(w)
      BY <1>1
    <2>3. ASSUME NEW l \in Leases, Fence(w, l) \/ Maintain(w, l)
          PROVE  RowOwnerKept(r)
      <3>1. outbox[q] # None /\ outbox' = [outbox EXCEPT ![q].lease = l]
        BY <2>2, <2>3 DEF Fence, Maintain, Renew, Owns
      <3> QED BY <3>1, LeaseWrites
    <2>4. CASE Relinquish(w)
      <3>1. \/ outbox' = outbox
            \/ outbox[q] # None /\ outbox' = [outbox EXCEPT ![q].lease = None]
        BY <2>2, <2>4 DEF Relinquish, Owns
      <3> QED BY <1>2, <3>1, LeaseWrites
    <2>5. CASE Clear(w)
      <3>1. outbox' = outbox \/ outbox' = [outbox EXCEPT ![q] = None]
        BY <2>2, <2>5 DEF Clear
      <3> QED BY <1>2, <1>3, <3>1
    <2>6. CASE Reschedule(w)
      BY <2>6, WorkerWrites
    <2>7. CASE \/ Superseded(w) \/ Quit(w) \/ Lookup(w) \/ MeterWorker(w)
               \/ RetryLater(w)
               \/ \E amount \in Amounts : Poll(w, amount)
      BY <1>2, <2>7 DEF Superseded, Quit, Lookup, MeterWorker, RetryLater,
         Poll, Rest
    <2> QED BY <1>6, <2>1, <2>3, <2>4, <2>5, <2>6, <2>7 DEF WorkerNext
  <1>7. ASSUME NEW q \in Requests, LeaseExpires(q) PROVE RowOwnerKept(r)
    BY <1>7, LeaseWrites DEF LeaseExpires
  <1>8. CASE WalletNext \/ UNCHANGED settlementVars
    BY <1>2, <1>8 DEF WalletNext, Rest, settlementVars
  <1> QED BY <1>4, <1>5, <1>6, <1>7, <1>8 DEF SettlementNext

\* The settlement of an attempt is replaced only by the attempt whose
\* settlement is there afterwards, never by a worker whose lease ran out and
\* that still has an older one in hand (NewerSettlementKept).
THEOREM NewerKept == SettlementSpec => NewerSettlementKept
  <1>1. SettlementInit => SettlementInductive
    BY SettlementInitially
  <1>2. SettlementInductive /\ [SettlementNext]_settlementVars
            => SettlementInductive'
    BY SettlementStep
  <1>3. SettlementInductive /\ [SettlementNext]_settlementVars
            => [\A r \in Requests :
                   (outbox[r] # None /\ outbox'[r] # None
                       /\ outbox'[r].of # outbox[r].of)
                     => job'[outbox'[r].of] # job[outbox'[r].of]]_settlementVars
    BY RowOwnerStep DEF RowOwnerKept
  <1> QED BY <1>1, <1>2, <1>3, PTL DEF SettlementSpec, NewerSettlementKept
==============================================================================
