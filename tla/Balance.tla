------------------------------ MODULE Balance ------------------------------
(***************************************************************************)
(* One wallet: the row of user_balances, its balance_reservations, the     *)
(* usage_logs of its requests, the balance_transactions they cause and the *)
(* admin_balance_operations applied to it (models/user_balance.rs,         *)
(* user_balance_admin.rs and user_balance_reservation_admin.rs of          *)
(* keycompute-db).                                                         *)
(*                                                                         *)
(* Every writer locks the wallet's row first and holds it to the commit,   *)
(* so a transaction is one action.  A transaction that returns an error is *)
(* rolled back and is no step.  Requests and keys are numbers only so that *)
(* sums over them can be written; a request is a billing_request_id, and   *)
(* its usage log is unique, so the request also names the log.             *)
(*                                                                         *)
(* Time is not a number: due says whether expires_at has passed.           *)
(***************************************************************************)
EXTENDS Sums

CONSTANTS
    NumRequests,    \* the billing requests of the wallet are 1..NumRequests
    NumKeys,        \* the administrators' idempotency keys are 1..NumKeys
    Owners,         \* the UUIDs drawn for owner_token
    Amounts,        \* the amounts of money that occur
    MinAvailable,   \* min_balance_threshold
    MaxCredit,      \* bound: what may be credited in all
    None            \* SQL NULL

VARIABLES
    wallet,     \* the user_balances row
    resv,       \* balance_reservations, by request_id
    issued,     \* the owner tokens drawn so far
    usage,      \* usage_logs.user_amount, by request
    spent,      \* the consume transaction of a usage log: its amount
    credited,   \* the sum of the recharges of payment orders and tips
    ops         \* the completed admin_balance_operations, by key

balanceVars == <<wallet, resv, issued, usage, spent, credited, ops>>

Requests == 1..NumRequests

Keys == 1..NumKeys

-----------------------------------------------------------------------------
(* Rows and sums.                                                          *)

Wallets == [available : Int, frozen : Nat, recharged : Nat, consumed : Nat]

Reservations ==
    [status : {"absent", "active", "settled", "released", "expired"},
     owner : Owners \cup {None}, amount : Amounts, due : BOOLEAN,
     administrative : BOOLEAN]

OpKinds == {"recharge", "consume", "freeze", "unfreeze"}

Operations == [kind : OpKinds, amount : Amounts]

ASSUME BalanceAssumption ==
    /\ NumRequests \in Nat
    /\ NumKeys \in Nat
    /\ Amounts \subseteq Nat
    /\ {0, MinAvailable} \subseteq Amounts
    /\ MaxCredit \in Nat
    /\ None \notin Amounts \cup Owners \cup Operations

NoReservation ==
    [status |-> "absent", owner |-> None, amount |-> 0, due |-> FALSE,
     administrative |-> FALSE]

Active(v) == {r \in Requests : v[r].status = "active"}

Reserved(v, R) ==
    Sum([r \in Requests |-> IF r \in R THEN v[r].amount ELSE 0], NumRequests)

ActiveReserved(v) == Reserved(v, Active(v))

Applied(kind) ==
    Sum([k \in Keys |-> IF ops[k] # None /\ ops[k].kind = kind
                        THEN ops[k].amount ELSE 0], NumKeys)

Charged ==
    Sum([r \in Requests |-> IF spent[r] = None THEN 0 ELSE spent[r]],
        NumRequests)

\* Money that moves between the two columns of the row.
Freeze(w, a) == [w EXCEPT !.available = @ - a, !.frozen = @ + a]

Thaw(w, a) == [w EXCEPT !.available = @ + a, !.frozen = @ - a]

Debit(w, a) == [w EXCEPT !.available = @ - a, !.consumed = @ + a]

Recharge(w, a) == [w EXCEPT !.available = @ + a, !.recharged = @ + a]

AdministrativelyReleased(row) ==
    row.status = "released" /\ row.administrative

-----------------------------------------------------------------------------
(* reclaim_expired_for_locked_balances: most transactions on the wallet    *)
(* begin with it, and stop if the active rows exceed the frozen money.     *)

\* Mutant: a reservation whose request has usage is left to its settlement.
LapsedMutant == {r \in Active(resv) : resv[r].due /\ usage[r] = None}

Lapsed == {r \in Active(resv) : resv[r].due}

Covered == wallet.frozen >= ActiveReserved(resv)

\* Mutant: the money of an expired reservation returns but it stays active.
ReclaimedResvMutant == resv

ReclaimedResv ==
    [r \in Requests |-> IF r \in Lapsed
                        THEN [resv[r] EXCEPT !.status = "expired"]
                        ELSE resv[r]]

ReclaimedWallet == Thaw(wallet, Reserved(resv, Lapsed))

\* The sweeper takes the wallets whose frozen money covers the active
\* reservations of their user in all of his tenants: elsewhere is what he has
\* reserved in the others.  A balance query reclaims in its own wallet only,
\* as if that were nothing.
ReclaimExpired(elsewhere) ==
    /\ Lapsed # {}
    /\ ActiveReserved(resv) + elsewhere <= wallet.frozen
    /\ wallet' = ReclaimedWallet
    /\ resv' = ReclaimedResv
    /\ UNCHANGED <<issued, usage, spent, credited, ops>>

-----------------------------------------------------------------------------
(* The life of a request's reservation.                                    *)

\* amount_to_reserve: at least the minimum balance is set aside.
AmountToReserve(requested) ==
    IF requested > MinAvailable THEN requested ELSE MinAvailable

\* What the request holds already and may resize.
Replaced(v, r) == IF v[r].status = "active" THEN v[r].amount ELSE 0

\* Mutant: a row that ended may be taken again whatever ended it.
ReusableMutant(row) == row.status # "active"

Reusable(row) == row.status # "settled" /\ ~AdministrativelyReleased(row)

Reservable(r, requested) ==
    LET v == ReclaimedResv IN
    /\ Covered
    /\ Reusable(v[r])
    /\ ReclaimedWallet.available + Replaced(v, r) >= AmountToReserve(requested)

\* Mutant: a second attempt freezes its whole amount on top of the first's.
ReserveMutant(r, o, requested) ==
    LET v == ReclaimedResv
        amount == AmountToReserve(requested)
    IN  /\ o \notin issued
        /\ Reservable(r, requested)
        /\ wallet' = Freeze(ReclaimedWallet, amount)
        /\ resv' = [v EXCEPT ![r] =
                      [status |-> "active", owner |-> o, amount |-> amount,
                       due |-> FALSE, administrative |-> FALSE]]
        /\ issued' = issued \cup {o}
        /\ UNCHANGED <<usage, spent, credited, ops>>

Reserve(r, o, requested) ==
    LET v == ReclaimedResv
        amount == AmountToReserve(requested)
    IN  /\ o \notin issued
        /\ Reservable(r, requested)
        /\ wallet' = Freeze(ReclaimedWallet, amount - Replaced(v, r))
        /\ resv' = [v EXCEPT ![r] =
                      [status |-> "active", owner |-> o, amount |-> amount,
                       due |-> FALSE, administrative |-> FALSE]]
        /\ issued' = issued \cup {o}
        /\ UNCHANGED <<usage, spent, credited, ops>>

\* Mutant: a release does not ask who holds the reservation now.
HeldByMutant(r, o) == resv[r].status = "active"

\* The caller's token is the row's, and the row still holds money.
HeldBy(r, o) == resv[r].status = "active" /\ resv[r].owner = o

Release(r, o) ==
    /\ HeldBy(r, o)
    /\ wallet.frozen >= resv[r].amount
    /\ wallet' = Thaw(wallet, resv[r].amount)
    /\ resv' = [resv EXCEPT ![r].status = "released"]
    /\ UNCHANGED <<issued, usage, spent, credited, ops>>

\* A tenant's administrator may release only what has expired; the platform's
\* may force it.  o is the token the administrator saw.
AdminRelease(r, o, forced) ==
    /\ HeldBy(r, o)
    /\ forced \/ resv[r].due
    /\ wallet.frozen >= resv[r].amount
    /\ wallet' = Thaw(wallet, resv[r].amount)
    /\ resv' = [resv EXCEPT ![r].status = "released",
                            ![r].administrative = TRUE]
    /\ UNCHANGED <<issued, usage, spent, credited, ops>>

-----------------------------------------------------------------------------
(* Charging a usage log.  The amount always comes from the saved row.      *)

\* Mutant: a second save of the log overwrites the first.
SaveUsageMutant(r, amount) ==
    /\ usage' = [usage EXCEPT ![r] = amount]
    /\ UNCHANGED <<wallet, resv, issued, spent, credited, ops>>

\* UsageLog::create_with_idempotency: the first row wins.
SaveUsage(r, amount) ==
    /\ usage[r] = None
    /\ usage' = [usage EXCEPT ![r] = amount]
    /\ UNCHANGED <<wallet, resv, issued, spent, credited, ops>>

\* settle returns None, and its caller goes on to consume.
SettleDefers(r, o) ==
    \/ resv[r].status \in {"absent", "released", "expired"}
    \/ resv[r].status = "active" /\ resv[r].owner # o

\* settle finds its own earlier result.
SettleReplays(r) == resv[r].status = "settled" /\ spent[r] # None

\* Mutant: settle does not look for the charge a stale owner recorded.
SettleMutant(r, o) ==
    /\ usage[r] # None
    /\ HeldBy(r, o)
    /\ wallet.frozen >= resv[r].amount
    /\ wallet' = Debit(Thaw(wallet, resv[r].amount), usage[r])
    /\ spent' = [spent EXCEPT ![r] = usage[r]]
    /\ resv' = [resv EXCEPT ![r].status = "settled"]
    /\ UNCHANGED <<issued, usage, credited, ops>>

\* An expired reservation that nobody reclaimed yet still settles.
Settle(r, o) ==
    /\ usage[r] # None
    /\ HeldBy(r, o)
    /\ wallet.frozen >= resv[r].amount
    /\ IF spent[r] # None
       THEN /\ wallet' = Thaw(wallet, resv[r].amount)
            /\ spent' = spent
       ELSE /\ wallet' = Debit(Thaw(wallet, resv[r].amount), usage[r])
            /\ spent' = [spent EXCEPT ![r] = usage[r]]
    /\ resv' = [resv EXCEPT ![r].status = "settled"]
    /\ UNCHANGED <<issued, usage, credited, ops>>

\* consume for a usage log: it may leave a debt, and it charges once.
Consume(r) ==
    /\ usage[r] # None
    /\ Covered
    /\ resv' = ReclaimedResv
    /\ IF spent[r] # None
       THEN /\ wallet' = ReclaimedWallet
            /\ spent' = spent
       ELSE /\ wallet' = Debit(ReclaimedWallet, usage[r])
            /\ spent' = [spent EXCEPT ![r] = usage[r]]
    /\ UNCHANGED <<issued, usage, credited, ops>>

-----------------------------------------------------------------------------
(* Credits and the administrators' manual operations.                      *)

\* recharge_in_tx for a paid order, or credit_tips.  Neither reclaims.
Credit(amount) ==
    /\ wallet.recharged + amount <= MaxCredit
    /\ wallet' = Recharge(wallet, amount)
    /\ credited' = credited + amount
    /\ UNCHANGED <<resv, issued, usage, spent, ops>>

\* What recharge_in_tx, consume_in_tx, freeze_in_tx and unfreeze_in_tx do
\* when they succeed.
ManualRecharge(amount) ==
    /\ wallet.recharged + amount <= MaxCredit
    /\ wallet' = Recharge(wallet, amount)
    /\ resv' = resv

ManualConsume(amount) ==
    /\ Covered
    /\ ReclaimedWallet.available >= amount
    /\ wallet' = Debit(ReclaimedWallet, amount)
    /\ resv' = ReclaimedResv

ManualFreeze(amount) ==
    /\ Covered
    /\ ReclaimedWallet.available >= amount
    /\ wallet' = Freeze(ReclaimedWallet, amount)
    /\ resv' = ReclaimedResv

\* Mutant: an administrator may unfreeze what requests have reserved.
ManuallyFrozenMutant == ReclaimedWallet.frozen

\* Money frozen by hand: the rest of frozen_balance belongs to requests.
ManuallyFrozen == ReclaimedWallet.frozen - ActiveReserved(ReclaimedResv)

ManualUnfreeze(amount) ==
    /\ Covered
    /\ ManuallyFrozen >= amount
    /\ wallet' = Thaw(ReclaimedWallet, amount)
    /\ resv' = ReclaimedResv

\* Mutant: a completed claim is not recognised and its operation runs again.
ManualOperationMutant(k, kind, amount) ==
    /\ amount > 0
    /\ \/ kind = "recharge" /\ ManualRecharge(amount)
       \/ kind = "consume" /\ ManualConsume(amount)
       \/ kind = "freeze" /\ ManualFreeze(amount)
       \/ kind = "unfreeze" /\ ManualUnfreeze(amount)
    /\ ops' = [ops EXCEPT ![k] = [kind |-> kind, amount |-> amount]]
    /\ UNCHANGED <<issued, usage, spent, credited>>

\* apply_admin_manual_operation under a fresh key.  A key whose claim is
\* completed answers with its outcome or a conflict and changes nothing.
ManualOperation(k, kind, amount) ==
    /\ amount > 0
    /\ ops[k] = None
    /\ \/ kind = "recharge" /\ ManualRecharge(amount)
       \/ kind = "consume" /\ ManualConsume(amount)
       \/ kind = "freeze" /\ ManualFreeze(amount)
       \/ kind = "unfreeze" /\ ManualUnfreeze(amount)
    /\ ops' = [ops EXCEPT ![k] = [kind |-> kind, amount |-> amount]]
    /\ UNCHANGED <<issued, usage, spent, credited>>

\* An unfreeze that is refused keeps the reclaim and deletes its claim.
UnfreezeDenied(k, amount) ==
    /\ ops[k] = None
    /\ Lapsed # {}
    /\ Covered
    /\ ManuallyFrozen < amount
    /\ wallet' = ReclaimedWallet
    /\ resv' = ReclaimedResv
    /\ UNCHANGED <<issued, usage, spent, credited, ops>>

\* expires_at of an active reservation passes.
Lapse(r) ==
    /\ r \in Active(resv)
    /\ ~resv[r].due
    /\ resv' = [resv EXCEPT ![r].due = TRUE]
    /\ UNCHANGED <<wallet, issued, usage, spent, credited, ops>>

-----------------------------------------------------------------------------
BalanceInit ==
    /\ wallet = [available |-> 0, frozen |-> 0, recharged |-> 0, consumed |-> 0]
    /\ resv = [r \in Requests |-> NoReservation]
    /\ issued = {}
    /\ usage = [r \in Requests |-> None]
    /\ spent = [r \in Requests |-> None]
    /\ credited = 0
    /\ ops = [k \in Keys |-> None]

\* The transactions on the wallet that neither a request nor the sweeper makes.
OfficeNext ==
    \/ \E amount \in Amounts \ {0} : Credit(amount)
    \/ \E k \in Keys, kind \in OpKinds, amount \in Amounts :
          ManualOperation(k, kind, amount)
    \/ \E k \in Keys, amount \in Amounts : UnfreezeDenied(k, amount)
    \/ \E r \in Requests : Lapse(r)
    \/ \E r \in Requests, o \in Owners, forced \in BOOLEAN :
          AdminRelease(r, o, forced)

HouseNext ==
    \/ \E elsewhere \in Amounts : ReclaimExpired(elsewhere)
    \/ OfficeNext

\* The transactions of requests, in any order and with any token.
RequestNext ==
    \/ \E r \in Requests, o \in Owners, requested \in Amounts :
          Reserve(r, o, requested)
    \/ \E r \in Requests, o \in Owners : Release(r, o) \/ Settle(r, o)
    \/ \E r \in Requests, amount \in Amounts : SaveUsage(r, amount)
    \/ \E r \in Requests : Consume(r)

BalanceNext == HouseNext \/ RequestNext

BalanceSpec == BalanceInit /\ [][BalanceNext]_balanceVars

-----------------------------------------------------------------------------
(* What makes the wallet correct.                                          *)

BalanceTypeOK ==
    /\ wallet \in Wallets
    /\ resv \in [Requests -> Reservations]
    /\ issued \subseteq Owners
    /\ usage \in [Requests -> Amounts \cup {None}]
    /\ spent \in [Requests -> Amounts \cup {None}]
    /\ credited \in Nat
    /\ ops \in [Keys -> Operations \cup {None}]

\* The row agrees with the transactions behind it: every credit, charge and
\* manual operation is in it exactly once, however often reservations were
\* resized, released, reclaimed or settled in between.
LedgerReconciles ==
    /\ wallet.available + wallet.frozen = wallet.recharged - wallet.consumed
    /\ wallet.recharged = credited + Applied("recharge")
    /\ wallet.consumed = Applied("consume") + Charged

\* frozen_balance is what administrators froze plus what the active
\* reservations hold.  reclaim, release and settle refuse to run when it is
\* not (Covered), so a drift would block the wallet for ever.
FrozenExplained ==
    /\ wallet.frozen = Applied("freeze") - Applied("unfreeze")
                         + ActiveReserved(resv)
    /\ Applied("freeze") >= Applied("unfreeze")

\* A reservation that says settled stands for a charge of its usage log, of
\* the amount the log says, also when another attempt made the charge.
SettledMeansCharged ==
    \A r \in Requests :
        /\ spent[r] # None => spent[r] = usage[r]
        /\ resv[r].status = "settled" => spent[r] # None

\* The wallet's row is what its transactions, its reservations and its freezes
\* add up to, through retries, reclaims, settlements and administrators.
WalletInvariant ==
    /\ BalanceTypeOK
    /\ LedgerReconciles
    /\ FrozenExplained
    /\ SettledMeansCharged

\* What a request was charged stays, and a reservation that was settled or
\* that an administrator released is never taken again: a late attempt of
\* the request cannot revive it.
EndedForGood ==
    [][\A r \in Requests :
          /\ spent[r] # None => spent'[r] = spent[r]
          /\ (resv[r].status = "settled" \/ AdministrativelyReleased(resv[r]))
                => resv'[r] = resv[r]]_balanceVars

\* The rows implement the contract of a wallet: frozen and available money
\* together are the money, the active rows are the holds.
Contract ==
    INSTANCE WalletContract WITH
        money <- wallet.available + wallet.frozen,
        held <- [r \in Requests |-> Replaced(resv, r)],
        pinned <- wallet.frozen - ActiveReserved(resv),
        charged <- spent

WalletHonoursContract == Contract!Spec
=============================================================================
