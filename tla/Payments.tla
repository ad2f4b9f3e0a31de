------------------------------ MODULE Payments ------------------------------
(***************************************************************************)
(* Recharging a wallet through a payment provider: payment_registry.rs and *)
(* handlers/payment.rs of keycompute-server, service.rs of                 *)
(* keycompute-alipay, models/payment_order.rs of keycompute-db.            *)
(*                                                                         *)
(* The provider (Alipay, WeChat Pay) is external: it keeps a trade per     *)
(* order, lets the buyer pay a trade that is open, closes trades, and      *)
(* repeats a notification until it is acknowledged.  A buyer can pay only  *)
(* through the URL or the code that the gateway handed out: in the answer  *)
(* to create_order, or from the order's row, which its owner can read.     *)
(***************************************************************************)
EXTENDS Naturals

CONSTANTS
    Orders,         \* out_trade_no
    Redirect,       \* the orders paid through a signed URL (page, wap)
    Wechat,         \* the orders of WeChat Pay; the others are Alipay's
    Handlers,       \* concurrent runs of the handlers
    MaxConfigs,     \* bound: how often the configuration changes
    MaxFaults,      \* bound: how many calls fail
    None

ASSUME PaymentsAssumption ==
    /\ Redirect \subseteq Orders
    /\ Wechat \subseteq Orders \ Redirect
    /\ MaxConfigs \in Nat
    /\ MaxFaults \in Nat
    /\ None \notin Orders \cup Nat

VARIABLES
    order,      \* payment_orders.status
    credits,    \* recharges of the order in balance_transactions
    trade,      \* the provider's trade
    shown,      \* the orders whose URL or code the buyer can have
    inbox,      \* notifications the provider repeats: trade states, by order
    config,     \* the configuration that starting instances load, by method
    states,     \* payment_provider_states, by method
    ensures,    \* the configurations that ensure_config_state is about to write
    proc,       \* the handlers
    faults

payVars == <<order, credits, trade, shown, inbox, config, states, ensures,
             proc, faults>>

Trades == {"none", "waiting", "success", "closed", "payerror"}

Procs ==
    [pc : {"idle", "insert", "precreate", "fail", "persist", "compensate",
           "undo", "closeLocal", "record", "apply", "query", "closeRemote", "verified"},
     order : Orders \cup {None},
     task : {"none", "create", "verify", "notify", "sync"},
     config : 0..MaxConfigs,
     saw : Trades,
     result : {"available", "degraded", "unavailable"}]

NoProc ==
    [pc |-> "idle", order |-> None, task |-> "none", config |-> 0,
     saw |-> "none", result |-> "available"]

Method(k) == IF k \in Wechat THEN "wechatpay" ELSE "alipay"

Methods == {Method(k) : k \in Orders}

At(p, pc) == proc[p].pc = pc

Goto(p, pc) == proc' = [proc EXCEPT ![p].pc = pc]

Done(p) == proc' = [proc EXCEPT ![p] = NoProc]

Fault == faults < MaxFaults /\ faults' = faults + 1

Outside == <<config, states, ensures>>

\* A handler starts work on an order.
Start(p, k, task, pc) ==
    proc' = [proc EXCEPT ![p] =
        [NoProc EXCEPT !.pc = pc, !.order = k, !.task = task]]

\* An error of the database ends a handler.  It says nothing about the
\* provider, but Alipay's service wraps it in an error of its own.
LocalError(p) ==
    IF proc[p].order \in Wechat THEN Done(p)
    ELSE proc' = [proc EXCEPT ![p].pc = "record", ![p].result = "degraded"]

-----------------------------------------------------------------------------
(* Transactions on an order.                                               *)

\* PaymentOrder::close and mark_as_failed: only a pending order.
EndPending(k, status) ==
    order' = IF order[k] = "pending" THEN [order EXCEPT ![k] = status] ELSE order

\* Mutant: the status is not read again under the row lock.
CreditPaidMutant(k) ==
    /\ order' = [order EXCEPT ![k] = "paid"]
    /\ credits' = [credits EXCEPT ![k] = @ + 1]

\* credit_paid: under the lock of the order's row.  A second event of a paid
\* order is recorded and credits nothing; of any other order it is refused.
CreditPaid(k) ==
    IF order[k] = "pending"
    THEN /\ order' = [order EXCEPT ![k] = "paid"]
         /\ credits' = [credits EXCEPT ![k] = @ + 1]
    ELSE UNCHANGED <<order, credits>>

-----------------------------------------------------------------------------
(* create_order and verify_provider.                                       *)

\* ensure_config_state on an instance with configuration c, of which older and
\* newer ones run at once: it reads the row and finds another fingerprint.
EnsureRead(m, c) ==
    /\ c <= config[m]
    /\ states[m].fingerprint # c
    /\ ensures' = [ensures EXCEPT ![m] = @ \cup {c}]
    /\ UNCHANGED <<order, credits, trade, shown, inbox, config, states, proc, faults>>

\* It writes its own, whatever the row holds by now.  Other instances may have
\* read as it did (others).
EnsureWrite(m, c, others) ==
    /\ c \in ensures[m]
    /\ states' = [states EXCEPT ![m] =
          [fingerprint |-> c, verified |-> None, circuit |-> "available"]]
    /\ ensures' = IF others THEN ensures ELSE [ensures EXCEPT ![m] = @ \ {c}]
    /\ UNCHANGED <<order, credits, trade, shown, inbox, config, proc, faults>>

\* On an instance with configuration c.
AcceptsNewOrders(m, c) ==
    /\ states[m].fingerprint = c
    /\ states[m].verified = c
    /\ states[m].circuit # "unavailable"

\* A user's order needs an open provider.  The check is over before the
\* order is written.
BeginCreate(p, k) ==
    /\ At(p, "idle")
    /\ order[k] = "absent"
    /\ \A q \in Handlers : proc[q].order # k
    /\ \E c \in 0..config[Method(k)] : AcceptsNewOrders(Method(k), c)
    /\ Start(p, k, "create", "insert")
    /\ UNCHANGED <<order, credits, trade, shown, inbox, Outside, faults>>

\* An administrator's trial order, on an instance with configuration c, does
\* not ask; it is never a redirect.
BeginVerify(p, k, c) ==
    /\ At(p, "idle")
    /\ order[k] = "absent"
    /\ k \notin Redirect
    /\ \A q \in Handlers : proc[q].order # k
    /\ c <= config[Method(k)]
    /\ proc' = [proc EXCEPT ![p] =
          [NoProc EXCEPT !.pc = "insert", !.order = k, !.task = "verify", !.config = c]]
    /\ UNCHANGED <<order, credits, trade, shown, inbox, Outside, faults>>

\* The URL of a redirect is signed before the order is written and returned
\* after it.
Insert(p) ==
    LET k == proc[p].order IN
    /\ At(p, "insert")
    /\ order' = [order EXCEPT ![k] = "pending"]
    /\ IF k \in Redirect
       THEN shown' = shown \cup {k} /\ Done(p)
       ELSE shown' = shown /\ Goto(p, "precreate")
    /\ UNCHANGED <<credits, trade, inbox, Outside, faults>>

\* The provider opens the trade and answers with its code.
Precreate(p) ==
    /\ At(p, "precreate")
    /\ trade' = [trade EXCEPT ![proc[p].order] = "waiting"]
    /\ Goto(p, "persist")
    /\ UNCHANGED <<order, credits, shown, inbox, Outside, faults>>

\* The provider rejects the call for good or for now, or its answer is lost
\* after it opened the trade.
PrecreateFails(p, opened, result) ==
    /\ At(p, "precreate")
    /\ Fault
    /\ trade' = IF opened THEN [trade EXCEPT ![proc[p].order] = "waiting"]
                ELSE trade
    /\ proc' = [proc EXCEPT ![p].pc = "fail", ![p].result = result]
    /\ UNCHANGED <<order, credits, shown, inbox, Outside>>

FailOrder(p) ==
    /\ At(p, "fail")
    /\ EndPending(proc[p].order, "failed")
    /\ Goto(p, "record")
    /\ UNCHANGED <<credits, trade, shown, inbox, Outside, faults>>

\* The code is written to the order, a trial's too: its owner can pay from now
\* on.
PersistCode(p) ==
    /\ At(p, "persist")
    /\ shown' = shown \cup {proc[p].order}
    /\ Goto(p, IF proc[p].task = "create" THEN "record" ELSE "closeRemote")
    /\ UNCHANGED <<order, credits, trade, inbox, Outside, faults>>

\* An error of the database, which may have written the code (stored) and lost
\* the answer.
PersistCodeFails(p, stored) ==
    /\ At(p, "persist")
    /\ Fault
    /\ shown' = IF stored THEN shown \cup {proc[p].order} ELSE shown
    /\ Goto(p, "compensate")
    /\ UNCHANGED <<order, credits, trade, inbox, Outside>>

\* The provider refuses to close what the buyer paid.  Alipay's service does
\* not ask it to close a trial that is not pending here.
CloseRefused(p) ==
    LET k == proc[p].order IN
    \/ trade[k] \notin {"waiting", "closed"}
    \/ At(p, "closeRemote") /\ k \notin Wechat /\ order[k] # "pending"

\* close_order at the provider.
CloseRemote(p) ==
    /\ At(p, "compensate") \/ At(p, "closeRemote")
    /\ ~CloseRefused(p)
    /\ trade' = [trade EXCEPT ![proc[p].order] = "closed"]
    /\ Goto(p, IF At(p, "compensate") THEN "undo" ELSE "closeLocal")
    /\ UNCHANGED <<order, credits, shown, inbox, Outside, faults>>

\* Mutant: a compensation that the provider refused goes on.
CloseRemoteFailsMutant(p, closed) ==
    /\ At(p, "compensate") \/ At(p, "closeRemote")
    /\ IF CloseRefused(p) THEN trade' = trade /\ faults' = faults
       ELSE /\ Fault
            /\ trade' = IF closed THEN [trade EXCEPT ![proc[p].order] = "closed"]
                        ELSE trade
    /\ IF At(p, "compensate") THEN Goto(p, "undo")
       ELSE proc' = [proc EXCEPT ![p].pc = "record", ![p].result = "degraded"]
    /\ UNCHANGED <<order, credits, shown, inbox, Outside>>

\* It is refused, or the call fails, perhaps after the trade was closed.
CloseRemoteFails(p, closed) ==
    /\ At(p, "compensate") \/ At(p, "closeRemote")
    /\ IF CloseRefused(p) THEN trade' = trade /\ faults' = faults
       ELSE /\ Fault
            /\ trade' = IF closed THEN [trade EXCEPT ![proc[p].order] = "closed"]
                        ELSE trade
    /\ IF At(p, "compensate") THEN LocalError(p)
       ELSE proc' = [proc EXCEPT ![p].pc = "record", ![p].result = "degraded"]
    /\ UNCHANGED <<order, credits, shown, inbox, Outside>>

\* A trial is over when the local close found the order pending; a
\* compensation ends in the error that caused it.
CloseLocal(p) ==
    LET k == proc[p].order IN
    /\ At(p, "undo") \/ At(p, "closeLocal")
    /\ EndPending(k, "closed")
    /\ IF At(p, "closeLocal") /\ order[k] = "pending"
       THEN Goto(p, "verified") ELSE LocalError(p)
    /\ UNCHANGED <<credits, trade, shown, inbox, Outside, faults>>

\* The local close or mark_as_failed fails: the order stays pending.
EndFails(p) ==
    /\ At(p, "undo") \/ At(p, "closeLocal") \/ At(p, "fail")
    /\ Fault
    /\ IF At(p, "fail") THEN Goto(p, "record") ELSE LocalError(p)
    /\ UNCHANGED <<order, credits, trade, shown, inbox, Outside>>

\* The row becomes that of the instance that ran the trial.
MarkVerified(p) ==
    LET c == proc[p].config IN
    /\ At(p, "verified")
    /\ states' = [states EXCEPT ![Method(proc[p].order)] =
          [fingerprint |-> c, verified |-> c, circuit |-> "available"]]
    /\ Goto(p, "record")
    /\ UNCHANGED <<order, credits, trade, shown, inbox, config, ensures, faults>>

\* Mutant: the last result is the state.
RecordResultMutant(p) ==
    /\ At(p, "record")
    /\ states' = [states EXCEPT ![Method(proc[p].order)].circuit = proc[p].result]
    /\ Done(p)
    /\ UNCHANGED <<order, credits, trade, shown, inbox, config, ensures, faults>>

\* record_provider_result: a routine result does not reopen the provider.
RecordResult(p) ==
    /\ At(p, "record")
    /\ states' = [states EXCEPT ![Method(proc[p].order)].circuit =
          IF @ # "unavailable" THEN proc[p].result ELSE @]
    /\ Done(p)
    /\ UNCHANGED <<order, credits, trade, shown, inbox, config, ensures, faults>>

\* New instances start with another configuration; the handlers of the old
\* ones are not over.
ConfigChanges(m) ==
    /\ config[m] < MaxConfigs
    /\ config' = [config EXCEPT ![m] = @ + 1]
    /\ UNCHANGED <<order, credits, trade, shown, inbox, states, ensures, proc, faults>>

-----------------------------------------------------------------------------
(* Notifications and queries.                                              *)

\* alipay_notify or wechatpay_notify reads the order.  It stays in the inbox
\* until it is acknowledged: duplicates and any order are possible.
NotifyBegin(p, k, state) ==
    /\ At(p, "idle")
    /\ state \in inbox[k]
    /\ order[k] # "absent"
    /\ IF k \in Wechat /\ state # "success"
       THEN inbox' = [inbox EXCEPT ![k] = @ \ {state}] /\ proc' = proc
       ELSE IF order[k] = "pending" \/ (order[k] = "paid" /\ state = "success")
       THEN /\ proc' = [proc EXCEPT ![p] =
                  [NoProc EXCEPT !.pc = "apply", !.order = k, !.task = "notify",
                                 !.saw = state]]
            /\ inbox' = inbox
       ELSE \* validate_terminal_notification
            /\ order[k] = "closed" /\ state = "closed"
            /\ inbox' = [inbox EXCEPT ![k] = @ \ {state}]
            /\ proc' = proc
    /\ UNCHANGED <<order, credits, trade, shown, Outside, faults>>

\* sync_order reads the order and asks the provider.
SyncBegin(p, k) ==
    /\ At(p, "idle")
    /\ order[k] = "pending"
    /\ Start(p, k, "sync", "query")
    /\ UNCHANGED <<order, credits, trade, shown, inbox, Outside, faults>>

\* A redirect the buyer has not opened is unknown to the provider, and that
\* is an error of the call.
Query(p) ==
    LET state == trade[proc[p].order] IN
    /\ At(p, "query")
    /\ IF state = "none"
       THEN proc' = [proc EXCEPT ![p].pc = "record", ![p].result = "degraded"]
       ELSE proc' = [proc EXCEPT ![p].pc = "apply", ![p].saw = state]
    /\ UNCHANGED <<order, credits, trade, shown, inbox, Outside, faults>>

QueryFails(p, result) ==
    /\ At(p, "query")
    /\ Fault
    /\ proc' = [proc EXCEPT ![p].pc = "record", ![p].result = result]
    /\ UNCHANGED <<order, credits, trade, shown, inbox, Outside>>

\* Mutant: a trade that waits too long for the gateway is given up.
AppliedMutant(k, state) ==
    CASE state = "success" -> CreditPaid(k)
      [] state = "payerror" -> EndPending(k, "failed") /\ credits' = credits
      [] OTHER -> EndPending(k, "closed") /\ credits' = credits

\* What was seen, applied to the order as it is now.
Applied(k, state) ==
    CASE state = "success" -> CreditPaid(k)
      [] state = "closed" -> EndPending(k, "closed") /\ credits' = credits
      [] state = "payerror" -> EndPending(k, "failed") /\ credits' = credits
      [] OTHER -> UNCHANGED <<order, credits>>

\* close, mark_as_failed and credit_paid fail on an order that has ended
\* otherwise since it was read.
Refused(k, state) ==
    /\ state # "waiting"
    /\ order[k] # "pending"
    /\ ~(order[k] = "paid" /\ state = "success")

\* A notification is acknowledged when it was applied.
Apply(p) ==
    LET k == proc[p].order
        state == proc[p].saw
    IN  /\ At(p, "apply")
        /\ Applied(k, state)
        /\ IF proc[p].task = "notify"
           THEN /\ inbox' = IF Refused(k, state) THEN inbox
                            ELSE [inbox EXCEPT ![k] = @ \ {state}]
                /\ Done(p)
           ELSE /\ inbox' = inbox
                /\ CASE ~Refused(k, state) -> Goto(p, "record")
                     [] state = "success" ->
                          proc' = [proc EXCEPT ![p].pc = "record",
                                               ![p].result = "degraded"]
                     [] OTHER -> LocalError(p)
        /\ UNCHANGED <<trade, shown, Outside, faults>>

\* Mutant: a notification that could not be applied is acknowledged.
ApplyFailsMutant(p) ==
    /\ At(p, "apply")
    /\ Fault
    /\ Done(p)
    /\ inbox' = [inbox EXCEPT ![proc[p].order] = @ \ {proc[p].saw}]
    /\ UNCHANGED <<order, credits, trade, shown, Outside>>

\* The database fails or the process dies: nothing is acknowledged.
ApplyFails(p) ==
    /\ At(p, "apply")
    /\ Fault
    /\ Done(p)
    /\ UNCHANGED <<order, credits, trade, shown, inbox, Outside>>

-----------------------------------------------------------------------------
(* The provider and the buyer.                                             *)

Pay(k) ==
    /\ k \in shown
    /\ trade[k] = "waiting" \/ (k \in Redirect /\ trade[k] = "none")
    /\ trade' = [trade EXCEPT ![k] = "success"]
    /\ inbox' = [inbox EXCEPT ![k] = @ \cup {"success"}]
    /\ UNCHANGED <<order, credits, shown, Outside, proc, faults>>

\* The trade times out, or a WeChat payment fails for good.
TradeEnds(k, state) ==
    /\ trade[k] = "waiting"
    /\ state = "payerror" => k \in Wechat
    /\ trade' = [trade EXCEPT ![k] = state]
    /\ inbox' = [inbox EXCEPT ![k] = @ \cup {state}]
    /\ UNCHANGED <<order, credits, shown, Outside, proc, faults>>

-----------------------------------------------------------------------------
PaymentsInit ==
    /\ order = [k \in Orders |-> "absent"]
    /\ credits = [k \in Orders |-> 0]
    /\ trade = [k \in Orders |-> "none"]
    /\ shown = {}
    /\ inbox = [k \in Orders |-> {}]
    /\ config = [m \in Methods |-> 0]
    /\ \E v \in [Methods -> {0, None}] :
          states = [m \in Methods |->
              [fingerprint |-> 0, verified |-> v[m], circuit |-> "available"]]
    /\ ensures = [m \in Methods |-> {}]
    /\ proc = [p \in Handlers |-> NoProc]
    /\ faults = 0

HandlerNext(p) ==
    \/ \E k \in Orders : BeginCreate(p, k) \/ SyncBegin(p, k)
    \/ \E k \in Orders, c \in 0..MaxConfigs : BeginVerify(p, k, c)
    \/ \E k \in Orders, state \in Trades : NotifyBegin(p, k, state)
    \/ Insert(p)
    \/ Precreate(p)
    \/ \E opened \in BOOLEAN, result \in {"degraded", "unavailable"} :
          PrecreateFails(p, opened, result)
    \/ FailOrder(p)
    \/ PersistCode(p)
    \/ \E stored \in BOOLEAN : PersistCodeFails(p, stored)
    \/ CloseRemote(p)
    \/ \E closed \in BOOLEAN : CloseRemoteFails(p, closed)
    \/ CloseLocal(p)
    \/ EndFails(p)
    \/ MarkVerified(p)
    \/ RecordResult(p)
    \/ Query(p)
    \/ \E result \in {"degraded", "unavailable"} : QueryFails(p, result)
    \/ Apply(p)
    \/ ApplyFails(p)

PaymentsNext ==
    \/ \E p \in Handlers : HandlerNext(p)
    \/ \E k \in Orders : Pay(k)
    \/ \E k \in Orders, state \in {"closed", "payerror"} : TradeEnds(k, state)
    \/ \E m \in Methods : ConfigChanges(m)
    \/ \E m \in Methods, c \in 0..MaxConfigs : EnsureRead(m, c)
    \/ \E m \in Methods, c \in 0..MaxConfigs, others \in BOOLEAN :
          EnsureWrite(m, c, others)

PaymentsSpec == PaymentsInit /\ [][PaymentsNext]_payVars

-----------------------------------------------------------------------------
(* What makes payments correct.                                            *)

PaymentsTypeOK ==
    /\ order \in [Orders -> {"absent", "pending", "paid", "failed", "closed"}]
    /\ credits \in [Orders -> Nat]
    /\ trade \in [Orders -> Trades]
    /\ shown \subseteq Orders
    /\ inbox \in [Orders -> SUBSET Trades]
    /\ config \in [Methods -> 0..MaxConfigs]
    /\ states \in [Methods ->
          [fingerprint : 0..MaxConfigs, verified : 0..MaxConfigs \cup {None},
           circuit : {"available", "degraded", "unavailable"}]]
    /\ ensures \in [Methods -> SUBSET (0..MaxConfigs)]
    /\ proc \in [Handlers -> Procs]

\* The wallet is credited once for an order the buyer paid, and for no other,
\* although a notification is repeated and races with queries.
CreditedOncePaid ==
    \A k \in Orders :
        /\ credits[k] = IF order[k] = "paid" THEN 1 ELSE 0
        /\ order[k] = "paid" => trade[k] = "success"

\* An order the buyer paid is never given up: it is not closed or failed by a
\* compensation, a trial, a stale query or a late notification.
PaidNotAbandoned ==
    \A k \in Orders :
        trade[k] = "success" => order[k] \in {"pending", "paid"}

\* Orders, trades and credits agree in every order of notifications, queries,
\* compensations and failures.
PaymentsInvariant ==
    /\ PaymentsTypeOK
    /\ CreditedOncePaid
    /\ PaidNotAbandoned

\* A step that reopens a provider which had rejected the credentials.
Reopened(m) ==
    states[m].circuit = "unavailable" /\ states'[m].circuit # "unavailable"

\* The step is the end of a completed trial.
TrialCompleted == \E p \in Handlers : At(p, "verified") /\ proc'[p].pc = "record"

\* An older result that arrives late does not reopen a provider that rejected
\* the credentials: only a completed trial does, or an instance that had found
\* another configuration than its own, and then nobody has verified it.
UnavailableStays ==
    [][\A m \in Methods : Reopened(m) =>
          \/ TrialCompleted
          \/ states'[m].fingerprint \in ensures[m] /\ states'[m].verified = None]_payVars

\* The comment on RECORD_PROVIDER_RESULT_SQL: "only mark_verified or a config
\* fingerprint change is allowed to do that".
ReopenedByTrialOrChange ==
    [][\A m \in Methods : Reopened(m) =>
          TrialCompleted \/ states'[m].fingerprint # states[m].fingerprint]_payVars

\* Handlers end and the provider repeats its notifications (strong fairness:
\* a delivery needs an idle handler and may fail).
PaymentsFairness ==
    /\ \A p \in Handlers : WF_payVars(HandlerNext(p) /\ ~At(p, "idle"))
    /\ \A k \in Orders :
          SF_payVars(\E p \in Handlers : NotifyBegin(p, k, "success"))

PaymentsFairSpec == PaymentsSpec /\ PaymentsFairness

\* What the buyer paid is credited in the end.
PaidGetsCredited ==
    []<>(\A k \in Orders : trade[k] = "success" => credits[k] = 1)
=============================================================================
