--------------------------- MODULE PaymentsProofs ---------------------------
(***************************************************************************)
(* Theorems about Payments, for any number of orders, handlers,            *)
(* configurations and failures.                                            *)
(***************************************************************************)
EXTENDS Payments, TLAPS

-----------------------------------------------------------------------------
(* The inductive invariant: what handlers may rely on at each step.        *)

\* Handlers that create the order they work on.
Creating(p) == proc[p].task \in {"create", "verify"}

\* The handler has not shown the order yet and may still do so.
Opening(p) == proc[p].pc \in {"insert", "precreate", "persist"}

\* A handler that works has an order, and nobody else creates it.
CreatedOnce ==
    /\ \A p \in Handlers : At(p, "idle") => proc[p] = NoProc
    /\ \A p \in Handlers : ~At(p, "idle") => proc[p].order \in Orders
    /\ \A p, q \in Handlers :
          Creating(p) /\ Creating(q) /\ proc[p].order = proc[q].order => p = q

\* An order that was not written has no trade, and only the handler that is
\* about to write it knows of it.
AbsentUntouched ==
    \A k \in Orders : order[k] = "absent" =>
        /\ trade[k] = "none" /\ k \notin shown /\ inbox[k] = {}
        /\ \A p \in Handlers : proc[p].order = k => At(p, "insert")

\* What the steps of create_order and verify_provider rely on: until the code
\* is stored nobody can pay, and the local close follows the provider's.
StagesHold ==
    \A p \in Handlers : LET k == proc[p].order IN
        /\ At(p, "insert") => Creating(p) /\ order[k] = "absent"
        /\ At(p, "precreate") => trade[k] = "none"
        /\ proc[p].pc \in {"precreate", "persist", "fail", "compensate", "closeRemote"} =>
              Creating(p) /\ k \notin Redirect
        /\ proc[p].pc \in {"precreate", "persist", "fail"} => k \notin shown
        /\ At(p, "undo") \/ At(p, "closeLocal") => trade[k] = "closed"

\* A trade state that a notification or a query reports is the trade's last.
ReportsTrue ==
    /\ \A k \in Orders : \A s \in inbox[k] :
          s \in {"success", "closed", "payerror"} /\ trade[k] = s
    /\ \A p \in Handlers :
          At(p, "apply") /\ proc[p].saw \in {"success", "closed", "payerror"}
              => trade[proc[p].order] = proc[p].saw

\* A buyer who paid had been shown the order; an order that was given up
\* cannot be paid any more.
GivenUpUnpayable ==
    \A k \in Orders :
        /\ trade[k] = "success" => k \in shown
        /\ order[k] \in {"failed", "closed"} =>
              \/ trade[k] \in {"closed", "payerror"}
              \/ /\ k \notin shown /\ k \notin Redirect
                 /\ \A p \in Handlers : proc[p].order = k => ~Opening(p)

\* Together: the inductive invariant.
PaymentsInductive ==
    /\ PaymentsInvariant
    /\ CreatedOnce
    /\ AbsentUntouched
    /\ StagesHold
    /\ ReportsTrue
    /\ GivenUpUnpayable

-----------------------------------------------------------------------------
(* What a step leaves alone.                                               *)

\* Only handler p moves.
OnlyHandler(p) == \A q \in Handlers : q # p => proc'[q] = proc[q]

\* Nothing of order k changes.
OrderKept(k) ==
    /\ order'[k] = order[k] /\ trade'[k] = trade[k] /\ inbox'[k] = inbox[k]
    /\ credits'[k] = credits[k] /\ (k \in shown' <=> k \in shown)

\* A step that touches one order.
OnlyOrder(k) == \A j \in Orders : j # k => OrderKept(j)

\* The parts of the invariant about one order, one handler, two handlers.
OrderOK(k) ==
    /\ credits[k] = IF order[k] = "paid" THEN 1 ELSE 0
    /\ order[k] = "paid" => trade[k] = "success"
    /\ trade[k] = "success" => order[k] \in {"pending", "paid"} /\ k \in shown
    /\ order[k] = "absent" =>
        /\ trade[k] = "none" /\ k \notin shown /\ inbox[k] = {}
        /\ \A p \in Handlers : proc[p].order = k => At(p, "insert")
    /\ \A s \in inbox[k] : s \in {"success", "closed", "payerror"} /\ trade[k] = s
    /\ order[k] \in {"failed", "closed"} =>
         \/ trade[k] \in {"closed", "payerror"}
         \/ /\ k \notin shown /\ k \notin Redirect
            /\ \A p \in Handlers : proc[p].order = k => ~Opening(p)

\* The parts of the invariant that speak of one handler.
HandlerOK(p) ==
    LET k == proc[p].order IN
    /\ At(p, "idle") => proc[p] = NoProc
    /\ ~At(p, "idle") => k \in Orders
    /\ At(p, "insert") => Creating(p) /\ order[k] = "absent"
    /\ At(p, "precreate") => trade[k] = "none"
    /\ proc[p].pc \in {"precreate", "persist", "fail", "compensate", "closeRemote"} =>
          Creating(p) /\ k \notin Redirect
    /\ proc[p].pc \in {"precreate", "persist", "fail"} => k \notin shown
    /\ At(p, "undo") \/ At(p, "closeLocal") => trade[k] = "closed"
    /\ At(p, "apply") /\ proc[p].saw \in {"success", "closed", "payerror"}
          => trade[k] = proc[p].saw

\* The invariant, order by order and handler by handler.
LEMMA Parts ==
    PaymentsInductive <=>
        /\ PaymentsTypeOK
        /\ \A k \in Orders : OrderOK(k)
        /\ \A p \in Handlers : HandlerOK(p)
        /\ \A p, q \in Handlers :
              Creating(p) /\ Creating(q) /\ proc[p].order = proc[q].order => p = q
  BY DEF PaymentsInductive, PaymentsInvariant, CreditedOncePaid, PaidNotAbandoned,
         CreatedOnce, AbsentUntouched, StagesHold, ReportsTrue, GivenUpUnpayable,
         OrderOK, HandlerOK

\* The parts after a step.
LEMMA PartsNext ==
    ASSUME PaymentsTypeOK',
           \A k \in Orders : OrderOK(k)',
           \A p \in Handlers : HandlerOK(p)',
           \A p, q \in Handlers :
              Creating(p)' /\ Creating(q)' /\ proc'[p].order = proc'[q].order => p = q
    PROVE  PaymentsInductive'
  BY DEF PaymentsInductive, PaymentsInvariant, CreditedOncePaid, PaidNotAbandoned,
         CreatedOnce, AbsentUntouched, StagesHold, ReportsTrue, GivenUpUnpayable,
         OrderOK, HandlerOK, At, Creating, Opening

\* A step of one handler on one order: what is to be shown is about that
\* handler, that order, and the handlers that also work on it.
LEMMA OneOrder ==
    ASSUME PaymentsInductive, PaymentsTypeOK',
           NEW p \in Handlers, NEW k \in Orders, OnlyHandler(p), OnlyOrder(k),
           proc[p].order \in {k, None}, proc'[p].order \in {k, None},
           OrderOK(k)', HandlerOK(p)',
           \A q \in Handlers : q # p /\ proc[q].order = k => HandlerOK(q)',
           Creating(p)' => \/ Creating(p) /\ proc'[p].order = proc[p].order
                           \/ \A q \in Handlers : proc[q].order # k
    PROVE  PaymentsInductive'
  <1>1. /\ PaymentsTypeOK /\ \A j \in Orders : OrderOK(j)
        /\ \A q \in Handlers : HandlerOK(q)
        /\ \A q, s \in Handlers :
              Creating(q) /\ Creating(s) /\ proc[q].order = proc[s].order => q = s
    BY Parts
  <1>2. ASSUME NEW j \in Orders PROVE OrderOK(j)'
    <2>1. CASE j = k
      BY <2>1
    <2>2. CASE j # k
      <3>1. OrderOK(j) /\ OrderKept(j) /\ j # None
        BY <1>1, <2>2, PaymentsAssumption DEF OnlyOrder
      <3>2. \A q \in Handlers : proc'[q].order = j => proc'[q] = proc[q]
        BY <2>2, <3>1 DEF OnlyHandler
      <3> QED BY <3>1, <3>2 DEF OrderOK, OrderKept, At, Opening
    <2> QED BY <2>1, <2>2
  <1>3. ASSUME NEW q \in Handlers PROVE HandlerOK(q)'
    <2>1. CASE q = p \/ proc[q].order = k
      BY <2>1
    <2>2. CASE q # p /\ proc[q].order # k
      <3>1. HandlerOK(q) /\ proc'[q] = proc[q]
        BY <1>1, <2>2 DEF OnlyHandler
      <3>2. CASE At(q, "idle")
        BY <3>1, <3>2 DEF HandlerOK, At
      <3>3. CASE ~At(q, "idle")
        <4>1. proc[q].order \in Orders /\ OrderKept(proc[q].order)
          BY <2>2, <3>1, <3>3 DEF HandlerOK, OnlyOrder
        <4> QED BY <3>1, <4>1 DEF HandlerOK, At, Creating, OrderKept
      <3> QED BY <3>2, <3>3
    <2> QED BY <2>1, <2>2
  <1>4. ASSUME NEW q \in Handlers, NEW s \in Handlers,
               Creating(q)', Creating(s)', proc'[q].order = proc'[s].order
        PROVE  q = s
    <2>1. \A r \in Handlers : Creating(r)' /\ proc'[r] = proc[r] => Creating(r)
      BY DEF Creating
    <2>2. \A r \in Handlers : r # p => proc'[r] = proc[r]
      BY DEF OnlyHandler
    <2>3. CASE q # p /\ s # p
      BY <1>1, <1>4, <2>1, <2>2, <2>3
    <2>4. CASE q = p /\ s # p
      BY <1>1, <1>4, <2>1, <2>2, <2>4, PaymentsAssumption DEF HandlerOK, At, NoProc, Creating
    <2>5. CASE q # p /\ s = p
      BY <1>1, <1>4, <2>1, <2>2, <2>5, PaymentsAssumption DEF HandlerOK, At, NoProc, Creating
    <2> QED BY <2>3, <2>4, <2>5
  <1> QED BY <1>2, <1>3, <1>4, PartsNext

-----------------------------------------------------------------------------
(* What a step does to a handler.                                          *)

\* Where a handler may be.
Pcs ==
    {"idle", "insert", "precreate", "fail", "persist", "compensate",
     "undo", "closeLocal", "record", "apply", "query", "closeRemote", "verified"}

\* Handler p goes to pc and keeps what it works on.
Moved(p, pc) ==
    /\ proc' \in [Handlers -> Procs] /\ OnlyHandler(p)
    /\ proc'[p].pc = pc /\ proc'[p].order = proc[p].order
    /\ proc'[p].task = proc[p].task

\* A handler moves and keeps what it saw.
LEMMA GotoMoves ==
    ASSUME proc \in [Handlers -> Procs], NEW p \in Handlers, NEW pc \in Pcs, Goto(p, pc)
    PROVE  Moved(p, pc) /\ proc'[p].saw = proc[p].saw
  BY DEF Goto, Moved, OnlyHandler, Procs, Pcs

\* A handler keeps the result it will record.
LEMMA ResultMoves ==
    ASSUME proc \in [Handlers -> Procs], NEW p \in Handlers, NEW pc \in Pcs,
           NEW result \in {"available", "degraded", "unavailable"},
           proc' = [proc EXCEPT ![p].pc = pc, ![p].result = result]
    PROVE  Moved(p, pc)
  <1>1. [proc[p] EXCEPT !.pc = pc, !.result = result] \in Procs
    BY DEF Procs, Pcs
  <1>2. proc' = [proc EXCEPT ![p] = [proc[p] EXCEPT !.pc = pc, !.result = result]]
    OBVIOUS
  <1>3. proc' \in [Handlers -> Procs] /\ OnlyHandler(p)
    BY <1>1, <1>2 DEF OnlyHandler
  <1>4. proc'[p].pc = pc /\ proc'[p].order = proc[p].order /\ proc'[p].task = proc[p].task
    BY <1>2 DEF Procs
  <1> QED BY <1>3, <1>4 DEF Moved

\* A handler keeps what it saw.
LEMMA SawMoves ==
    ASSUME proc \in [Handlers -> Procs], NEW p \in Handlers, NEW s \in Trades,
           proc' = [proc EXCEPT ![p].pc = "apply", ![p].saw = s]
    PROVE  Moved(p, "apply") /\ proc'[p].saw = s
  BY DEF Moved, OnlyHandler, Procs, Pcs

\* A handler ends.
LEMMA DoneEnds ==
    ASSUME proc \in [Handlers -> Procs], NEW p \in Handlers, Done(p)
    PROVE  proc' \in [Handlers -> Procs] /\ OnlyHandler(p) /\ proc'[p] = NoProc
  <1>1. NoProc \in Procs
    BY PaymentsAssumption DEF Procs, NoProc, Trades
  <1> QED BY <1>1 DEF Done, OnlyHandler

\* A handler starts.
LEMMA StartStarts ==
    ASSUME PaymentsTypeOK, NEW p \in Handlers, NEW k \in Orders,
           NEW task \in {"create", "verify", "sync"}, NEW pc \in Pcs,
           Start(p, k, task, pc)
    PROVE  /\ proc' \in [Handlers -> Procs] /\ OnlyHandler(p)
           /\ proc'[p].pc = pc /\ proc'[p].order = k /\ proc'[p].task = task
  <1> DEFINE new == [NoProc EXCEPT !.pc = pc, !.order = k, !.task = task]
  <1>0. 0 \in 0..MaxConfigs
    BY PaymentsAssumption
  <1>1. new \in Procs /\ new.pc = pc /\ new.order = k /\ new.task = task
    BY <1>0 DEF NoProc, Procs, Pcs, Trades
  <1>2. proc' = [proc EXCEPT ![p] = new]
    BY Zenon DEF Start
  <1> HIDE DEF new
  <1> QED BY <1>1, <1>2 DEF PaymentsTypeOK, OnlyHandler

\* A trial starts.
LEMMA VerifyStarts ==
    ASSUME PaymentsTypeOK, NEW p \in Handlers, NEW k \in Orders, NEW c \in 0..MaxConfigs,
           BeginVerify(p, k, c)
    PROVE  /\ proc' \in [Handlers -> Procs] /\ OnlyHandler(p)
           /\ proc'[p].pc = "insert" /\ proc'[p].order = k /\ proc'[p].task = "verify"
  <1> DEFINE new == [NoProc EXCEPT !.pc = "insert", !.order = k, !.task = "verify",
                                   !.config = c]
  <1>1. new \in Procs /\ new.pc = "insert" /\ new.order = k /\ new.task = "verify"
    BY DEF NoProc, Procs, Trades
  <1>2. proc' = [proc EXCEPT ![p] = new]
    BY Zenon DEF BeginVerify
  <1> HIDE DEF new
  <1> QED BY <1>1, <1>2 DEF PaymentsTypeOK, OnlyHandler

\* A handler starts on a notification.
LEMMA NotifyStarts ==
    ASSUME PaymentsTypeOK, NEW p \in Handlers, NEW k \in Orders, NEW s \in Trades,
           NotifyBegin(p, k, s), proc' # proc
    PROVE  /\ proc' \in [Handlers -> Procs] /\ OnlyHandler(p)
           /\ proc'[p].pc = "apply" /\ proc'[p].order = k /\ proc'[p].task = "notify"
           /\ proc'[p].saw \in inbox[k]
  <1> DEFINE new == [NoProc EXCEPT !.pc = "apply", !.order = k, !.task = "notify",
                                   !.saw = s]
  <1>0. 0 \in 0..MaxConfigs
    BY PaymentsAssumption
  <1>1. /\ new \in Procs /\ new.pc = "apply" /\ new.order = k /\ new.task = "notify"
        /\ new.saw = s
    BY <1>0 DEF NoProc, Procs
  <1>2. proc' = [proc EXCEPT ![p] = new] /\ s \in inbox[k]
    BY Zenon DEF NotifyBegin
  <1> HIDE DEF new
  <1> QED BY <1>1, <1>2 DEF PaymentsTypeOK, OnlyHandler

\* A handler ends, or goes on to record that the provider is degraded.
LEMMA ErrorMoves ==
    ASSUME proc \in [Handlers -> Procs], NEW p \in Handlers, LocalError(p)
    PROVE  /\ proc' \in [Handlers -> Procs] /\ OnlyHandler(p)
           /\ proc'[p] = NoProc \/ Moved(p, "record")
  <1>1. CASE Done(p)
    BY <1>1, DoneEnds
  <1>2. CASE proc' = [proc EXCEPT ![p].pc = "record", ![p].result = "degraded"]
    <2>1. Moved(p, "record")
      BY <1>2, ResultMoves DEF Pcs
    <2> QED BY <2>1 DEF Moved
  <1> QED BY <1>1, <1>2 DEF LocalError

\* A close that fails ends the handler, perhaps with a record.
LEMMA CloseFailsMoves ==
    ASSUME proc \in [Handlers -> Procs], NEW p \in Handlers,
           \E closed \in BOOLEAN : CloseRemoteFails(p, closed)
    PROVE  \/ proc'[p] = NoProc /\ proc' \in [Handlers -> Procs] /\ OnlyHandler(p)
           \/ Moved(p, "record")
  <1>1. CASE LocalError(p)
    BY <1>1, ErrorMoves
  <1>2. CASE proc' = [proc EXCEPT ![p].pc = "record", ![p].result = "degraded"]
    BY <1>2, ResultMoves DEF Pcs
  <1> QED BY <1>1, <1>2 DEF CloseRemoteFails

\* A handler that works on order k.
LEMMA Works ==
    ASSUME PaymentsInductive, NEW p \in Handlers, ~At(p, "idle")
    PROVE  \E k \in Orders : k = proc[p].order
  BY Parts DEF HandlerOK

-----------------------------------------------------------------------------
(* Steps that change no order.                                             *)

\* What such a step keeps of the other handlers and of the orders.
LEMMA Quiet ==
    ASSUME PaymentsInductive, PaymentsTypeOK', NEW p \in Handlers, ~At(p, "idle"),
           ~At(p, "insert"), OnlyHandler(p),
           UNCHANGED <<order, credits, trade, shown, inbox>>,
           \/ proc'[p] = NoProc
           \/ /\ proc'[p].order = proc[p].order /\ proc'[p].task = proc[p].task
              /\ ~Opening(p)' /\ HandlerOK(p)'
    PROVE  PaymentsInductive'
  <1>1. /\ \A j \in Orders : OrderOK(j)
        /\ \A q \in Handlers : HandlerOK(q)
    BY Parts
  <1>2. PICK k \in Orders : k = proc[p].order
    BY Works
  <1>3. OnlyOrder(k)
    BY DEF OnlyOrder, OrderKept
  <1>4. OrderOK(k) /\ order[k] # "absent" /\ k # None
    BY <1>1, <1>2, PaymentsAssumption DEF OrderOK
  <1>5. OrderOK(k)'
    <2>1. \A q \in Handlers : proc'[q].order = k => (Opening(q)' => Opening(q))
      BY <1>4 DEF OnlyHandler, Opening, NoProc
    <2>2. \A q \in Handlers : proc'[q].order = k => proc[q].order = k
      BY <1>2, <1>4 DEF OnlyHandler, NoProc
    <2> QED BY <1>4, <2>1, <2>2 DEF OrderOK
  <1>6. HandlerOK(p)'
    BY DEF HandlerOK, At, NoProc
  <1>7. \A q \in Handlers : q # p /\ proc[q].order = k => HandlerOK(q)'
    BY <1>1 DEF HandlerOK, OnlyHandler, At, Creating
  <1>8. Creating(p)' => Creating(p) /\ proc'[p].order = proc[p].order
    BY DEF Creating, NoProc
  <1>9. proc'[p].order \in {k, None}
    BY <1>2 DEF NoProc
  <1> QED BY <1>2, <1>3, <1>5, <1>6, <1>7, <1>8, <1>9, OneOrder

\* A step that changes neither orders nor handlers.
LEMMA Outer ==
    ASSUME PaymentsInductive, PaymentsTypeOK',
           UNCHANGED <<order, credits, trade, shown, inbox, proc>>
    PROVE  PaymentsInductive'
  BY DEF PaymentsInductive, PaymentsInvariant, CreditedOncePaid, PaidNotAbandoned,
         CreatedOnce, AbsentUntouched, StagesHold, ReportsTrue, GivenUpUnpayable,
         At, Creating, Opening

\* A change of the configuration, or of the row that follows it.
LEMMA ConfigSafe ==
    ASSUME PaymentsInductive, NEW m \in Methods,
           \/ ConfigChanges(m)
           \/ \E c \in 0..MaxConfigs : EnsureRead(m, c)
           \/ \E c \in 0..MaxConfigs, others \in BOOLEAN : EnsureWrite(m, c, others)
    PROVE  PaymentsInductive'
  <1>1. PaymentsTypeOK
    BY Parts
  <1>2. CASE ConfigChanges(m)
    <2>1. PaymentsTypeOK'
      BY <1>1, <1>2, PaymentsAssumption DEF ConfigChanges, PaymentsTypeOK
    <2> QED BY <1>2, <2>1, Outer DEF ConfigChanges
  <1>3. ASSUME NEW c \in 0..MaxConfigs, EnsureRead(m, c) PROVE PaymentsInductive'
    <2>1. PaymentsTypeOK'
      BY <1>1, <1>3 DEF EnsureRead, PaymentsTypeOK
    <2> QED BY <1>3, <2>1, Outer DEF EnsureRead
  <1>4. ASSUME NEW c \in 0..MaxConfigs, NEW others \in BOOLEAN, EnsureWrite(m, c, others)
        PROVE  PaymentsInductive'
    <2>1. states' \in [Methods ->
            [fingerprint : 0..MaxConfigs, verified : 0..MaxConfigs \cup {None},
             circuit : {"available", "degraded", "unavailable"}]]
      BY <1>1, <1>4 DEF EnsureWrite, PaymentsTypeOK
    <2>2. ensures' \in [Methods -> SUBSET (0..MaxConfigs)]
      BY <1>1, <1>4 DEF EnsureWrite, PaymentsTypeOK
    <2>3. PaymentsTypeOK'
      BY <1>1, <1>4, <2>1, <2>2 DEF EnsureWrite, PaymentsTypeOK
    <2> QED BY <1>4, <2>3, Outer DEF EnsureWrite
  <1> QED BY <1>2, <1>3, <1>4

\* Steps that only record what happened.
LEMMA QuietSteps ==
    ASSUME PaymentsInductive, NEW p \in Handlers,
           \/ MarkVerified(p) \/ RecordResult(p) \/ Query(p) \/ ApplyFails(p)
           \/ EndFails(p)
           \/ trade' = trade /\ \E closed \in BOOLEAN : CloseRemoteFails(p, closed)
           \/ \E result \in {"degraded", "unavailable"} : QueryFails(p, result)
    PROVE  PaymentsInductive'
  <1>1. PaymentsTypeOK /\ proc \in [Handlers -> Procs]
    BY Parts DEF PaymentsTypeOK
  <1>2. HandlerOK(p)
    BY Parts
  <1>3. CASE MarkVerified(p)
    <2>1. PICK k \in Orders : k = proc[p].order
      BY <1>3, Works DEF MarkVerified, At
    <2>2. Moved(p, "record")
      BY <1>1, <1>3, GotoMoves DEF MarkVerified, Pcs
    <2>3. proc[p].config \in 0..MaxConfigs /\ Method(k) \in Methods
      BY <1>1 DEF Procs, Methods
    <2>4. states' \in [Methods ->
              [fingerprint : 0..MaxConfigs, verified : 0..MaxConfigs \cup {None},
               circuit : {"available", "degraded", "unavailable"}]]
      BY <1>1, <1>3, <2>1, <2>3 DEF MarkVerified, PaymentsTypeOK
    <2>5. PaymentsTypeOK'
      BY <1>1, <1>3, <2>2, <2>4 DEF MarkVerified, PaymentsTypeOK, Moved
    <2> QED BY <1>3, <2>1, <2>2, <2>5, Quiet DEF MarkVerified, Moved, At, Opening, HandlerOK
  <1>4. CASE RecordResult(p)
    <2>1. PICK k \in Orders : k = proc[p].order
      BY <1>4, Works DEF RecordResult, At
    <2>2. proc' \in [Handlers -> Procs] /\ OnlyHandler(p) /\ proc'[p] = NoProc
      BY <1>1, <1>4, DoneEnds DEF RecordResult
    <2>3. Method(k) \in Methods /\ proc[p].result \in {"available", "degraded", "unavailable"}
      BY <1>1 DEF Procs, Methods
    <2>4. states' \in [Methods ->
              [fingerprint : 0..MaxConfigs, verified : 0..MaxConfigs \cup {None},
               circuit : {"available", "degraded", "unavailable"}]]
      BY <1>1, <1>4, <2>1, <2>3 DEF RecordResult, PaymentsTypeOK
    <2>5. PaymentsTypeOK'
      BY <1>1, <1>4, <2>2, <2>4 DEF RecordResult, PaymentsTypeOK
    <2> QED BY <1>4, <2>2, <2>5, Quiet DEF RecordResult, At
  <1>5. CASE Query(p)
    <2>1. PICK k \in Orders : k = proc[p].order
      BY <1>5, Works DEF Query, At
    <2>2. \/ Moved(p, "record")
          \/ Moved(p, "apply") /\ proc'[p].saw = trade[k]
      <3>1. trade[k] \in Trades
        BY <1>1 DEF PaymentsTypeOK
      <3>2. CASE trade[k] = "none"
        BY <1>1, <1>5, <2>1, <3>2, ResultMoves DEF Query, Pcs
      <3>3. CASE trade[k] # "none"
        <4>1. PICK s \in Trades : s = trade[k]
          BY <3>1
        <4> QED BY <1>1, <1>5, <2>1, <3>3, <4>1, SawMoves DEF Query
      <3> QED BY <3>2, <3>3
    <2>3. PaymentsTypeOK'
      BY <1>1, <1>5, <2>2 DEF Query, PaymentsTypeOK, Moved, Outside
    <2>4. HandlerOK(p)'
      BY <1>5, <2>1, <2>2 DEF Query, Moved, HandlerOK, At
    <2> QED BY <1>5, <2>2, <2>3, <2>4, Quiet DEF Query, Moved, At, Opening
  <1>6. CASE ApplyFails(p)
    <2>1. proc' \in [Handlers -> Procs] /\ OnlyHandler(p) /\ proc'[p] = NoProc
      BY <1>1, <1>6, DoneEnds DEF ApplyFails
    <2>2. PaymentsTypeOK'
      BY <1>1, <1>6, <2>1 DEF ApplyFails, PaymentsTypeOK, Outside
    <2> QED BY <1>6, <2>1, <2>2, Quiet DEF ApplyFails, At
  <1>7. CASE EndFails(p)
    <2>1. \/ proc'[p] = NoProc /\ proc' \in [Handlers -> Procs] /\ OnlyHandler(p)
          \/ Moved(p, "record")
      <3>1. CASE Goto(p, "record")
        BY <1>1, <3>1, GotoMoves DEF Pcs
      <3>2. CASE LocalError(p)
        BY <1>1, <3>2, ErrorMoves
      <3> QED BY <1>7, <3>1, <3>2 DEF EndFails
    <2>2. PaymentsTypeOK'
      BY <1>1, <1>7, <2>1 DEF EndFails, PaymentsTypeOK, Moved, Outside
    <2>3. Moved(p, "record") => HandlerOK(p)'
      BY <1>2, <1>7 DEF EndFails, Moved, HandlerOK, At
    <2> QED BY <1>7, <2>1, <2>2, <2>3, Quiet DEF EndFails, Moved, At, Opening
  <1>8. CASE trade' = trade /\ \E closed \in BOOLEAN : CloseRemoteFails(p, closed)
    <2>1. \/ proc'[p] = NoProc /\ proc' \in [Handlers -> Procs] /\ OnlyHandler(p)
          \/ Moved(p, "record")
      BY <1>1, <1>8, CloseFailsMoves
    <2>2. PaymentsTypeOK'
      BY <1>1, <1>8, <2>1 DEF CloseRemoteFails, PaymentsTypeOK, Moved, Outside
    <2>3. Moved(p, "record") => HandlerOK(p)'
      BY <1>2, <1>8 DEF CloseRemoteFails, Moved, HandlerOK, At
    <2>4. /\ At(p, "compensate") \/ At(p, "closeRemote")
          /\ UNCHANGED <<order, credits, trade, shown, inbox>>
      BY <1>8 DEF CloseRemoteFails
    <2> QED BY <2>1, <2>2, <2>3, <2>4, Quiet DEF Moved, At, Opening
  <1>9. CASE \E result \in {"degraded", "unavailable"} : QueryFails(p, result)
    <2>1. Moved(p, "record")
      BY <1>1, <1>9, ResultMoves DEF QueryFails, Pcs
    <2>2. PaymentsTypeOK'
      BY <1>1, <1>9, <2>1 DEF QueryFails, PaymentsTypeOK, Moved, Outside
    <2>3. HandlerOK(p)'
      BY <1>2, <1>9, <2>1 DEF QueryFails, Moved, HandlerOK, At
    <2> QED BY <1>9, <2>1, <2>2, <2>3, Quiet DEF QueryFails, Moved, At, Opening
  <1> QED BY <1>3, <1>4, <1>5, <1>6, <1>7, <1>8, <1>9

-----------------------------------------------------------------------------
(* Steps on an order.                                                      *)

\* create_order and verify_provider begin: the order is theirs alone.
LEMMA BeginSafe ==
    ASSUME PaymentsInductive, NEW p \in Handlers, NEW k \in Orders,
           BeginCreate(p, k) \/ \E c \in 0..MaxConfigs : BeginVerify(p, k, c)
    PROVE  PaymentsInductive'
  <1>1. PaymentsTypeOK /\ HandlerOK(p) /\ OrderOK(k)
    BY Parts
  <1>2. /\ At(p, "idle") /\ order[k] = "absent" /\ \A q \in Handlers : proc[q].order # k
        /\ UNCHANGED <<order, credits, trade, shown, inbox, config, states, ensures>>
    BY DEF BeginCreate, BeginVerify, Outside
  <1>4. /\ proc' \in [Handlers -> Procs] /\ OnlyHandler(p)
        /\ proc'[p].pc = "insert" /\ proc'[p].order = k
        /\ proc'[p].task \in {"create", "verify"}
    <2>1. CASE BeginCreate(p, k)
      <3>1. Start(p, k, "create", "insert") /\ "insert" \in Pcs
        BY <2>1 DEF BeginCreate, Pcs
      <3>2. /\ proc' \in [Handlers -> Procs] /\ OnlyHandler(p)
            /\ proc'[p].pc = "insert" /\ proc'[p].order = k /\ proc'[p].task = "create"
        BY <1>1, <3>1, StartStarts
      <3> QED BY <3>2
    <2>2. CASE \E c \in 0..MaxConfigs : BeginVerify(p, k, c)
      BY <1>1, <2>2, VerifyStarts
    <2> QED BY <2>1, <2>2
  <1>5. PaymentsTypeOK'
    BY <1>1, <1>2, <1>4 DEF PaymentsTypeOK
  <1>6. OnlyOrder(k)
    BY <1>2 DEF OnlyOrder, OrderKept
  <1>7. proc[p].order \in {k, None}
    BY <1>1, <1>2 DEF HandlerOK, NoProc
  <1>8. OrderOK(k)'
    BY <1>1, <1>2, <1>4 DEF OrderOK, OnlyHandler, At
  <1>9. HandlerOK(p)'
    BY <1>2, <1>4 DEF HandlerOK, At, Creating
  <1> QED BY <1>2, <1>4, <1>5, <1>6, <1>7, <1>8, <1>9, OneOrder

\* A handler reads a notification, or begins a query.
LEMMA ReadSafe ==
    ASSUME PaymentsInductive, NEW p \in Handlers, NEW k \in Orders,
           SyncBegin(p, k) \/ \E state \in Trades : NotifyBegin(p, k, state)
    PROVE  PaymentsInductive'
  <1>1. PaymentsTypeOK /\ HandlerOK(p) /\ OrderOK(k)
    BY Parts
  <1>2. /\ At(p, "idle") /\ order[k] # "absent"
        /\ UNCHANGED <<order, credits, trade, shown, config, states, ensures>>
    BY DEF SyncBegin, NotifyBegin, Outside
  <1>3. proc[p] = NoProc
    BY <1>1, <1>2 DEF HandlerOK
  <1>4. inbox' = inbox \/ \E state \in Trades : inbox' = [inbox EXCEPT ![k] = @ \ {state}]
    BY DEF SyncBegin, NotifyBegin
  <1>5. /\ inbox' \in [Orders -> SUBSET Trades] /\ inbox'[k] \subseteq inbox[k]
        /\ \A j \in Orders : j # k => inbox'[j] = inbox[j]
    BY <1>1, <1>4 DEF PaymentsTypeOK
  <1>6. /\ proc' \in [Handlers -> Procs] /\ OnlyHandler(p)
        /\ \/ proc'[p] = proc[p]
           \/ /\ proc'[p].pc = "query" /\ proc'[p].order = k /\ proc'[p].task = "sync"
           \/ /\ proc'[p].pc = "apply" /\ proc'[p].order = k /\ proc'[p].task = "notify"
              /\ proc'[p].saw \in inbox[k]
    <2>1. CASE SyncBegin(p, k)
      <3>1. Start(p, k, "sync", "query") /\ "query" \in Pcs
        BY <2>1 DEF SyncBegin, Pcs
      <3>2. /\ proc' \in [Handlers -> Procs] /\ OnlyHandler(p)
            /\ proc'[p].pc = "query" /\ proc'[p].order = k /\ proc'[p].task = "sync"
        BY <1>1, <3>1, StartStarts
      <3> QED BY <3>2
    <2>2. ASSUME NEW state \in Trades, NotifyBegin(p, k, state), proc' # proc
          PROVE  /\ proc' \in [Handlers -> Procs] /\ OnlyHandler(p)
                 /\ proc'[p].pc = "apply" /\ proc'[p].order = k /\ proc'[p].task = "notify"
                 /\ proc'[p].saw \in inbox[k]
      BY <1>1, <2>2, NotifyStarts
    <2>3. CASE proc' = proc
      BY <1>1, <2>3 DEF PaymentsTypeOK, OnlyHandler
    <2> QED BY <2>1, <2>2, <2>3
  <1>7. PaymentsTypeOK'
    BY <1>1, <1>2, <1>5, <1>6 DEF PaymentsTypeOK
  <1>8. OnlyOrder(k)
    BY <1>2, <1>5 DEF OnlyOrder, OrderKept
  <1>9. proc[p].order \in {k, None} /\ proc'[p].order \in {k, None}
    BY <1>3, <1>6 DEF NoProc
  <1>10. OrderOK(k)'
    <2>1. \A q \in Handlers : proc'[q].order = k /\ Opening(q)' => proc[q].order = k /\ Opening(q)
      BY <1>3, <1>6 DEF OnlyHandler, Opening, NoProc
    <2> QED BY <1>1, <1>2, <1>5, <2>1 DEF OrderOK
  <1>11. HandlerOK(p)'
    <2>1. \A s \in inbox[k] : trade'[k] = s
      BY <1>1, <1>2 DEF OrderOK
    <2> QED BY <1>2, <1>3, <1>6, <2>1 DEF HandlerOK, At, NoProc
  <1>12. \A q \in Handlers : q # p /\ proc[q].order = k => HandlerOK(q)'
    BY <1>2, <1>6, Parts DEF OnlyHandler, HandlerOK, At, Creating
  <1>13. ~Creating(p)'
    BY <1>3, <1>6 DEF Creating, NoProc
  <1> QED BY <1>6, <1>7, <1>8, <1>9, <1>10, <1>11, <1>12, <1>13, OneOrder

\* The order is written; a redirect is shown at once.
LEMMA InsertSafe ==
    ASSUME PaymentsInductive, NEW p \in Handlers, Insert(p)
    PROVE  PaymentsInductive'
  <1>1. PICK k \in Orders : k = proc[p].order
    BY Works DEF Insert, At
  <1>2. PaymentsTypeOK /\ HandlerOK(p) /\ OrderOK(k)
    BY Parts
  <1>3. At(p, "insert") /\ Creating(p) /\ order[k] = "absent" /\ k # None
    BY <1>1, <1>2, PaymentsAssumption DEF Insert, HandlerOK
  <1>4. /\ order' = [order EXCEPT ![k] = "pending"]
        /\ UNCHANGED <<credits, trade, inbox, config, states, ensures>>
        /\ \/ k \in Redirect /\ shown' = shown \cup {k} /\ Done(p)
           \/ k \notin Redirect /\ shown' = shown /\ Goto(p, "precreate")
    BY <1>1 DEF Insert, Outside
  <1>5. /\ proc' \in [Handlers -> Procs] /\ OnlyHandler(p)
        /\ \/ proc'[p] = NoProc /\ k \in Redirect
           \/ Moved(p, "precreate") /\ k \notin Redirect /\ shown' = shown
    BY <1>2, <1>4, DoneEnds, GotoMoves DEF PaymentsTypeOK, Moved, Pcs
  <1>6. PaymentsTypeOK'
    BY <1>2, <1>4, <1>5 DEF PaymentsTypeOK
  <1>7. OnlyOrder(k)
    BY <1>2, <1>4 DEF OnlyOrder, OrderKept, PaymentsTypeOK
  <1>8. /\ order'[k] = "pending" /\ trade'[k] = "none" /\ credits'[k] = 0 /\ inbox'[k] = {}
    BY <1>2, <1>3, <1>4 DEF OrderOK, PaymentsTypeOK
  <1>9. OrderOK(k)'
    BY <1>8 DEF OrderOK
  <1>10. HandlerOK(p)'
    BY <1>1, <1>2, <1>3, <1>5, <1>8 DEF HandlerOK, OrderOK, Moved, At, NoProc, Creating
  <1>11. \A q \in Handlers : q # p => proc[q].order # k
    <2> SUFFICES ASSUME NEW q \in Handlers, q # p, proc[q].order = k PROVE FALSE
      OBVIOUS
    <2>1. At(q, "insert") /\ HandlerOK(q)
      BY <1>2, <1>3, Parts DEF OrderOK
    <2>2. Creating(q)
      BY <2>1 DEF HandlerOK
    <2> QED BY <1>1, <1>3, <2>2, Parts
  <1>12. Creating(p)' => Creating(p) /\ proc'[p].order = proc[p].order
    BY <1>3, <1>5 DEF Creating, Moved, NoProc
  <1>13. proc[p].order \in {k, None} /\ proc'[p].order \in {k, None}
    BY <1>1, <1>5 DEF Moved, NoProc
  <1> QED BY <1>5, <1>6, <1>7, <1>9, <1>10, <1>11, <1>12, <1>13, OneOrder

\* Two handlers never create the same order.
LEMMA OnlyCreator ==
    ASSUME PaymentsInductive, NEW p \in Handlers, NEW q \in Handlers, q # p,
           Creating(p), proc[q].order = proc[p].order
    PROVE  /\ ~Creating(q)
           /\ proc[q].pc \notin {"insert", "precreate", "persist", "fail",
                                 "compensate", "closeRemote"}
  <1>1. HandlerOK(q) /\ ~Creating(q)
    BY Parts
  <1> QED BY <1>1 DEF HandlerOK, At

\* The provider opens the trade, whether or not the answer arrives.
LEMMA PrecreateSafe ==
    ASSUME PaymentsInductive, NEW p \in Handlers,
           \/ Precreate(p)
           \/ \E opened \in BOOLEAN, result \in {"degraded", "unavailable"} :
                 PrecreateFails(p, opened, result)
    PROVE  PaymentsInductive'
  <1>1. PICK k \in Orders : k = proc[p].order
    BY Works DEF Precreate, PrecreateFails, At
  <1>2. PaymentsTypeOK /\ HandlerOK(p) /\ OrderOK(k)
    BY Parts
  <1>3. /\ At(p, "precreate") /\ Creating(p) /\ trade[k] = "none"
        /\ k \notin Redirect /\ k \notin shown /\ k # None /\ order[k] # "absent"
    BY <1>1, <1>2, PaymentsAssumption DEF Precreate, PrecreateFails, HandlerOK, OrderOK, At
  <1>4. UNCHANGED <<order, credits, shown, inbox, config, states, ensures>>
    BY DEF Precreate, PrecreateFails, Outside
  <1>5. trade' = trade \/ trade' = [trade EXCEPT ![k] = "waiting"]
    BY <1>1 DEF Precreate, PrecreateFails
  <1>6. /\ trade' \in [Orders -> Trades] /\ trade'[k] \in {"none", "waiting"}
        /\ \A j \in Orders : j # k => trade'[j] = trade[j]
    BY <1>2, <1>3, <1>5 DEF PaymentsTypeOK, Trades
  <1>7. Moved(p, "persist") \/ Moved(p, "fail")
    <2>1. proc \in [Handlers -> Procs]
      BY <1>2 DEF PaymentsTypeOK
    <2>2. CASE Precreate(p)
      BY <2>1, <2>2, GotoMoves DEF Precreate, Pcs
    <2>3. ASSUME NEW opened \in BOOLEAN, NEW result \in {"degraded", "unavailable"},
                 PrecreateFails(p, opened, result)
          PROVE  Moved(p, "fail")
      BY <2>1, <2>3, ResultMoves DEF PrecreateFails, Pcs
    <2> QED BY <2>2, <2>3
  <1>8. PaymentsTypeOK'
    BY <1>2, <1>4, <1>6, <1>7 DEF PaymentsTypeOK, Moved
  <1>9. OnlyOrder(k) /\ OnlyHandler(p)
    BY <1>4, <1>6, <1>7 DEF OnlyOrder, OrderKept, Moved
  <1>10. order[k] \notin {"failed", "closed"} /\ inbox[k] = {}
    BY <1>1, <1>2, <1>3 DEF OrderOK, At, Opening
  <1>11. OrderOK(k)'
    BY <1>2, <1>3, <1>4, <1>6, <1>10 DEF OrderOK
  <1>12. HandlerOK(p)'
    BY <1>1, <1>3, <1>4, <1>7 DEF HandlerOK, Moved, At, Creating
  <1>13. ASSUME NEW q \in Handlers, q # p, proc[q].order = k PROVE HandlerOK(q)'
    <2>1. ~Creating(q) /\ proc[q].pc \notin {"insert", "precreate", "persist", "fail",
                                             "compensate", "closeRemote"}
      BY <1>1, <1>3, <1>13, OnlyCreator
    <2>2. HandlerOK(q) /\ proc'[q] = proc[q]
      BY <1>9, <1>13, Parts DEF OnlyHandler
    <2> QED BY <1>3, <1>13, <2>1, <2>2 DEF HandlerOK, At
  <1>14. Creating(p)' => Creating(p) /\ proc'[p].order = proc[p].order
    BY <1>3, <1>7 DEF Moved
  <1>15. proc[p].order \in {k, None} /\ proc'[p].order \in {k, None}
    BY <1>1, <1>7 DEF Moved
  <1> QED BY <1>8, <1>9, <1>11, <1>12, <1>13, <1>14, <1>15, OneOrder

\* The trade of a trial or of a compensated order is closed, whether or not the
\* answer arrives.
LEMMA TradeClosed ==
    ASSUME PaymentsInductive, PaymentsTypeOK', NEW p \in Handlers,
           At(p, "compensate") \/ At(p, "closeRemote"), OnlyHandler(p),
           trade[proc[p].order] \in {"waiting", "closed"},
           trade' = [trade EXCEPT ![proc[p].order] = "closed"],
           UNCHANGED <<order, credits, shown, inbox>>,
           \/ proc'[p] = NoProc
           \/ Moved(p, "record") \/ Moved(p, "undo") \/ Moved(p, "closeLocal")
    PROVE  PaymentsInductive'
  <1>1. PICK k \in Orders : k = proc[p].order
    BY Works DEF At
  <1>2. PaymentsTypeOK /\ HandlerOK(p) /\ OrderOK(k)
    BY Parts
  <1>3. /\ Creating(p) /\ k \notin Redirect /\ k # None
        /\ order[k] # "absent" /\ trade[k] \in {"waiting", "closed"}
    BY <1>1, <1>2, PaymentsAssumption DEF HandlerOK, OrderOK, At
  <1>5. /\ trade' \in [Orders -> Trades] /\ trade'[k] = "closed"
        /\ \A j \in Orders : j # k => trade'[j] = trade[j]
    BY <1>1, <1>2 DEF PaymentsTypeOK, Trades
  <1>8. OnlyOrder(k)
    BY <1>5 DEF OnlyOrder, OrderKept
  <1>9. OrderOK(k)'
    BY <1>2, <1>3, <1>5 DEF OrderOK
  <1>10. HandlerOK(p)'
    BY <1>1, <1>5 DEF HandlerOK, Moved, At, NoProc
  <1>11. ASSUME NEW q \in Handlers, q # p, proc[q].order = k PROVE HandlerOK(q)'
    <2>1. ~Creating(q) /\ proc[q].pc \notin {"insert", "precreate", "persist", "fail",
                                             "compensate", "closeRemote"}
      BY <1>1, <1>3, <1>11, OnlyCreator
    <2>2. HandlerOK(q) /\ proc'[q] = proc[q]
      BY <1>11, Parts DEF OnlyHandler
    <2> QED BY <1>3, <1>5, <1>11, <2>1, <2>2 DEF HandlerOK, At
  <1>12. Creating(p)' => Creating(p) /\ proc'[p].order = proc[p].order
    BY <1>3 DEF Moved, NoProc, Creating
  <1>13. proc[p].order \in {k, None} /\ proc'[p].order \in {k, None}
    BY <1>1 DEF Moved, NoProc
  <1> QED BY <1>8, <1>9, <1>10, <1>11, <1>12, <1>13, OneOrder

\* The trial is closed at the provider, or the compensation closes the trade.
LEMMA CloseRemoteSafe ==
    ASSUME PaymentsInductive, NEW p \in Handlers,
           CloseRemote(p) \/ \E closed \in BOOLEAN : CloseRemoteFails(p, closed)
    PROVE  PaymentsInductive'
  <1>1. PICK k \in Orders : k = proc[p].order
    BY Works DEF CloseRemote, CloseRemoteFails, At
  <1>2. PaymentsTypeOK /\ proc \in [Handlers -> Procs]
    BY Parts DEF PaymentsTypeOK
  <1>3. /\ At(p, "compensate") \/ At(p, "closeRemote")
        /\ UNCHANGED <<order, credits, shown, inbox, config, states, ensures>>
    BY DEF CloseRemote, CloseRemoteFails, Outside
  <1>4. CASE CloseRemote(p)
    <2>1. trade[k] \in {"waiting", "closed"} /\ trade' = [trade EXCEPT ![k] = "closed"]
      BY <1>1, <1>4 DEF CloseRemote, CloseRefused
    <2>2. Moved(p, "undo") \/ Moved(p, "closeLocal")
      BY <1>2, <1>4, GotoMoves DEF CloseRemote, Pcs
    <2>3. PaymentsTypeOK'
      BY <1>2, <1>3, <2>1, <2>2 DEF PaymentsTypeOK, Moved, Trades
    <2> QED BY <1>1, <1>3, <2>1, <2>2, <2>3, TradeClosed DEF Moved
  <1>5. CASE /\ \E closed \in BOOLEAN : CloseRemoteFails(p, closed)
             /\ trade' # trade
    <2>1. trade[k] \in {"waiting", "closed"} /\ trade' = [trade EXCEPT ![k] = "closed"]
      BY <1>1, <1>5 DEF CloseRemoteFails, CloseRefused
    <2>2. \/ proc'[p] = NoProc /\ proc' \in [Handlers -> Procs] /\ OnlyHandler(p)
          \/ Moved(p, "record")
      BY <1>2, <1>5, CloseFailsMoves
    <2>3. PaymentsTypeOK'
      BY <1>2, <1>3, <2>1, <2>2 DEF PaymentsTypeOK, Moved, Trades
    <2> QED BY <1>1, <1>3, <2>1, <2>2, <2>3, TradeClosed DEF Moved
  <1> QED BY <1>4, <1>5, QuietSteps

\* The code is stored, or perhaps is: from now on the buyer can pay.
LEMMA PersistCodeSafe ==
    ASSUME PaymentsInductive, NEW p \in Handlers,
           PersistCode(p) \/ \E stored \in BOOLEAN : PersistCodeFails(p, stored)
    PROVE  PaymentsInductive'
  <1>1. PICK k \in Orders : k = proc[p].order
    BY Works DEF PersistCode, PersistCodeFails, At
  <1>2. PaymentsTypeOK /\ HandlerOK(p) /\ OrderOK(k)
    BY Parts
  <1>3. /\ At(p, "persist") /\ Creating(p) /\ k \notin Redirect /\ k \notin shown
        /\ k # None /\ order[k] # "absent"
    BY <1>1, <1>2, PaymentsAssumption
       DEF PersistCode, PersistCodeFails, HandlerOK, OrderOK, At
  <1>4. UNCHANGED <<order, credits, trade, inbox, config, states, ensures>>
    BY DEF PersistCode, PersistCodeFails, Outside
  <1>5. /\ shown' = shown \/ shown' = shown \cup {k}
        /\ Moved(p, "record") \/ Moved(p, "closeRemote") \/ Moved(p, "compensate")
    BY <1>1, <1>2, GotoMoves DEF PersistCode, PersistCodeFails, PaymentsTypeOK, Pcs
  <1>6. PaymentsTypeOK'
    BY <1>2, <1>4, <1>5 DEF PaymentsTypeOK, Moved
  <1>7. OnlyOrder(k) /\ OnlyHandler(p)
    BY <1>4, <1>5 DEF OnlyOrder, OrderKept, Moved
  <1>8. order[k] \in {"failed", "closed"} => trade[k] \in {"closed", "payerror"}
    BY <1>1, <1>2, <1>3 DEF OrderOK, Opening, At
  <1>9. OrderOK(k)'
    BY <1>2, <1>3, <1>4, <1>5, <1>8 DEF OrderOK
  <1>10. HandlerOK(p)'
    BY <1>1, <1>3, <1>5 DEF HandlerOK, Moved, At, Creating
  <1>11. ASSUME NEW q \in Handlers, q # p, proc[q].order = k PROVE HandlerOK(q)'
    <2>1. ~Creating(q) /\ proc[q].pc \notin {"insert", "precreate", "persist", "fail",
                                             "compensate", "closeRemote"}
      BY <1>1, <1>3, <1>11, OnlyCreator
    <2>2. HandlerOK(q) /\ proc'[q] = proc[q]
      BY <1>7, <1>11, Parts DEF OnlyHandler
    <2> QED BY <1>4, <1>11, <2>1, <2>2 DEF HandlerOK, At
  <1>12. Creating(p)' => Creating(p) /\ proc'[p].order = proc[p].order
    BY <1>3, <1>5 DEF Moved, Creating
  <1>13. proc[p].order \in {k, None} /\ proc'[p].order \in {k, None}
    BY <1>1, <1>5 DEF Moved
  <1> QED BY <1>6, <1>7, <1>9, <1>10, <1>11, <1>12, <1>13, OneOrder

\* A step that ends a pending order, or leaves it: the handlers that also work
\* on it do not depend on its status.
LEMMA OrderEnds ==
    ASSUME PaymentsInductive, PaymentsTypeOK', NEW p \in Handlers, NEW k \in Orders,
           k = proc[p].order, ~At(p, "insert"), ~At(p, "idle"), OnlyHandler(p), OnlyOrder(k),
           trade'[k] = trade[k], k \in shown' <=> k \in shown, inbox'[k] \subseteq inbox[k],
           \/ order'[k] = order[k] /\ credits'[k] = credits[k]
           \/ /\ order[k] = "pending" /\ order'[k] = "paid" /\ credits'[k] = credits[k] + 1
              /\ trade[k] = "success"
           \/ /\ order[k] = "pending" /\ order'[k] \in {"failed", "closed"}
              /\ credits'[k] = credits[k]
              /\ \/ trade[k] \in {"closed", "payerror"}
                 \/ At(p, "fail"),
           \/ proc'[p] = NoProc
           \/ /\ proc'[p].order = k /\ proc'[p].task = proc[p].task
              /\ proc'[p].pc \in {"record", "verified"}
    PROVE  PaymentsInductive'
  <1>1. HandlerOK(p) /\ OrderOK(k) /\ k # None
    BY Parts, PaymentsAssumption
  <1>2. order[k] # "absent"
    BY <1>1 DEF OrderOK
  <1>3. \A q \in Handlers : proc'[q].order = k => proc[q].order = k /\ (Opening(q)' => Opening(q))
    BY <1>1 DEF OnlyHandler, Opening, NoProc
  <1>8. OrderOK(k)'
    <2>1. CASE order'[k] = order[k]
      BY <1>1, <1>2, <1>3, <2>1 DEF OrderOK
    <2>2. CASE order[k] = "pending" /\ order'[k] = "paid"
      <3>1. credits'[k] = 1 /\ trade[k] = "success"
        BY <1>1, <2>2 DEF OrderOK
      <3> QED BY <1>1, <2>2, <3>1 DEF OrderOK
    <2>3. CASE order[k] = "pending" /\ order'[k] \in {"failed", "closed"}
                 /\ trade[k] \in {"closed", "payerror"}
      BY <1>1, <2>3 DEF OrderOK
    <2>4. CASE order[k] = "pending" /\ order'[k] \in {"failed", "closed"} /\ At(p, "fail")
      <3>1. Creating(p) /\ k \notin shown /\ k \notin Redirect
        BY <1>1, <2>4 DEF HandlerOK, At
      <3>2. \A q \in Handlers : proc'[q].order = k => ~Opening(q)'
        BY <1>3, <2>4, <3>1, OnlyCreator DEF OnlyHandler, Opening, NoProc
      <3>3. trade[k] # "success"
        BY <1>1, <3>1 DEF OrderOK
      <3> QED BY <1>1, <2>4, <3>1, <3>2, <3>3 DEF OrderOK
    <2> QED BY <2>1, <2>2, <2>3, <2>4
  <1>9. HandlerOK(p)'
    BY DEF HandlerOK, At, NoProc
  <1>10. ASSUME NEW q \in Handlers, q # p, proc[q].order = k PROVE HandlerOK(q)'
    <2>1. HandlerOK(q) /\ proc'[q] = proc[q]
      BY <1>10, Parts DEF OnlyHandler
    <2>2. ~At(q, "insert")
      BY <1>2, <1>10, <2>1 DEF HandlerOK
    <2> QED BY <1>10, <2>1, <2>2 DEF HandlerOK, At, Creating
  <1>11. Creating(p)' => Creating(p) /\ proc'[p].order = proc[p].order
    BY DEF Creating, NoProc
  <1> QED BY <1>8, <1>9, <1>10, <1>11, OneOrder DEF NoProc

\* An order fails, or its trial or compensation is closed here.
LEMMA EndSafe ==
    ASSUME PaymentsInductive, NEW p \in Handlers, FailOrder(p) \/ CloseLocal(p)
    PROVE  PaymentsInductive'
  <1>1. PICK k \in Orders : k = proc[p].order
    BY Works DEF FailOrder, CloseLocal, At
  <1>2. PaymentsTypeOK /\ HandlerOK(p) /\ proc \in [Handlers -> Procs]
    BY Parts DEF PaymentsTypeOK
  <1>3. UNCHANGED <<credits, trade, shown, inbox, config, states, ensures>>
    BY DEF FailOrder, CloseLocal, Outside
  <1>4. /\ order' \in [Orders -> {"absent", "pending", "paid", "failed", "closed"}]
        /\ \A j \in Orders : j # k => order'[j] = order[j]
        /\ \/ order'[k] = order[k]
           \/ order[k] = "pending" /\ order'[k] \in {"failed", "closed"}
    BY <1>1, <1>2 DEF FailOrder, CloseLocal, EndPending, PaymentsTypeOK
  <1>5. /\ proc' \in [Handlers -> Procs] /\ OnlyHandler(p)
        /\ \/ proc'[p] = NoProc
           \/ Moved(p, "record") \/ Moved(p, "verified")
    <2>1. CASE Goto(p, "record")
      BY <1>2, <2>1, GotoMoves DEF Moved, Pcs
    <2>2. CASE Goto(p, "verified")
      BY <1>2, <2>2, GotoMoves DEF Moved, Pcs
    <2>3. CASE LocalError(p)
      BY <1>2, <2>3, ErrorMoves
    <2> QED BY <2>1, <2>2, <2>3 DEF FailOrder, CloseLocal
  <1>6. PaymentsTypeOK'
    BY <1>2, <1>3, <1>4, <1>5 DEF PaymentsTypeOK
  <1>7. OnlyOrder(k)
    BY <1>3, <1>4 DEF OnlyOrder, OrderKept
  <1>8. At(p, "fail") \/ trade[k] \in {"closed", "payerror"}
    BY <1>1, <1>2 DEF FailOrder, CloseLocal, HandlerOK
  <1>9. ~At(p, "insert") /\ ~At(p, "idle")
    BY DEF FailOrder, CloseLocal, At
  <1>10. \/ proc'[p] = NoProc
         \/ /\ proc'[p].order = k /\ proc'[p].task = proc[p].task
            /\ proc'[p].pc \in {"record", "verified"}
    BY <1>1, <1>5 DEF Moved
  <1> QED BY <1>1, <1>3, <1>4, <1>5, <1>6, <1>7, <1>8, <1>9, <1>10, OrderEnds

\* What was seen is applied to the order as it is now.
LEMMA ApplySafe ==
    ASSUME PaymentsInductive, NEW p \in Handlers, Apply(p)
    PROVE  PaymentsInductive'
  <1>1. PICK k \in Orders : k = proc[p].order
    BY Works DEF Apply, At
  <1>2. /\ PaymentsTypeOK /\ HandlerOK(p) /\ OrderOK(k) /\ proc \in [Handlers -> Procs]
        /\ credits[k] \in Nat /\ At(p, "apply")
    BY Parts DEF PaymentsTypeOK, Apply
  <1>3. PICK s \in Trades : s = proc[p].saw
    BY <1>2 DEF Procs
  <1>4. UNCHANGED <<trade, shown, config, states, ensures>>
    BY DEF Apply, Outside
  <1>5. s \in {"success", "closed", "payerror"} => trade[k] = s
    BY <1>1, <1>2, <1>3 DEF HandlerOK
  <1>6. Applied(k, s)
    BY <1>1, <1>3 DEF Apply
  <1>7. /\ order' \in [Orders -> {"absent", "pending", "paid", "failed", "closed"}]
        /\ credits' \in [Orders -> Nat]
        /\ \A j \in Orders : j # k => order'[j] = order[j] /\ credits'[j] = credits[j]
        /\ \/ order'[k] = order[k] /\ credits'[k] = credits[k]
           \/ /\ order[k] = "pending" /\ order'[k] = "paid" /\ credits'[k] = credits[k] + 1
              /\ trade[k] = "success"
           \/ /\ order[k] = "pending" /\ order'[k] \in {"failed", "closed"}
              /\ credits'[k] = credits[k] /\ trade[k] \in {"closed", "payerror"}
    <2>1. CASE s = "success"
      BY <1>2, <1>5, <1>6, <2>1 DEF Applied, CreditPaid, PaymentsTypeOK
    <2>2. CASE s = "closed"
      BY <1>2, <1>5, <1>6, <2>2 DEF Applied, EndPending, PaymentsTypeOK
    <2>3. CASE s = "payerror"
      BY <1>2, <1>5, <1>6, <2>3 DEF Applied, EndPending, PaymentsTypeOK
    <2>4. CASE s \notin {"success", "closed", "payerror"}
      BY <1>2, <1>6, <2>4 DEF Applied, PaymentsTypeOK
    <2> QED BY <2>1, <2>2, <2>3, <2>4
  <1>8. /\ inbox' \in [Orders -> SUBSET Trades] /\ inbox'[k] \subseteq inbox[k]
        /\ \A j \in Orders : j # k => inbox'[j] = inbox[j]
    <2>1. inbox' = inbox \/ inbox' = [inbox EXCEPT ![k] = @ \ {s}]
      BY <1>1, <1>3 DEF Apply
    <2> QED BY <1>2, <2>1 DEF PaymentsTypeOK
  <1>9. /\ proc' \in [Handlers -> Procs] /\ OnlyHandler(p)
        /\ proc'[p] = NoProc \/ Moved(p, "record")
    <2>1. CASE Done(p)
      BY <1>2, <2>1, DoneEnds
    <2>2. CASE Goto(p, "record")
      BY <1>2, <2>2, GotoMoves DEF Moved, Pcs
    <2>3. CASE LocalError(p)
      BY <1>2, <2>3, ErrorMoves
    <2>4. CASE proc' = [proc EXCEPT ![p].pc = "record", ![p].result = "degraded"]
      <3>1. Moved(p, "record")
        BY <1>2, <2>4, ResultMoves DEF Pcs
      <3> QED BY <3>1 DEF Moved
    <2> QED BY <2>1, <2>2, <2>3, <2>4 DEF Apply
  <1>10. PaymentsTypeOK'
    BY <1>2, <1>4, <1>7, <1>8, <1>9 DEF PaymentsTypeOK
  <1>11. OnlyOrder(k)
    BY <1>4, <1>7, <1>8 DEF OnlyOrder, OrderKept
  <1>12. ~At(p, "insert") /\ ~At(p, "idle")
    BY <1>2 DEF At
  <1>13. \/ proc'[p] = NoProc
         \/ /\ proc'[p].order = k /\ proc'[p].task = proc[p].task
            /\ proc'[p].pc \in {"record", "verified"}
    BY <1>1, <1>9 DEF Moved
  <1> QED BY <1>1, <1>4, <1>7, <1>8, <1>9, <1>10, <1>11, <1>12, <1>13, OrderEnds

\* The buyer pays, or the trade ends without a payment.
LEMMA TradeSafe ==
    ASSUME PaymentsInductive, NEW k \in Orders,
           Pay(k) \/ \E state \in {"closed", "payerror"} : TradeEnds(k, state)
    PROVE  PaymentsInductive'
  <1>1. PaymentsTypeOK /\ OrderOK(k)
    BY Parts
  <1>2. PICK s \in {"success", "closed", "payerror"} :
           /\ trade' = [trade EXCEPT ![k] = s]
           /\ inbox' = [inbox EXCEPT ![k] = @ \cup {s}]
           /\ trade[k] = "waiting" \/ (trade[k] = "none" /\ k \in Redirect /\ k \in shown)
           /\ s = "success" => k \in shown
           /\ UNCHANGED <<order, credits, shown, config, states, ensures, proc>>
    BY DEF Pay, TradeEnds, Outside
  <1>3. /\ trade' \in [Orders -> Trades] /\ trade'[k] = s
        /\ \A j \in Orders : j # k => trade'[j] = trade[j]
    BY <1>1, <1>2 DEF PaymentsTypeOK, Trades
  <1>4. inbox[k] = {}
    BY <1>1, <1>2 DEF OrderOK
  <1>5. /\ inbox' \in [Orders -> SUBSET Trades] /\ inbox'[k] = {s}
        /\ \A j \in Orders : j # k => inbox'[j] = inbox[j]
    BY <1>1, <1>2, <1>4 DEF PaymentsTypeOK, Trades
  <1>6. PaymentsTypeOK'
    BY <1>1, <1>2, <1>3, <1>5 DEF PaymentsTypeOK
  <1>7. /\ order[k] \in {"pending", "failed", "closed"}
        /\ s = "success" => order[k] = "pending"
    BY <1>1, <1>2 DEF OrderOK, PaymentsTypeOK
  <1>8. OrderOK(k)'
    BY <1>1, <1>2, <1>3, <1>5, <1>7 DEF OrderOK
  <1>9. ASSUME NEW j \in Orders PROVE OrderOK(j)'
    <2>1. CASE j # k
      <3>1. OrderOK(j) /\ trade'[j] = trade[j] /\ inbox'[j] = inbox[j]
        BY <1>3, <1>5, <2>1, Parts
      <3> QED BY <1>2, <3>1 DEF OrderOK, At, Opening
    <2> QED BY <1>8, <2>1
  <1>10. ASSUME NEW q \in Handlers PROVE HandlerOK(q)'
    <2>1. HandlerOK(q)
      BY Parts
    <2>2. CASE At(q, "idle")
      BY <1>2, <2>1, <2>2 DEF HandlerOK, At
    <2>3. CASE ~At(q, "idle") /\ proc[q].order # k
      <3>1. proc[q].order \in Orders /\ trade'[proc[q].order] = trade[proc[q].order]
        BY <1>3, <2>1, <2>3 DEF HandlerOK
      <3> QED BY <1>2, <2>1, <3>1 DEF HandlerOK, At, Creating
    <2>4. CASE ~At(q, "idle") /\ proc[q].order = k
      <3>1. ~At(q, "precreate")
        BY <1>2, <2>1, <2>4 DEF HandlerOK, At
      <3> QED BY <1>2, <2>1, <2>4, <3>1 DEF HandlerOK, At, Creating
    <2> QED BY <2>2, <2>3, <2>4
  <1>11. \A p, q \in Handlers :
              Creating(p)' /\ Creating(q)' /\ proc'[p].order = proc'[q].order => p = q
    BY <1>2, Parts DEF Creating
  <1> QED BY <1>6, <1>9, <1>10, <1>11, PartsNext

-----------------------------------------------------------------------------
(* The theorems.                                                           *)

\* Nothing has happened yet.
LEMMA PaymentsInitially ==
    ASSUME PaymentsInit
    PROVE  PaymentsInductive
  <1>1. PaymentsTypeOK
    <2>1. NoProc \in Procs
      BY PaymentsAssumption DEF NoProc, Procs, Trades
    <2>2. PICK v \in [Methods -> {0, None}] :
              states = [m \in Methods |->
                  [fingerprint |-> 0, verified |-> v[m], circuit |-> "available"]]
      BY DEF PaymentsInit
    <2>3. states \in [Methods ->
              [fingerprint : 0..MaxConfigs, verified : 0..MaxConfigs \cup {None},
               circuit : {"available", "degraded", "unavailable"}]]
      BY <2>2, PaymentsAssumption
    <2> QED BY <2>1, <2>3, PaymentsAssumption DEF PaymentsInit, PaymentsTypeOK, Trades
  <1>2. ASSUME NEW k \in Orders PROVE OrderOK(k)
    BY PaymentsAssumption DEF PaymentsInit, OrderOK, NoProc
  <1>3. ASSUME NEW p \in Handlers PROVE HandlerOK(p)
    BY DEF PaymentsInit, HandlerOK, NoProc, At
  <1>4. \A p \in Handlers : ~Creating(p)
    BY DEF PaymentsInit, Creating, NoProc
  <1> QED BY <1>1, <1>2, <1>3, <1>4, Parts

\* Every step keeps the invariant.
LEMMA PaymentsStep ==
    ASSUME PaymentsInductive, [PaymentsNext]_payVars
    PROVE  PaymentsInductive'
  <1>1. CASE UNCHANGED payVars
    <2>1. PaymentsTypeOK'
      BY <1>1, Parts DEF payVars, PaymentsTypeOK
    <2> QED BY <1>1, <2>1, Outer DEF payVars
  <1>2. CASE \E m \in Methods :
              \/ ConfigChanges(m)
              \/ \E c \in 0..MaxConfigs : EnsureRead(m, c)
              \/ \E c \in 0..MaxConfigs, others \in BOOLEAN : EnsureWrite(m, c, others)
    BY <1>2, ConfigSafe
  <1>3. CASE \E k \in Orders : Pay(k) \/ \E state \in {"closed", "payerror"} : TradeEnds(k, state)
    BY <1>3, TradeSafe
  <1>4. ASSUME NEW p \in Handlers, HandlerNext(p) PROVE PaymentsInductive'
    BY <1>4, BeginSafe, ReadSafe, InsertSafe, PrecreateSafe, EndSafe, PersistCodeSafe,
       CloseRemoteSafe, QuietSteps, ApplySafe DEF HandlerNext
  <1> QED BY <1>1, <1>2, <1>3, <1>4 DEF PaymentsNext

\* A paid order is credited exactly once and never given up, for any number of
\* orders and handlers that create, notify, query, compensate and try at once.
THEOREM PaymentsSafe == PaymentsSpec => []PaymentsInvariant
  <1>1. PaymentsInit => PaymentsInductive
    BY PaymentsInitially
  <1>2. PaymentsInductive /\ [PaymentsNext]_payVars => PaymentsInductive'
    BY PaymentsStep
  <1>3. PaymentsInductive => PaymentsInvariant
    BY DEF PaymentsInductive
  <1> QED BY <1>1, <1>2, <1>3, PTL DEF PaymentsSpec

\* A step reopens a provider only by a completed trial or by an instance that
\* had found another configuration.
LEMMA ReopenStep ==
    ASSUME PaymentsTypeOK, [PaymentsNext]_payVars, NEW m \in Methods, Reopened(m)
    PROVE  \/ TrialCompleted
           \/ states'[m].fingerprint \in ensures[m] /\ states'[m].verified = None
  <1> USE DEF Reopened
  <1>1. states' # states
    OBVIOUS
  <1>2. ASSUME NEW p \in Handlers, HandlerNext(p) PROVE MarkVerified(p) \/ RecordResult(p)
    BY <1>1, <1>2 DEF HandlerNext, BeginCreate, BeginVerify, SyncBegin, NotifyBegin,
         Insert, Precreate, PrecreateFails, FailOrder, PersistCode, PersistCodeFails,
         CloseRemote, CloseRemoteFails, CloseLocal, EndFails, Query, QueryFails, Apply,
         ApplyFails, Outside
  <1>3. \/ \E p \in Handlers : MarkVerified(p) \/ RecordResult(p)
        \/ \E n \in Methods, c \in 0..MaxConfigs, others \in BOOLEAN :
              EnsureWrite(n, c, others)
    BY <1>1, <1>2 DEF PaymentsNext, payVars, Pay, TradeEnds, ConfigChanges, EnsureRead,
         Outside
  <1>4. ASSUME NEW p \in Handlers, MarkVerified(p)
        PROVE  TrialCompleted
    <2>1. At(p, "verified") /\ Goto(p, "record") /\ proc \in [Handlers -> Procs]
      BY <1>4 DEF MarkVerified, PaymentsTypeOK
    <2>2. Moved(p, "record")
      BY <2>1, GotoMoves DEF Pcs
    <2> QED BY <2>1, <2>2 DEF Moved, TrialCompleted
  <1>5. ASSUME NEW p \in Handlers, RecordResult(p)
        PROVE  states'[m].circuit = "unavailable"
    BY <1>5 DEF RecordResult, PaymentsTypeOK
  <1>6. ASSUME NEW n \in Methods, NEW c \in 0..MaxConfigs, NEW others \in BOOLEAN,
               EnsureWrite(n, c, others)
        PROVE  states'[m].fingerprint \in ensures[m] /\ states'[m].verified = None
    <2>1. m = n
      BY <1>6 DEF EnsureWrite, PaymentsTypeOK
    <2> QED BY <1>6, <2>1 DEF EnsureWrite, PaymentsTypeOK
  <1> QED BY <1>3, <1>4, <1>5, <1>6

\* A result that arrives late does not reopen a provider that rejected the
\* credentials.
THEOREM UnavailableHolds == PaymentsSpec => UnavailableStays
  <1>1. PaymentsInvariant /\ [PaymentsNext]_payVars =>
            [\A m \in Methods : Reopened(m) =>
                \/ TrialCompleted
                \/ states'[m].fingerprint \in ensures[m] /\ states'[m].verified = None]_payVars
    BY ReopenStep DEF PaymentsInvariant
  <1> QED BY <1>1, PaymentsSafe, PTL DEF PaymentsSpec, UnavailableStays
=============================================================================
