---------------------------- MODULE Settlement -----------------------------
(***************************************************************************)
(* How the usage of a request is charged, metered and shared although the  *)
(* handler may be cancelled, its process may die and every call may fail   *)
(* (handlers/mod.rs, handlers/responses.rs, responses/background.rs and    *)
(* responses/state.rs of keycompute-server, usage_log.rs of                *)
(* keycompute-billing, models/response_affinity.rs of keycompute-db).      *)
(*                                                                         *)
(* An attempt is one run of a handler; it is named by the owner token it   *)
(* draws, and several attempts may serve one billing request (idempotent   *)
(* retries).  When its generation ended the attempt writes a settlement    *)
(* row, the outbox, makes the charges itself and acknowledges the row.     *)
(* Workers claim rows that were left behind under a lease and replay the   *)
(* same effects.  The outbox row is keyed by the billing request.          *)
(***************************************************************************)
EXTENDS Balance

CONSTANTS
    RequestOf,      \* the billing request each attempt serves
    Path,           \* "immediate" or "responses": how an attempt settles
    Workers,        \* settlement workers
    Leases,         \* values of settlement_lease_until
    MaxFaults       \* bound: how many calls fail and processes die in all

\* The columns of a settlement row.
OutboxRows ==
    [of : Owners, amount : Amounts \cup {None}, lease : Leases \cup {None},
     live : BOOLEAN]

ASSUME SettlementAssumption ==
    /\ Owners # {}
    /\ RequestOf \in [Owners -> Requests]
    /\ Path \in [Owners -> {"immediate", "responses"}]
    /\ Workers \cap Owners = {}
    /\ None \notin Workers \cup Leases \cup OutboxRows
    /\ MaxFaults \in Nat

VARIABLES
    outbox,     \* the settlement row of each request, or None
    metered,    \* the requests whose tokens the rate limiter has recorded
    shared,     \* the requests whose distribution and tips are recorded
    job,        \* where each attempt and each worker is
    secured,    \* the requests an outbox row was ever written for
    faults      \* failures so far

settlementVars == <<balanceVars, outbox, metered, shared, job, secured, faults>>

Actors == Owners \cup Workers

NoJob(o) ==
    [pc |-> "idle", of |-> o, amount |-> None, ok |-> TRUE, tpm |-> "todo",
     lease |-> None]

Row(o, amount) == [of |-> o, amount |-> amount, lease |-> None, live |-> FALSE]

\* The billing request an actor works for.
Req(x) == RequestOf[job[x].of]

At(x, pc) == job[x].pc = pc

Goto(x, pc) == job' = [job EXCEPT ![x].pc = pc]

\* A call that fails, or a process that dies: nothing was written.
Fault ==
    /\ faults < MaxFaults
    /\ faults' = faults + 1

\* What the wallet's row and its tables do not see.
Rest == <<outbox, metered, shared, secured>>

-----------------------------------------------------------------------------
(* An attempt up to the end of its generation.                             *)

\* reserve_generation_balance: a detached worker drives the transaction and
\* hands the guard over, so the reservation never lacks an owner.
Begin(o, requested) ==
    /\ At(o, "idle")
    /\ Reserve(RequestOf[o], o, requested)
    /\ Goto(o, "running")
    /\ UNCHANGED <<Rest, faults>>

\* The handler fails before anything was generated or its client goes away:
\* the guard is dropped and its release is scheduled.
Cancel(o) ==
    /\ At(o, "running")
    /\ Goto(o, "dropping")
    /\ UNCHANGED <<balanceVars, Rest, faults>>

ReleaseDropped(o) ==
    /\ At(o, "dropping")
    /\ Goto(o, "gone")
    /\ \/ Release(RequestOf[o], o)
       \/ ~HeldBy(RequestOf[o], o) /\ UNCHANGED balanceVars
    /\ UNCHANGED <<Rest, faults>>

\* The generation ends: settlement owns the reservation from here.
Finish(o, amount) ==
    /\ At(o, "running")
    /\ job' = [job EXCEPT ![o].pc = "persist", ![o].amount = amount]
    /\ UNCHANGED <<balanceVars, Rest, faults>>

\* A background response goes on upstream: a row without a result takes over.
Background(o) ==
    /\ At(o, "running")
    /\ Path[o] = "responses"
    /\ outbox' = [outbox EXCEPT ![RequestOf[o]] = Row(o, None)]
    /\ secured' = secured \cup {RequestOf[o]}
    /\ Goto(o, "gone")
    /\ UNCHANGED <<balanceVars, metered, shared, faults>>

\* The process of an attempt dies.
Crash(o) ==
    /\ ~At(o, "idle") /\ ~At(o, "gone")
    /\ Fault
    /\ Goto(o, "gone")
    /\ UNCHANGED <<balanceVars, Rest>>

-----------------------------------------------------------------------------
(* The attempt settles.  "persist" is the outbox before the effects, and   *)
(* "defer" the one a Responses handler writes after an effect failed.      *)

\* The upsert replaces the settlement and takes the lease off a worker.
Persist(o) ==
    /\ At(o, "persist") \/ At(o, "defer")
    /\ outbox' = [outbox EXCEPT ![RequestOf[o]] = Row(o, job[o].amount)]
    /\ secured' = secured \cup {RequestOf[o]}
    /\ Goto(o, IF At(o, "persist") THEN "save" ELSE "gone")
    /\ UNCHANGED <<balanceVars, metered, shared, faults>>

PersistFails(o) ==
    /\ At(o, "persist") \/ At(o, "defer")
    /\ Fault
    /\ Goto(o, IF At(o, "persist") THEN "save" ELSE "gone")
    /\ UNCHANGED <<balanceVars, Rest>>

\* finalize_and_save of an attempt that fails.  The Responses handler
\* returns, the others still wait for the meter.
SaveFails(o) ==
    /\ At(o, "save")
    /\ Fault
    /\ job' = [job EXCEPT ![o].pc =
                 IF Path[o] = "responses" THEN "gone" ELSE "meter",
               ![o].ok = FALSE]
    /\ UNCHANGED <<balanceVars, Rest>>

\* Immediate settlements bill and meter at the same time (tokio::join);
\* Responses meter what the ledger says, once it is billed.
MayMeter(o) ==
    /\ job[o].tpm = "todo"
    /\ \/ At(o, "meter")
       \/ /\ Path[o] = "immediate"
          /\ job[o].pc \in {"save", "settle", "consume", "share"}

MeterAttempt(o) ==
    /\ MayMeter(o)
    /\ metered' = metered \cup {RequestOf[o]}
    /\ job' = [job EXCEPT ![o].tpm = "ok"]
    /\ UNCHANGED <<balanceVars, outbox, shared, secured, faults>>

MeterAttemptFails(o) ==
    /\ MayMeter(o)
    /\ Fault
    /\ job' = [job EXCEPT ![o].tpm = "failed"]
    /\ UNCHANGED <<balanceVars, Rest>>

\* Mutant: an attempt acknowledges although one of its effects failed.
ConcludeMutant(o) ==
    /\ At(o, "meter")
    /\ job[o].tpm # "todo"
    /\ Goto(o, "ack")
    /\ UNCHANGED <<balanceVars, Rest, faults>>

\* Both are over: acknowledge, leave the rest to the outbox, or defer.
Conclude(o) ==
    /\ At(o, "meter")
    /\ job[o].tpm # "todo"
    /\ Goto(o, IF job[o].ok /\ job[o].tpm = "ok" THEN "ack"
               ELSE IF Path[o] = "responses" THEN "defer" ELSE "gone")
    /\ UNCHANGED <<balanceVars, Rest, faults>>

\* clear_completed_settlements: by billing request, whoever holds a lease.
Acknowledge(o) ==
    /\ At(o, "ack")
    /\ outbox' = [outbox EXCEPT ![RequestOf[o]] = None]
    /\ Goto(o, "gone")
    /\ UNCHANGED <<balanceVars, metered, shared, secured, faults>>

-----------------------------------------------------------------------------
(* The effects, which attempts and workers make alike: save the log, then  *)
(* replay_saved_usage_effects, which tries every effect and reports the    *)
(* first failure.                                                          *)

AfterSave(x) == IF x \in Workers THEN "meter" ELSE "settle"

\* Mutant: a worker clears its row although an effect failed.
AfterEffectsMutant(x, ok) ==
    IF x \in Workers THEN "clear"
    ELSE IF ok \/ Path[x] = "immediate" THEN "meter" ELSE "defer"

AfterEffects(x, ok) ==
    IF x \in Workers THEN IF ok THEN "clear" ELSE "reschedule"
    ELSE IF ok \/ Path[x] = "immediate" THEN "meter" ELSE "defer"

Save(x) ==
    /\ At(x, "save")
    /\ Goto(x, AfterSave(x))
    /\ \/ SaveUsage(Req(x), job[x].amount)
       \/ usage[Req(x)] # None /\ UNCHANGED balanceVars
    /\ UNCHANGED <<Rest, faults>>

\* deduct_balance_if_configured: settle, and if that is not this owner's
\* business any more, consume in a transaction of its own.
Deduct(x) ==
    /\ \/ /\ At(x, "settle")
          /\ \/ Settle(Req(x), job[x].of) /\ Goto(x, "share")
             \/ SettleReplays(Req(x)) /\ Goto(x, "share") /\ UNCHANGED balanceVars
             \/ SettleDefers(Req(x), job[x].of) /\ Goto(x, "consume")
                    /\ UNCHANGED balanceVars
       \/ /\ At(x, "consume")
          /\ Consume(Req(x))
          /\ Goto(x, "share")
    /\ UNCHANGED <<Rest, faults>>

DeductFails(x) ==
    /\ At(x, "settle") \/ At(x, "consume")
    /\ Fault
    /\ job' = [job EXCEPT ![x].pc = "share", ![x].ok = FALSE]
    /\ UNCHANGED <<balanceVars, Rest>>

\* Distribution and node tips, both keyed by the usage log.
Share(x) ==
    /\ At(x, "share")
    /\ shared' = shared \cup {Req(x)}
    /\ Goto(x, AfterEffects(x, job[x].ok))
    /\ UNCHANGED <<balanceVars, outbox, metered, secured, faults>>

ShareFails(x) ==
    /\ At(x, "share")
    /\ Fault
    /\ job' = [job EXCEPT ![x].pc = AfterEffects(x, FALSE), ![x].ok = FALSE]
    /\ UNCHANGED <<balanceVars, Rest>>

-----------------------------------------------------------------------------
(* A settlement worker.  Its lease is the exact settlement_lease_until it  *)
(* wrote, and every later write compares it.                               *)

Held(r) == {l \in Leases : \/ outbox[r] # None /\ outbox[r].lease = l
                           \/ \E w \in Workers : job[w].lease = l}

Fresh(l) == \A r \in Requests : l \notin Held(r)

\* Mutant: the last write of a worker does not compare the lease.
OwnsMutant(w) == outbox[Req(w)] # None

Owns(w) ==
    /\ outbox[Req(w)] # None
    /\ outbox[Req(w)].lease = job[w].lease

\* Mutant: a claim whose lease ran out is not taken over.
ClaimMutant(w, r, l) ==
    /\ At(w, "idle")
    /\ outbox[r] # None
    /\ outbox[r].lease = None
    /\ Fresh(l)
    /\ outbox' = [outbox EXCEPT ![r].lease = l, ![r].live = TRUE]
    /\ job' = [job EXCEPT ![w] =
                 [NoJob(outbox[r].of) EXCEPT !.pc = "fence",
                    !.amount = outbox[r].amount, !.lease = l]]
    /\ UNCHANGED <<balanceVars, metered, shared, secured, faults>>

\* claim_due_settlements_before_for
Claim(w, r, l) ==
    /\ At(w, "idle")
    /\ outbox[r] # None
    /\ outbox[r].lease = None \/ ~outbox[r].live
    /\ Fresh(l)
    /\ outbox' = [outbox EXCEPT ![r].lease = l, ![r].live = TRUE]
    /\ job' = [job EXCEPT ![w] =
                 [NoJob(outbox[r].of) EXCEPT !.pc = "fence",
                    !.amount = outbox[r].amount, !.lease = l]]
    /\ UNCHANGED <<balanceVars, metered, shared, secured, faults>>

Idle(w) == job' = [job EXCEPT ![w] = NoJob(job[w].of)]

\* renew_claimed_settlement: a compare and swap that also needs time left.
Renew(w, l, pc) ==
    /\ Owns(w)
    /\ outbox[Req(w)].live
    /\ Fresh(l)
    /\ outbox' = [outbox EXCEPT ![Req(w)].lease = l]
    /\ job' = [job EXCEPT ![w].lease = l, ![w].pc = pc]

\* The two fences: after the TPM reservation was restored, and between the
\* meter and the money.
Fence(w, l) ==
    /\ \/ At(w, "fence") /\ Renew(w, l, "lookup")
       \/ At(w, "refence") /\ Renew(w, l, "settle")
    /\ UNCHANGED <<balanceVars, metered, shared, secured, faults>>

\* A fence or the maintenance loop finds the claim lost: the worker stops.
Superseded(w) ==
    /\ ~At(w, "idle")
    /\ ~(Owns(w) /\ outbox[Req(w)].live)
    /\ Idle(w)
    /\ UNCHANGED <<balanceVars, Rest, faults>>

\* The maintenance loop renews beside the work, except while the TPM
\* reservation is restored or settled.
Maintain(w, l) ==
    /\ job[w].pc \in {"lookup", "poll", "save", "settle", "consume", "share"}
    /\ Renew(w, l, job[w].pc)
    /\ UNCHANGED <<balanceVars, metered, shared, secured, faults>>

\* The TPM reservation cannot be kept: the claim is given back.
Relinquish(w) ==
    /\ job[w].pc \in {"fence", "lookup", "poll", "save"}
    /\ Fault
    /\ outbox' = IF Owns(w) THEN [outbox EXCEPT ![Req(w)].lease = None]
                 ELSE outbox
    /\ Idle(w)
    /\ UNCHANGED <<balanceVars, metered, shared, secured>>

\* The worker dies, cannot restore the TPM reservation or finds no permit:
\* the claim stays and expires.
Quit(w) ==
    /\ ~At(w, "idle")
    /\ Fault
    /\ Idle(w)
    /\ UNCHANGED <<balanceVars, Rest>>

Lookup(w) ==
    /\ At(w, "lookup")
    /\ Goto(w, IF usage[Req(w)] # None THEN "meter"
               ELSE IF job[w].amount # None THEN "save" ELSE "poll")
    /\ UNCHANGED <<balanceVars, Rest, faults>>

\* Mutant: a response that is still in progress is billed.
PollMutant(w, amount) ==
    /\ At(w, "poll")
    /\ Goto(w, "save")
    /\ UNCHANGED <<balanceVars, Rest, faults>>

\* The upstream answers, or the deadline passed and the usage so far counts.
Poll(w, amount) ==
    /\ At(w, "poll")
    /\ job' = [job EXCEPT ![w].pc = "save", ![w].amount = amount]
    /\ UNCHANGED <<balanceVars, Rest, faults>>

MeterWorker(w) ==
    /\ At(w, "meter")
    /\ metered' = metered \cup {Req(w)}
    /\ Goto(w, "refence")
    /\ UNCHANGED <<balanceVars, outbox, shared, secured, faults>>

\* A lookup, a poll, the save or the meter fails: retry later.
RetryLater(w) ==
    /\ job[w].pc \in {"lookup", "poll", "save", "meter"}
    /\ Fault
    /\ Goto(w, "reschedule")
    /\ UNCHANGED <<balanceVars, Rest>>

\* clear_claimed_settlement and reschedule_claimed_settlement compare the
\* lease but not the time.  A worker that was superseded changes nothing.
Clear(w) ==
    /\ At(w, "clear")
    /\ outbox' = IF Owns(w) THEN [outbox EXCEPT ![Req(w)] = None] ELSE outbox
    /\ Idle(w)
    /\ UNCHANGED <<balanceVars, metered, shared, secured, faults>>

Reschedule(w) ==
    /\ At(w, "reschedule")
    /\ outbox' = IF Owns(w)
                 THEN [outbox EXCEPT ![Req(w)] = Row(job[w].of, job[w].amount)]
                 ELSE outbox
    /\ Idle(w)
    /\ UNCHANGED <<balanceVars, metered, shared, secured, faults>>

\* The lease runs out: under a worker that still works that is a fault.
LeaseExpires(r) ==
    /\ outbox[r] # None
    /\ outbox[r].lease # None
    /\ outbox[r].live
    /\ IF \E w \in Workers : job[w].lease = outbox[r].lease
       THEN Fault ELSE faults' = faults
    /\ outbox' = [outbox EXCEPT ![r].live = FALSE]
    /\ UNCHANGED <<balanceVars, metered, shared, job, secured>>

-----------------------------------------------------------------------------
SettlementInit ==
    /\ BalanceInit
    /\ outbox = [r \in Requests |-> None]
    /\ metered = {}
    /\ shared = {}
    /\ job = [x \in Actors |->
                NoJob(IF x \in Owners THEN x ELSE CHOOSE o \in Owners : TRUE)]
    /\ secured = {}
    /\ faults = 0

AttemptNext(o) ==
    \/ \E requested \in Amounts : Begin(o, requested)
    \/ \E amount \in Amounts : Finish(o, amount)
    \/ Cancel(o)
    \/ ReleaseDropped(o)
    \/ Background(o)
    \/ Crash(o)
    \/ Persist(o)
    \/ PersistFails(o)
    \/ SaveFails(o)
    \/ MeterAttempt(o)
    \/ MeterAttemptFails(o)
    \/ Conclude(o)
    \/ Acknowledge(o)

EffectNext(x) ==
    Save(x) \/ Deduct(x) \/ DeductFails(x) \/ Share(x) \/ ShareFails(x)

WorkerNext(w) ==
    \/ \E r \in Requests, l \in Leases : Claim(w, r, l)
    \/ \E l \in Leases : Fence(w, l)
    \/ \E l \in Leases : Maintain(w, l)
    \/ Superseded(w)
    \/ Relinquish(w)
    \/ Quit(w)
    \/ Lookup(w)
    \/ \E amount \in Amounts : Poll(w, amount)
    \/ MeterWorker(w)
    \/ RetryLater(w)
    \/ Clear(w)
    \/ Reschedule(w)

\* What happens to the wallet meanwhile.
WalletNext ==
    /\ \/ \E amount \in Amounts \ {0} : Credit(amount)
       \/ \E r \in Requests : Lapse(r)
       \/ \E elsewhere \in Amounts : ReclaimExpired(elsewhere)
       \/ \E r \in Requests, o \in Owners : AdminRelease(r, o, TRUE)
    /\ UNCHANGED <<Rest, job, faults>>

SettlementNext ==
    \/ \E o \in Owners : AttemptNext(o)
    \/ \E x \in Actors : EffectNext(x)
    \/ \E w \in Workers : WorkerNext(w)
    \/ \E r \in Requests : LeaseExpires(r)
    \/ WalletNext

SettlementSpec == SettlementInit /\ [][SettlementNext]_settlementVars

-----------------------------------------------------------------------------
(* What settlement promises.                                               *)

Pcs ==
    {"idle", "running", "dropping", "persist", "save", "settle", "consume",
     "share", "meter", "ack", "defer", "gone", "fence", "lookup", "poll",
     "refence", "clear", "reschedule"}

\* Also: only a measured amount is ever saved in the ledger, never the
\* unknown one of a background response that goes on.
SettlementTypeOK ==
    /\ BalanceTypeOK
    /\ outbox \in [Requests -> OutboxRows \cup {None}]
    /\ metered \subseteq Requests
    /\ shared \subseteq Requests
    /\ secured \subseteq Requests
    /\ job \in [Actors -> [pc : Pcs, of : Owners, amount : Amounts \cup {None},
                           ok : BOOLEAN, tpm : {"todo", "ok", "failed"},
                           lease : Leases \cup {None}]]
    /\ \A x \in Actors : At(x, "save") => job[x].amount # None
    /\ faults \in 0..MaxFaults

Settled(r) == spent[r] # None /\ r \in metered /\ r \in shared

\* Once an outbox row was written for a request it is there until all of the
\* request's effects are recorded, whoever made them, whichever attempts and
\* workers failed, and although attempts clear it without holding its lease.
SecuredNeverLost ==
    \A r \in secured : outbox[r] # None \/ Settled(r)

\* An attempt that still generates keeps its reservation: an older attempt of
\* the same request that is dropped, or a worker that settles for it, does
\* not end it.  Only time, an administrator or a newer attempt takes it.
RunningKeepsReservation ==
    \A o \in Owners :
        LET row == resv[RequestOf[o]] IN
        At(o, "running") /\ row.owner = o =>
            \/ row.status \in {"active", "expired"}
            \/ AdministrativelyReleased(row)

\* Whoever fails, nothing that was secured is lost and no attempt loses what it
\* still needs to another attempt or to a worker.
SettlementInvariant ==
    /\ SettlementTypeOK
    /\ SecuredNeverLost
    /\ RunningKeepsReservation

\* The settlement of one attempt is replaced only by the attempt whose
\* settlement is there afterwards, never by a worker that still has an older
\* one in hand.
NewerSettlementKept ==
    [][\A r \in Requests :
          (outbox[r] # None /\ outbox'[r] # None
              /\ outbox'[r].of # outbox[r].of)
            => job'[outbox'[r].of] # job[outbox'[r].of]]_settlementVars

-----------------------------------------------------------------------------
(* Liveness: faults end at some time, some worker runs, clocks go on and   *)
(* the periodic sweep of main.rs reclaims.  Nothing is assumed of attempts.*)
(* The sweep is bound to reclaim only from a user who has reservations in  *)
(* no other tenant: TenantWallets shows what happens if he has.            *)

WorkerStep(w) ==
    \/ \E r \in Requests, l \in Leases : Claim(w, r, l)
    \/ \E l \in Leases : Fence(w, l)
    \/ Superseded(w)
    \/ Lookup(w)
    \/ \E amount \in Amounts : Poll(w, amount)
    \/ Save(w)
    \/ MeterWorker(w)
    \/ Deduct(w)
    \/ Share(w)
    \/ Clear(w)
    \/ Reschedule(w)

SettlementFairness ==
    /\ WF_settlementVars(\E w \in Workers : WorkerStep(w))
    /\ \A r \in Requests : WF_settlementVars(LeaseExpires(r))
    /\ \A r \in Requests : WF_settlementVars(Lapse(r) /\ WalletNext)
    /\ WF_settlementVars(ReclaimExpired(0) /\ WalletNext)

SettlementFairSpec == SettlementSpec /\ SettlementFairness

\* Whatever was secured is charged, metered and shared in the end, and its
\* row goes away, although every attempt may have died.
SettlementsComplete ==
    []<>(\A r \in secured : outbox[r] = None /\ Settled(r))

\* No reservation freezes money for ever, whichever attempts and workers died,
\* if its user has reserved nothing in another tenant.
ReservationsEnd ==
    []<>(\A r \in Requests : resv[r].status # "active")
=============================================================================
