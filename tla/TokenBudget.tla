---------------------------- MODULE TokenBudget -----------------------------
(***************************************************************************)
(* The tokens-per-minute budget of one key: the in-memory TokenRecordCache *)
(* of lib.rs in keycompute-ratelimit, and the requests that use it through *)
(* GenerationTpmReservation in handlers/mod.rs of keycompute-server.       *)
(*                                                                         *)
(* A request reserves its prediction, a heartbeat task renews it, and the  *)
(* settlement replaces it by the usage.  A request may have several        *)
(* attempts: each reserves under its own id and all settle under one       *)
(* terminal id.  Every call of the limiter is atomic (a mutex, or a Redis  *)
(* script); calls of different tasks come in any order.  Times are counted *)
(* from now: left to an expiry, age since an occurrence.                   *)
(***************************************************************************)
EXTENDS Naturals, FiniteSetsExt

CONSTANTS
    Attempts,      \* attempts, each with its reservation id
    Terminal,      \* the terminal id of each attempt
    Predicted,     \* predicted_tokens of each attempt
    Usages,        \* bound: what an attempt may use
    None,
    Limit,
    Window,
    MaxFaults      \* bound: failed calls and crashes of the server

Ids == Attempts \cup {Terminal[r] : r \in Attempts}

\* TokenRecord, its expiry counted from now.
Records ==
    [kind : {"reserved", "terminal"}, tokens : Nat, left : 0..Window]

ASSUME TokenAssumption ==
    /\ IsFiniteSet(Attempts)
    /\ Predicted \in [Attempts -> Nat] /\ Usages \subseteq Nat
    /\ Limit \in Nat /\ Window \in Nat \ {0} /\ MaxFaults \in Nat
    /\ None \notin Ids \cup Usages \cup Records

VARIABLES
    records,      \* TokenRecordCache.records
    expirations,  \* the heap: pairs of an expiry and an id
    total,        \* total_tokens
    phase,        \* of the attempt's reservation guard
    beat,         \* the heartbeat task
    cancelled,    \* heartbeat_cancel
    stopped,      \* tpm_reservation_heartbeat_stop
    usage,        \* what the attempt used, once known
    age,          \* since the attempt's occurred_at
    charged,      \* history: how often the attempt's usage is in this window
    faults

cacheVars == <<records, expirations, total>>
guardVars == <<phase, beat, cancelled, stopped, usage, age, charged>>
tokenVars == <<cacheVars, guardVars, faults>>

Fault == faults < MaxFaults /\ faults' = faults + 1

Rec(kind, tokens, left) == [kind |-> kind, tokens |-> tokens, left |-> left]

Minus(a, b) == IF a >= b THEN a - b ELSE 0

-----------------------------------------------------------------------------
(* TokenRecordCache: operators from a cache [records, expirations, total] to *)
(* the cache after the call                                                  *)

Cache == [records |-> records, expirations |-> expirations, total |-> total]

KindIn(c, id) == IF c.records[id] = None THEN "none" ELSE c.records[id].kind

Weight(c, S) ==
    LET Tokens(id) == IF c.records[id] = None THEN 0 ELSE c.records[id].tokens
    IN  MapThenSumSet(Tokens, S)

Remove(c, S) ==
    [c EXCEPT !.records = [id \in Ids |-> IF id \in S THEN None ELSE @[id]],
              !.total = Minus(@, Weight(c, S))]

\* Mutant: an overtaken expiry removes the renewed record.
PruneMutant(c) ==
    LET due == {x \in c.expirations : x[1] = 0}
    IN  [Remove(c, {x[2] : x \in due}) EXCEPT !.expirations = @ \ due]

\* prune: the heap may hold expiries that a renewal has overtaken.
Prune(c) ==
    LET due == {x \in c.expirations : x[1] = 0}
        expired == {id \in {x[2] : x \in due} :
                       c.records[id] # None /\ c.records[id].left = 0}
    IN  [Remove(c, expired) EXCEPT !.expirations = @ \ due]

\* Mutant: the expiry is not pushed.
InsertMutant(c, id, kind, n, left) ==
    LET d == Remove(c, {id})
    IN  [d EXCEPT !.records[id] = Rec(kind, n, left), !.total = @ + n]

\* insert_record
Insert(c, id, kind, n, left) ==
    LET d == Remove(c, {id})
    IN  [records |-> [d.records EXCEPT ![id] = Rec(kind, n, left)],
         expirations |-> d.expirations \cup {<<left, id>>},
         total |-> d.total + n]

\* reserve
ReserveFits(c, r) ==
    /\ KindIn(c, Terminal[r]) # "terminal"
    /\ \/ c.records[r] = None /\ c.total + Predicted[r] <= Limit
       \/ KindIn(c, r) = "reserved" /\ c.records[r].tokens = Predicted[r]

Reserved(c, r) ==
    IF c.records[r] = None
        THEN Insert(c, r, "reserved", Predicted[r], Window) ELSE c

\* renew: whether the reservation is there and still open, and its renewal.
Renewable(c, r) ==
    /\ KindIn(c, Terminal[r]) # "terminal"
    /\ KindIn(c, r) = "reserved" /\ c.records[r].tokens = Predicted[r]

\* Mutants: the renewal counts the tokens again, or forgets the heap.
RenewedTwice(c, r) ==
    [c EXCEPT !.records[r].left = Window,
              !.expirations = @ \cup {<<Window, r>>},
              !.total = @ + Predicted[r]]

RenewedMutant(c, r) == [c EXCEPT !.records[r].left = Window]

Renewed(c, r) ==
    [c EXCEPT !.records[r].left = Window,
              !.expirations = @ \cup {<<Window, r>>}]

\* renew with restore_missing
Restorable(c, r) ==
    KindIn(c, Terminal[r]) # "terminal" /\ c.records[r] = None

Restored(c, r) == Insert(c, r, "reserved", Predicted[r], Window)

\* release
Released(c, r) == IF KindIn(c, r) = "reserved" THEN Remove(c, {r}) ELSE c

\* Mutant: usage older than the window is entered too.
EntersMutant(c, r, a) == Released(c, r).records[Terminal[r]] = None

\* reconcile_at: whether the usage is entered, and the cache after the call.
Enters(c, r, a) ==
    Released(c, r).records[Terminal[r]] = None /\ a < Window

Reconciled(c, r, n, a) ==
    IF Enters(c, r, a)
        THEN Insert(Released(c, r), Terminal[r], "terminal", n, Window - a)
        ELSE Released(c, r)

Becomes(c) ==
    /\ records' = c.records
    /\ expirations' = c.expirations
    /\ total' = c.total

-----------------------------------------------------------------------------

TokenInit ==
    /\ records = [id \in Ids |-> None]
    /\ expirations = {}
    /\ total = 0
    /\ phase = [r \in Attempts |-> "new"]
    /\ beat = [r \in Attempts |-> "off"]
    /\ cancelled = [r \in Attempts |-> FALSE]
    /\ stopped = [r \in Attempts |-> FALSE]
    /\ usage = [r \in Attempts |-> None]
    /\ age = [r \in Attempts |-> 0]
    /\ charged = [r \in Attempts |-> 0]
    /\ faults = 0

PassTime ==
    /\ records' = [id \in Ids |->
           IF records[id] = None THEN None
           ELSE [records[id] EXCEPT !.left = Minus(@, 1)]]
    /\ expirations' = {<<Minus(x[1], 1), x[2]>> : x \in expirations}
    /\ age' = [r \in Attempts |->
           IF usage[r] = None THEN 0
           ELSE IF age[r] < Window THEN age[r] + 1 ELSE Window]
    /\ UNCHANGED <<total, phase, beat, cancelled, stopped, usage, charged,
                   faults>>

\* get_token_count and cleanup prune.
ReadCount ==
    /\ Becomes(Prune(Cache))
    /\ UNCHANGED <<guardVars, faults>>

-----------------------------------------------------------------------------
(* The guard *)

\* reserve_generation_tpm.  The worker that calls the limiter holds the guard:
\* if it is not admitted, or nobody waits for it any more, the guard is dropped.
Admit(r) ==
    LET c == Prune(Cache)
    IN  /\ phase[r] = "new"
        /\ \/ /\ ReserveFits(c, r)
              /\ Becomes(Reserved(c, r))
              /\ phase' = [phase EXCEPT ![r] = "armed"]
              /\ beat' = [beat EXCEPT ![r] = "wait"]
           \/ /\ ~ReserveFits(c, r)
              /\ Becomes(c)
              /\ phase' = [phase EXCEPT ![r] = "dropped"]
              /\ UNCHANGED beat
        /\ UNCHANGED <<cancelled, stopped, usage, age, charged, faults>>

\* The call fails, before or after it took effect.
AdmitFails(r) ==
    LET c == Prune(Cache)
    IN  /\ phase[r] = "new"
        /\ Fault
        /\ \/ UNCHANGED cacheVars
           \/ ReserveFits(c, r) /\ Becomes(Reserved(c, r))
        /\ phase' = [phase EXCEPT ![r] = "dropped"]
        /\ UNCHANGED <<beat, cancelled, stopped, usage, age, charged>>

\* The request is cancelled, or released and cancelled before the limiter
\* answered: Drop cancels the heartbeat and spawns a release.
DropGuard(r) ==
    /\ phase[r] \in {"armed", "releasing"}
    /\ phase' = [phase EXCEPT ![r] = "dropped"]
    /\ cancelled' = [cancelled EXCEPT ![r] = TRUE]
    /\ UNCHANGED <<cacheVars, beat, stopped, usage, age, charged, faults>>

\* release cancels the heartbeat first.
StartRelease(r) ==
    /\ phase[r] = "armed"
    /\ phase' = [phase EXCEPT ![r] = "releasing"]
    /\ cancelled' = [cancelled EXCEPT ![r] = TRUE]
    /\ UNCHANGED <<cacheVars, beat, stopped, usage, age, charged, faults>>

\* The limiter releases for release, for Drop or for the settlement.
FinishRelease(r) ==
    /\ phase[r] \in {"releasing", "dropped", "freeing"}
    /\ Becomes(Released(Prune(Cache), r))
    /\ phase' = [phase EXCEPT ![r] = "over"]
    /\ UNCHANGED <<beat, cancelled, stopped, usage, age, charged, faults>>

\* After an error release keeps the owner, so that Drop tries again; a dropped
\* guard gives up, and a settlement is left to the outbox.
ReleaseFails(r) ==
    /\ phase[r] \in {"releasing", "dropped", "freeing"}
    /\ Fault
    /\ Becomes(Cache) \/ Becomes(Released(Prune(Cache), r))
    /\ phase' = [phase EXCEPT ![r] =
           CASE @ = "releasing" -> "dropped"
             [] @ = "dropped" -> "over"
             [] @ = "freeing" -> "orphaned"]
    /\ UNCHANGED <<beat, cancelled, stopped, usage, age, charged>>

\* transfer_to_settlement: the heartbeat goes on for the settlement.
Transfer(r, n) ==
    /\ phase[r] = "armed"
    /\ phase' = [phase EXCEPT ![r] = "settling"]
    /\ usage' = [usage EXCEPT ![r] = n]
    /\ UNCHANGED <<cacheVars, beat, cancelled, stopped, age, charged, faults>>

\* record_terminal_token_usage_at, by the settlement or by a replay of it.
Settle(r) ==
    LET c == Prune(Cache)
    IN  /\ \/ phase[r] = "settling"
           \/ phase[r] = "over" /\ usage[r] # None /\ stopped[r]
        /\ Becomes(Reconciled(c, r, usage[r], age[r]))
        /\ charged' = [charged EXCEPT ![r] =
               @ + IF Enters(c, r, age[r]) THEN 1 ELSE 0]
        /\ stopped' = [stopped EXCEPT ![r] = TRUE]
        /\ phase' = [phase EXCEPT ![r] = "over"]
        /\ UNCHANGED <<beat, cancelled, usage, age, faults>>

\* The call fails after it took effect: the heartbeat is not stopped and the
\* settlement is left to the outbox.
SettleFails(r) ==
    LET c == Prune(Cache)
    IN  /\ phase[r] = "settling"
        /\ Fault
        /\ Becomes(Reconciled(c, r, usage[r], age[r]))
        /\ charged' = [charged EXCEPT ![r] =
               @ + IF Enters(c, r, age[r]) THEN 1 ELSE 0]
        /\ phase' = [phase EXCEPT ![r] = "orphaned"]
        /\ UNCHANGED <<beat, cancelled, stopped, usage, age>>

\* release_terminal_token_reservation stops the heartbeat first.
StartFree(r) ==
    /\ phase[r] = "settling"
    /\ stopped' = [stopped EXCEPT ![r] = TRUE]
    /\ phase' = [phase EXCEPT ![r] = "freeing"]
    /\ UNCHANGED <<cacheVars, beat, cancelled, usage, age, charged, faults>>

\* The last clone of the request's context is gone and its settlement is left
\* to the outbox.
Abandon(r) ==
    /\ phase[r] = "settling"
    /\ phase' = [phase EXCEPT ![r] = "orphaned"]
    /\ UNCHANGED <<cacheVars, beat, cancelled, stopped, usage, age, charged,
                   faults>>

\* restore_generation_tpm_lease, by a worker that took over the settlement.  A
\* heartbeat that waits for an abandoned context ends without a call.  When
\* there is nothing to restore, the guard is dropped and its release spawned.
Recover(r) ==
    LET c == Prune(Cache)
    IN  /\ phase[r] = "orphaned" /\ beat[r] \in {"off", "wait"}
        /\ phase' = [phase EXCEPT ![r] = "settling"]
        /\ stopped' = [stopped EXCEPT ![r] = FALSE]
        /\ \/ /\ Restorable(c, r)
              /\ Becomes(Restored(c, r))
              /\ beat' = [beat EXCEPT ![r] = "wait"]
           \/ /\ Renewable(c, r)
              /\ Becomes(Renewed(c, r))
              /\ beat' = [beat EXCEPT ![r] = "wait"]
           \/ /\ ~Restorable(c, r) /\ ~Renewable(c, r)
              /\ Becomes(c)
              /\ beat' = [beat EXCEPT ![r] = "release"]
        /\ UNCHANGED <<cancelled, usage, age, charged, faults>>

\* The call fails, perhaps after the lease was restored: the guard is dropped.
RecoverFails(r) ==
    LET c == Prune(Cache)
    IN  /\ phase[r] = "orphaned" /\ beat[r] \in {"off", "wait"}
        /\ Fault
        /\ \/ UNCHANGED cacheVars
           \/ Restorable(c, r) /\ Becomes(Restored(c, r))
        /\ beat' = [beat EXCEPT ![r] = "release"]
        /\ UNCHANGED <<phase, cancelled, stopped, usage, age, charged>>

\* The server crashes; the limiter is Redis (kept) or its own memory (lost).
\* What had been handed to the settlement is in the outbox.
Crash ==
    /\ Fault
    /\ \/ UNCHANGED <<cacheVars, charged>>
       \/ /\ Becomes([records |-> [id \in Ids |-> None], expirations |-> {},
                      total |-> 0])
          /\ charged' = [r \in Attempts |-> 0]
    /\ phase' = [r \in Attempts |->
           CASE phase[r] \in {"settling", "freeing", "orphaned"} -> "orphaned"
             [] phase[r] = "new" -> "new"
             [] OTHER -> "over"]
    /\ beat' = [r \in Attempts |-> "off"]
    /\ UNCHANGED <<cancelled, stopped, usage, age>>

-----------------------------------------------------------------------------
(* The heartbeat task *)

Stopped(r) == cancelled[r] \/ stopped[r]

\* request_lifetime: the guard or a clone of the context is alive.
Alive(r) == phase[r] \in {"armed", "releasing", "settling", "freeing"}

\* Mutant: without the second release.
StopMutant(r) ==
    /\ beat[r] = "wait" /\ Stopped(r)
    /\ beat' = [beat EXCEPT ![r] = "off"]
    /\ UNCHANGED <<cacheVars, phase, cancelled, stopped, usage, age, charged,
                   faults>>

\* A cancelled heartbeat ends with a release of its own.
Stop(r) ==
    /\ beat[r] = "wait" /\ Stopped(r)
    /\ beat' = [beat EXCEPT ![r] = "release"]
    /\ UNCHANGED <<cacheVars, phase, cancelled, stopped, usage, age, charged,
                   faults>>

\* The interval is over.
Beat(r) ==
    /\ beat[r] = "wait" /\ ~Stopped(r)
    /\ beat' = [beat EXCEPT ![r] = IF Alive(r) THEN "renew" ELSE "off"]
    /\ UNCHANGED <<cacheVars, phase, cancelled, stopped, usage, age, charged,
                   faults>>

\* Mutant: a missing lease is not restored.
RenewLeaseMutant(r) ==
    LET c == Prune(Cache)
    IN  /\ beat[r] = "renew"
        /\ Becomes(IF Renewable(c, r) THEN Renewed(c, r) ELSE c)
        /\ beat' = [beat EXCEPT ![r] = "wait"]
        /\ UNCHANGED <<phase, cancelled, stopped, usage, age, charged, faults>>

RenewLease(r) ==
    LET c == Prune(Cache)
    IN  /\ beat[r] = "renew"
        /\ \/ /\ Renewable(c, r)
              /\ Becomes(Renewed(c, r))
              /\ beat' = [beat EXCEPT ![r] = "wait"]
           \/ /\ ~Renewable(c, r)
              /\ Becomes(c)
              /\ beat' = [beat EXCEPT ![r] = "restore"]
        /\ UNCHANGED <<phase, cancelled, stopped, usage, age, charged, faults>>

RestoreLease(r) ==
    LET c == Prune(Cache)
    IN  /\ beat[r] = "restore"
        /\ \/ /\ Restorable(c, r)
              /\ Becomes(Restored(c, r))
              /\ beat' = [beat EXCEPT ![r] = "wait"]
           \/ /\ Renewable(c, r)
              /\ Becomes(Renewed(c, r))
              /\ beat' = [beat EXCEPT ![r] = "wait"]
           \/ /\ ~Restorable(c, r) /\ ~Renewable(c, r)
              /\ Becomes(c)
              /\ beat' = [beat EXCEPT ![r] = "release"]
        /\ UNCHANGED <<phase, cancelled, stopped, usage, age, charged, faults>>

ReleaseLease(r) ==
    /\ beat[r] = "release"
    /\ Becomes(Released(Prune(Cache), r))
    /\ beat' = [beat EXCEPT ![r] = "off"]
    /\ UNCHANGED <<phase, cancelled, stopped, usage, age, charged, faults>>

\* An error of the limiter: a renewal or restore is tried again at the next
\* beat, a release is not.
LeaseFails(r) ==
    LET c == Prune(Cache)
    IN  /\ beat[r] \in {"renew", "restore", "release"}
        /\ Fault
        /\ \/ UNCHANGED cacheVars
           \/ beat[r] = "restore" /\ Restorable(c, r) /\ Becomes(Restored(c, r))
        /\ beat' = [beat EXCEPT ![r] = IF @ = "release" THEN "off" ELSE "wait"]
        /\ UNCHANGED <<phase, cancelled, stopped, usage, age, charged>>

-----------------------------------------------------------------------------

BeatStep(r) ==
    Stop(r) \/ Beat(r) \/ RenewLease(r) \/ RestoreLease(r) \/ ReleaseLease(r)

TokenNext ==
    \/ PassTime \/ ReadCount \/ Crash
    \/ \E r \in Attempts :
          \/ Admit(r) \/ AdmitFails(r)
          \/ DropGuard(r) \/ StartRelease(r) \/ FinishRelease(r)
          \/ ReleaseFails(r)
          \/ \E n \in Usages : Transfer(r, n)
          \/ Settle(r) \/ SettleFails(r) \/ StartFree(r)
          \/ Abandon(r) \/ Recover(r) \/ RecoverFails(r)
          \/ BeatStep(r) \/ LeaseFails(r)

TokenSpec == TokenInit /\ [][TokenNext]_tokenVars

\* Time passes, tasks that were started go on, and the limiter is read.
TokenFairSpec ==
    /\ TokenSpec
    /\ WF_tokenVars(PassTime) /\ WF_tokenVars(ReadCount)
    /\ \A r \in Attempts :
          WF_tokenVars(BeatStep(r)) /\ WF_tokenVars(FinishRelease(r))

-----------------------------------------------------------------------------
(* Properties *)

\* Type correctness.
TokenTypeOK ==
    /\ records \in [Ids -> Records \cup {None}]
    /\ expirations \subseteq (0..Window) \X Ids
    /\ total \in Nat
    /\ phase \in [Attempts -> {"new", "armed", "releasing", "dropped",
                               "settling", "freeing", "orphaned", "over"}]
    /\ beat \in [Attempts -> {"off", "wait", "renew", "restore", "release"}]
    /\ cancelled \in [Attempts -> BOOLEAN] /\ stopped \in [Attempts -> BOOLEAN]
    /\ usage \in [Attempts -> Usages \cup {None}]
    /\ age \in [Attempts -> 0..Window]
    /\ charged \in [Attempts -> Nat]
    /\ faults \in 0..MaxFaults

\* The running total is the sum of the records, through every renewal,
\* replacement and lazily dropped expiry.
TotalMatches == total = Weight(Cache, Ids)

\* Every record will be pruned: the heap still holds its own expiry.
ExpiryIndexed ==
    \A id \in Ids : records[id] # None => <<records[id].left, id>> \in expirations

\* The usage of an attempt is entered at most once, however often and however
\* late its settlement is replayed.
EnteredOnce == \A r \in Attempts : charged[r] <= 1

\* Nothing is on its way to the limiter for an attempt that ended.
Quiet(r) == phase[r] = "over" /\ beat[r] = "off"

\* In every order of release, cancellation, settlement and heartbeat, an attempt
\* that ended without a fault leaves no reservation.
EndsWithoutReservation ==
    faults = 0 =>
        \A r \in Attempts : Quiet(r) => KindIn(Cache, r) # "reserved"

\* The cache is consistent and counts what its requests reserved and used.
TokenInvariant ==
    /\ TokenTypeOK
    /\ TotalMatches
    /\ ExpiryIndexed
    /\ EnteredOnce
    /\ EndsWithoutReservation

\* A reservation left behind by a fault or a crash expires.
OrphansExpire ==
    \A r \in Attempts : []<>(Quiet(r) => KindIn(Cache, r) # "reserved")

\* While a settlement owns the heartbeat, a reservation that the limiter lost
\* is put back unless the usage is entered.
LostIsRestored ==
    \A r \in Attempts :
        []<>(\/ phase[r] # "settling" \/ beat[r] = "off"
             \/ records[r] # None
             \/ KindIn(Cache, Terminal[r]) = "terminal")

Live == [id \in Ids |->
            IF records[id] = None \/ records[id].left = 0 THEN None
            ELSE records[id]]

Shared ==
    INSTANCE TokenWindow
        WITH live <- Live,
             Tokens <- Usages \cup {Predicted[r] : r \in Attempts}

\* The in-memory cache, with its heap and its running total, does to the live
\* records what the Redis scripts do.
BackendsAgree == Shared!Spec
=============================================================================
