--------------------------- MODULE ProviderHealth ---------------------------
(***************************************************************************)
(* The health of one upstream account: provider_health.rs of               *)
(* keycompute-routing, the health columns of models/account.rs, and the    *)
(* probe of handlers/admin_account.rs.                                     *)
(*                                                                         *)
(* Every replica keeps a mirror of the account's row.  The results of      *)
(* requests and probes change the mirror at once and are queued; one       *)
(* worker per replica writes them to the row, fenced by the row's          *)
(* generation.  Probes, resets and configuration changes raise the         *)
(* generation.  Replicas and database read one clock.                      *)
(***************************************************************************)
EXTENDS Naturals, Sequences, SequencesExt

CONSTANTS
    Replicas,
    None,
    QuarantineAfter,  \* 3 consecutive failures
    MaxPending,       \* MAX_PENDING_ACCOUNT_HEALTH_EVENTS, 1024
    Tick,             \* distance of two readings of the clock, in microseconds
    MaxTime,          \* bound: the last reading
    MaxResults,       \* bound: results of requests
    MaxProbes,        \* bound: probes
    MaxResets,        \* bound: administrator resets
    MaxConfigs,       \* bound: changes of the upstream configuration
    MaxFaults,        \* bound: failed statements and crashed replicas
    Deletable         \* whether the account is ever deleted

Statuses == {"unknown", "healthy", "degraded", "unhealthy"}

Verdicts == {"success", "soft", "hard"}

Configs == 1..MaxConfigs + 1

\* A result that the row's counters count: the request or probe with this id.
Results ==
    [by : Replicas, id : Nat, at : 0..MaxTime, config : Configs]

\* AccountHealth.  counts stands for success_count and failure_count; config 0
\* is a mirror that was never hydrated.
Healths ==
    [status : Statuses, fails : Nat, updated : Nat, gen : Nat,
     config : {0} \cup Configs, counts : SUBSET Results]

\* PendingAccountHealthEvent: snapshot and expected are those of a probe.
Events ==
    [result : Results, verdict : Verdicts, config : {0} \cup Configs,
     gen : Nat, expected : Nat, snapshot : Healths \cup {None}]

Idle == [step |-> "idle"]

Jobs ==
    {Idle}
    \cup [step : {"reload"}, event : Events]
    \cup [step : {"reconcile"}, event : Events, found : Healths \cup {None}]
    \cup [step : {"reset"}, boundary : Nat]
    \cup [step : {"fence"}, boundary : Nat, found : Healths \cup {None}]

Probes ==
    {None}
    \cup [step : {"running"}, config : Configs, updated : Nat, gen : Nat]
    \cup [step : {"save"}, event : Events]

Bounds == [results |-> MaxResults, probes |-> MaxProbes, resets |-> MaxResets,
           configs |-> MaxConfigs, faults |-> MaxFaults]

ASSUME HealthAssumption ==
    /\ {QuarantineAfter, MaxPending, Tick} \subseteq Nat \ {0}
    /\ {MaxTime, MaxResults, MaxProbes, MaxResets, MaxConfigs, MaxFaults}
           \subseteq Nat
    /\ Deletable \in BOOLEAN
    /\ None \notin Healths

VARIABLES
    row,      \* the account's row, None once deleted
    now,      \* the clock
    local,    \* account_health_map
    tracked,  \* tracked_account_ids
    pending,  \* pending_account_health
    nextId,   \* next_health_event_id
    loaded,   \* the row as read from the database, not hydrated yet
    routed,   \* configurations that requests in flight were started with
    job,      \* what the holder of persistence_lock is doing
    probe,    \* the probe in progress
    deleter,  \* the replica that deleted the row and has yet to forget it
    resetAt,  \* history: when the row was reset last
    used      \* how much of each bound is used

healthVars == <<row, now, local, tracked, pending, nextId, loaded, routed, job,
                probe, deleter, resetAt, used>>

Use(what) ==
    used[what] < Bounds[what] /\ used' = [used EXCEPT ![what] = @ + 1]

Later(a, b) == IF a > b THEN a ELSE b

-----------------------------------------------------------------------------
(* One health snapshot *)

New(config, at) ==
    [status |-> "unknown", fails |-> 0, updated |-> at, gen |-> 0,
     config |-> config, counts |-> {}]

\* mark_success_at and mark_failure_at.
Marked(h, verdict, result) ==
    LET fails == IF verdict = "success" THEN 0 ELSE h.fails + 1
    IN  [h EXCEPT
            !.fails = fails,
            !.status = CASE verdict = "success" -> "healthy"
                         [] verdict = "hard" \/ fails >= QuarantineAfter ->
                                "unhealthy"
                         [] OTHER -> "degraded",
            !.counts = @ \cup {result}]

\* A runtime result moves the version past both the event and what it found.
Merged(h, verdict, result) ==
    [Marked(h, verdict, result) EXCEPT !.updated = Later(@, result.at) + 1]

\* A probe starts the next generation.
Probed(h, verdict, result) ==
    [Marked(h, verdict, result) EXCEPT !.updated = Later(@, result.at),
                                       !.gen = @ + 1]

Newer(h, other) ==
    h.updated > other.updated \/ (h.updated = other.updated /\ h.gen > other.gen)

OtherConfig(h, found) == h.config # 0 /\ h.config # found.config

\* hydrate_account_health
Hydrated(mirror, found) ==
    IF mirror = None \/ OtherConfig(mirror, found) \/ Newer(found, mirror)
        THEN found ELSE mirror

\* account_health_for: what routing goes by.
View(i) ==
    IF local[i] # None /\ ~Newer(row, local[i]) /\ ~OtherConfig(local[i], row)
        THEN local[i] ELSE row

-----------------------------------------------------------------------------
(* The queue *)

IsProbe(e) == e.snapshot # None

\* Mutant: the queue's limit is never enforced.
EnqueueMutant(queue, e) == Append(queue, e)

\* enqueue_account_event: a full queue gives up its first runtime event.
Enqueue(queue, e) ==
    LET runtime == {n \in DOMAIN queue : ~IsProbe(queue[n])}
        first == CHOOSE n \in runtime : \A m \in runtime : n <= m
    IN  IF Len(queue) < MaxPending THEN Append(queue, e)
        ELSE IF runtime = {} THEN queue
        ELSE Append(RemoveAt(queue, first), e)

InFront(queue, e) == queue # <<>> /\ Head(queue).result.id = e.result.id

\* remove_pending_event
WithoutFront(queue, e) == IF InFront(queue, e) THEN Tail(queue) ELSE queue

\* Mutant: the event keeps the generation that was refused.
RebasedMutant(queue, e, gen) == queue

\* rebase_pending_runtime_event
Rebased(queue, e, gen) ==
    IF InFront(queue, e) THEN [queue EXCEPT ![1].gen = gen] ELSE queue

\* remove_pending_events_before_id and remove_pending_events_before.
Fenced(queue, boundary, cutoff) ==
    LET Kept(e) == e.result.id >= boundary /\ e.result.at >= cutoff
        first[n \in 0..Len(queue)] ==  \* of the first n events, those kept
            IF n = 0 THEN <<>>
            ELSE IF Kept(queue[n]) THEN Append(first[n - 1], queue[n])
            ELSE first[n - 1]
    IN  first[Len(queue)]

-----------------------------------------------------------------------------
(* The row *)

\* Whether the statement for an event finds its row.
Applies(e) ==
    /\ row # None
    /\ row.gen = e.gen
    /\ IsProbe(e) => row.config = e.config /\ row.updated = e.expected

\* Mutant: a probe does not start a generation.
StoredMutant(e) ==
    IF IsProbe(e)
        THEN [e.snapshot EXCEPT !.updated = Later(row.updated, e.result.at),
                                !.gen = row.gen, !.config = row.config]
        ELSE Merged(row, e.verdict, e.result)

\* record_runtime_success, record_runtime_failure and
\* record_probe_snapshot_if_config_current.
Stored(e) ==
    IF IsProbe(e)
        THEN [e.snapshot EXCEPT !.updated = Later(row.updated, e.result.at),
                                !.gen = row.gen + 1, !.config = row.config]
        ELSE Merged(row, e.verdict, e.result)

\* reset_health_snapshot
ResetRow ==
    [New(row.config, Later(row.updated, now) + 1) EXCEPT !.gen = row.gen + 1]

-----------------------------------------------------------------------------

HealthInit ==
    /\ row = New(1, 0)
    /\ now = 0
    /\ local = [i \in Replicas |-> None]
    /\ tracked = [i \in Replicas |-> FALSE]
    /\ pending = [i \in Replicas |-> <<>>]
    /\ nextId = [i \in Replicas |-> 0]
    /\ loaded = [i \in Replicas |-> None]
    /\ routed = [i \in Replicas |-> {}]
    /\ job = [i \in Replicas |-> Idle]
    /\ probe = [i \in Replicas |-> None]
    /\ deleter = None
    /\ resetAt = 0
    /\ used = [b \in DOMAIN Bounds |-> 0]

PassTime ==
    /\ now + Tick <= MaxTime
    /\ now' = now + Tick
    /\ UNCHANGED <<row, local, tracked, pending, nextId, loaded, routed, job,
                   probe, resetAt, used, deleter>>

\* A request or a probe reads the account.
Load(i) ==
    /\ row # None /\ loaded[i] = None
    /\ loaded' = [loaded EXCEPT ![i] = row]
    /\ UNCHANGED <<row, now, local, tracked, pending, nextId, routed, job,
                   probe, resetAt, used, deleter>>

Hydrate(i) ==
    /\ loaded[i] # None
    /\ local' = [local EXCEPT ![i] = Hydrated(@, loaded[i])]
    /\ tracked' = [tracked EXCEPT ![i] = TRUE]
    /\ loaded' = [loaded EXCEPT ![i] = None]

\* select_best_accounts: requests start with the configuration just read.
Route(i) ==
    /\ Hydrate(i)
    /\ routed' = [routed EXCEPT ![i] = @ \cup {loaded[i].config}]
    /\ UNCHANGED <<row, now, pending, nextId, job, probe, resetAt, used,
                   deleter>>

\* record_account_success and record_account_failure, for a request that was
\* started with configuration c.
RecordResult(i, c, verdict) ==
    LET mirror == IF local[i] = None THEN New(0, now) ELSE local[i]
        result == [by |-> i, id |-> nextId[i], at |-> now, config |-> c]
    IN  /\ c \in routed[i] /\ tracked[i]
        /\ Use("results")
        /\ local' = [local EXCEPT ![i] = Merged(mirror, verdict, result)]
        /\ pending' = [pending EXCEPT ![i] =
               Enqueue(@, [result |-> result, verdict |-> verdict,
                           config |-> mirror.config, gen |-> mirror.gen,
                           expected |-> 0, snapshot |-> None])]
        /\ nextId' = [nextId EXCEPT ![i] = @ + 1]
        /\ UNCHANGED <<row, now, tracked, loaded, routed, job, probe, resetAt,
                       deleter>>

-----------------------------------------------------------------------------
(* Probes *)

StartProbe(i) ==
    /\ probe[i] = None
    /\ Use("probes")
    /\ Hydrate(i)
    /\ probe' = [probe EXCEPT ![i] =
           [step |-> "running", config |-> loaded[i].config,
            updated |-> local'[i].updated, gen |-> local'[i].gen]]
    /\ UNCHANGED <<row, now, pending, nextId, routed, job, resetAt, deleter>>

\* record_account_probe_if_current_and_enqueue
RecordProbe(i, verdict) ==
    LET p == probe[i]
        result == [by |-> i, id |-> nextId[i], at |-> now, config |-> p.config]
        snapshot == Probed(local[i], verdict, result)
        event == [result |-> result, verdict |-> verdict, config |-> p.config,
                  gen |-> p.gen, expected |-> p.updated, snapshot |-> snapshot]
    IN  /\ p # None /\ p.step = "running"
        /\ local[i] # None
        /\ local[i].updated = p.updated /\ local[i].gen = p.gen
        /\ local' = [local EXCEPT ![i] = snapshot]
        /\ pending' = [pending EXCEPT ![i] = Enqueue(@, event)]
        /\ nextId' = [nextId EXCEPT ![i] = @ + 1]
        /\ probe' = [probe EXCEPT ![i] = [step |-> "save", event |-> event]]
        /\ UNCHANGED <<row, now, tracked, loaded, routed, job, resetAt, used,
                       deleter>>

\* The mirror moved on while the probe ran: only its telemetry is written.
DiscardProbe(i) ==
    /\ probe[i] # None /\ probe[i].step = "running"
    /\ local[i] # None =>
           local[i].updated # probe[i].updated \/ local[i].gen # probe[i].gen
    /\ probe' = [probe EXCEPT ![i] = None]
    /\ UNCHANGED <<row, now, local, tracked, pending, nextId, loaded, routed,
                   job, resetAt, used, deleter>>

\* discard_account_health_override_if_current
WithoutSnapshot(mirror, e) ==
    IF mirror # None /\ mirror.updated = e.snapshot.updated THEN None ELSE mirror

\* persist_probe_outcome writes the snapshot itself as well.
SaveProbe(i) ==
    LET e == probe[i].event
    IN  /\ probe[i] # None /\ probe[i].step = "save"
        /\ IF Applies(e)
               THEN row' = Stored(e) /\ UNCHANGED local
               ELSE /\ local' = [local EXCEPT ![i] = WithoutSnapshot(@, e)]
                    /\ UNCHANGED row
        /\ probe' = [probe EXCEPT ![i] = None]
        /\ UNCHANGED <<now, tracked, pending, nextId, loaded, routed, job,
                       resetAt, used, deleter>>

\* The statement failed, before or after it took effect.
SaveProbeFails(i) ==
    LET e == probe[i].event
    IN  /\ probe[i] # None /\ probe[i].step = "save"
        /\ Use("faults")
        /\ row' \in {row} \cup (IF Applies(e) THEN {Stored(e)} ELSE {})
        /\ probe' = [probe EXCEPT ![i] = None]
        /\ UNCHANGED <<now, local, tracked, pending, nextId, loaded, routed,
                       job, resetAt, deleter>>

-----------------------------------------------------------------------------
(* The persistence worker, which holds persistence_lock for one event *)

\* The event is in the row.
Persist(i) ==
    LET e == Head(pending[i])
    IN  /\ job[i] = Idle /\ pending[i] # <<>> /\ Applies(e)
        /\ row' = Stored(e)
        /\ pending' = [pending EXCEPT ![i] = Tail(@)]
        /\ UNCHANGED <<now, local, tracked, nextId, loaded, routed, job,
                       probe, resetAt, used, deleter>>

PersistFails(i) ==
    LET e == Head(pending[i])
    IN  /\ job[i] = Idle /\ pending[i] # <<>>
        /\ Use("faults")
        /\ row' \in {row} \cup (IF Applies(e) THEN {Stored(e)} ELSE {})
        /\ UNCHANGED <<now, local, tracked, pending, nextId, loaded, routed,
                       job, probe, resetAt, deleter>>

\* A probe that lost its place is dropped.
DropProbe(i) ==
    LET e == Head(pending[i])
    IN  /\ job[i] = Idle /\ pending[i] # <<>> /\ ~Applies(e) /\ IsProbe(e)
        /\ local' = [local EXCEPT ![i] = WithoutSnapshot(@, e)]
        /\ pending' = [pending EXCEPT ![i] = Tail(@)]
        /\ UNCHANGED <<row, now, tracked, nextId, loaded, routed, job, probe,
                       resetAt, used, deleter>>

\* A runtime event that lost its place is compared with the row.
Conflict(i) ==
    LET e == Head(pending[i])
    IN  /\ job[i] = Idle /\ pending[i] # <<>> /\ ~Applies(e) /\ ~IsProbe(e)
        /\ job' = [job EXCEPT ![i] = [step |-> "reload", event |-> e]]
        /\ UNCHANGED <<row, now, local, tracked, pending, nextId, loaded,
                       routed, probe, resetAt, used, deleter>>

Reload(i) ==
    /\ job[i].step = "reload"
    /\ job' = [job EXCEPT ![i] =
           [step |-> "reconcile", event |-> @.event, found |-> row]]
    /\ UNCHANGED <<row, now, local, tracked, pending, nextId, loaded, routed,
                   probe, resetAt, used, deleter>>

ReloadFails(i) ==
    /\ job[i].step = "reload"
    /\ Use("faults")
    /\ job' = [job EXCEPT ![i] = Idle]
    /\ UNCHANGED <<row, now, local, tracked, pending, nextId, loaded, routed,
                   probe, resetAt, deleter>>

\* runtime_event_configuration_is_stale
StaleConfig(e, found) == e.config # 0 /\ e.config # found.config

\* Mutant: every event of another generation is rebased.
StaleTimeMutant(e, found) == FALSE

\* The event happened before the probe, reset or configuration change.
StaleTime(e, found) == e.result.at <= found.updated

\* rebase_local_account_health_generation
AtLeastGen(mirror, gen) ==
    IF mirror = None THEN None ELSE [mirror EXCEPT !.gen = Later(@, gen)]

\* reconcile_stale_account_health
ReconciledStale(mirror, found) ==
    IF mirror # None /\ mirror.updated <= found.updated
        THEN None ELSE AtLeastGen(mirror, found.gen)

\* The account was deleted.
ReconcileDeleted(i) ==
    /\ job[i].step = "reconcile" /\ job[i].found = None
    /\ local' = [local EXCEPT ![i] = None]
    /\ tracked' = [tracked EXCEPT ![i] = FALSE]
    /\ pending' = [pending EXCEPT ![i] = WithoutFront(@, job[i].event)]
    /\ job' = [job EXCEPT ![i] = Idle]
    /\ UNCHANGED <<row, now, nextId, loaded, routed, probe, resetAt, used,
                   deleter>>

Reconcile(i) ==
    LET e == job[i].event
        found == job[i].found
        drop == WithoutFront(pending[i], e)
    IN  /\ job[i].step = "reconcile" /\ found # None
        /\ \/ /\ StaleConfig(e, found)
              /\ local' = [local EXCEPT ![i] = found]
              /\ pending' = [pending EXCEPT ![i] = drop]
           \/ /\ ~StaleConfig(e, found) /\ StaleTime(e, found)
              /\ local' = [local EXCEPT ![i] = ReconciledStale(@, found)]
              /\ pending' = [pending EXCEPT ![i] = drop]
           \/ /\ ~StaleConfig(e, found) /\ ~StaleTime(e, found)
              /\ pending' = [pending EXCEPT ![i] = Rebased(@, e, found.gen)]
              /\ local' = IF InFront(pending[i], e)
                              THEN [local EXCEPT ![i] = AtLeastGen(@, found.gen)]
                              ELSE local
        /\ job' = [job EXCEPT ![i] = Idle]
        /\ UNCHANGED <<row, now, tracked, nextId, loaded, routed, probe,
                       resetAt, used, deleter>>

-----------------------------------------------------------------------------
(* The administrator *)

\* reset_all_account_health, for this account, takes persistence_lock ...
StartReset(i) ==
    /\ job[i] = Idle
    /\ Use("resets")
    /\ job' = [job EXCEPT ![i] = [step |-> "reset", boundary |-> nextId[i]]]
    /\ UNCHANGED <<row, now, local, tracked, pending, nextId, loaded, routed,
                   probe, resetAt, deleter>>

\* ... resets the row ...
ResetHealth(i) ==
    /\ job[i].step = "reset"
    /\ row' = IF row = None THEN None ELSE ResetRow
    /\ resetAt' = now
    /\ job' = [job EXCEPT ![i] =
           [step |-> "fence", boundary |-> @.boundary, found |-> row']]
    /\ UNCHANGED <<now, local, tracked, pending, nextId, loaded, routed,
                   probe, used, deleter>>

ResetFails(i) ==
    /\ job[i].step = "reset"
    /\ Use("faults")
    /\ \/ UNCHANGED <<row, resetAt>>
       \/ row # None /\ row' = ResetRow /\ resetAt' = now
    /\ job' = [job EXCEPT ![i] = Idle]
    /\ UNCHANGED <<now, local, tracked, pending, nextId, loaded, routed,
                   probe, deleter>>

\* ... and fences the queue, also of an account that was deleted meanwhile.
FenceQueue(i) ==
    LET found == job[i].found
    IN  /\ job[i].step = "fence"
        /\ local' = [local EXCEPT ![i] = found]
        /\ tracked' = [tracked EXCEPT ![i] = found # None]
        /\ pending' = [pending EXCEPT ![i] =
               Fenced(@, job[i].boundary,
                      IF found = None THEN resetAt ELSE found.updated)]
        /\ job' = [job EXCEPT ![i] = Idle]
        /\ UNCHANGED <<row, now, nextId, loaded, routed, probe, resetAt, used,
                       deleter>>

\* Account::update with another endpoint, key, model list or capability list.
ChangeConfig ==
    /\ row # None
    /\ Use("configs")
    /\ row' = [row EXCEPT !.updated = Later(@, now) + 1, !.gen = @ + 1,
                          !.config = @ + 1]
    /\ UNCHANGED <<now, local, tracked, pending, nextId, loaded, routed, job,
                   probe, resetAt, deleter>>

\* The row is deleted ...
Delete(i) ==
    /\ Deletable /\ row # None
    /\ row' = None
    /\ deleter' = i
    /\ UNCHANGED <<now, local, tracked, pending, nextId, loaded, routed, job,
                   probe, resetAt, used>>

\* ... and forget_account_health drops what the replica knows.
Forget(i) ==
    /\ deleter = i
    /\ deleter' = None
    /\ local' = [local EXCEPT ![i] = None]
    /\ tracked' = [tracked EXCEPT ![i] = FALSE]
    /\ pending' = [pending EXCEPT ![i] = <<>>]
    /\ UNCHANGED <<row, now, nextId, loaded, routed, job, probe, resetAt,
                   used>>

\* The process of a replica ends and starts anew.  Ids start from 0 again in
\* the code; they stay distinct here because counts names results by them.
Crash(i) ==
    /\ Use("faults")
    /\ local' = [local EXCEPT ![i] = None]
    /\ tracked' = [tracked EXCEPT ![i] = FALSE]
    /\ pending' = [pending EXCEPT ![i] = <<>>]
    /\ loaded' = [loaded EXCEPT ![i] = None]
    /\ routed' = [routed EXCEPT ![i] = {}]
    /\ job' = [job EXCEPT ![i] = Idle]
    /\ probe' = [probe EXCEPT ![i] = None]
    /\ deleter' = IF deleter = i THEN None ELSE deleter
    /\ UNCHANGED <<row, now, nextId, resetAt>>

-----------------------------------------------------------------------------

WorkerStep(i) ==
    \/ Persist(i) \/ DropProbe(i) \/ Conflict(i)
    \/ Reload(i) \/ Reconcile(i) \/ ReconcileDeleted(i)
    \/ ResetHealth(i) \/ FenceQueue(i)

HealthNext ==
    \/ PassTime
    \/ ChangeConfig
    \/ \E i \in Replicas :
          \/ Load(i) \/ Route(i)
          \/ \E c \in routed[i], v \in Verdicts : RecordResult(i, c, v)
          \/ StartProbe(i) \/ DiscardProbe(i) \/ SaveProbe(i)
          \/ SaveProbeFails(i)
          \/ \E v \in Verdicts : RecordProbe(i, v)
          \/ WorkerStep(i)
          \/ PersistFails(i) \/ ReloadFails(i)
          \/ StartReset(i) \/ ResetFails(i)
          \/ Delete(i) \/ Forget(i) \/ Crash(i)

HealthSpec == HealthInit /\ [][HealthNext]_healthVars

\* Faults are bounded, so the database answers again; the worker's loop and the
\* reset that holds its lock go on.
HealthFairSpec ==
    HealthSpec /\ \A i \in Replicas : WF_healthVars(WorkerStep(i))
-----------------------------------------------------------------------------
(* Properties *)

\* Type correctness.
HealthTypeOK ==
    /\ row \in Healths \cup {None}
    /\ now \in 0..MaxTime
    /\ local \in [Replicas -> Healths \cup {None}]
    /\ tracked \in [Replicas -> BOOLEAN]
    /\ \A i \in Replicas :
          pending[i] \in Seq(Events) /\ Len(pending[i]) <= MaxPending
    /\ nextId \in [Replicas -> Nat]
    /\ loaded \in [Replicas -> Healths \cup {None}]
    /\ routed \in [Replicas -> SUBSET Configs]
    /\ job \in [Replicas -> Jobs]
    /\ probe \in [Replicas -> Probes]
    /\ deleter \in Replicas \cup {None}
    /\ resetAt \in 0..MaxTime
    /\ \A b \in DOMAIN Bounds : used[b] \in 0..Bounds[b]

\* An administrator's reset is final: no request or probe that ended before it
\* is counted after it, whichever replica queued, rebased or retried it.
ResetIsFinal ==
    row # None => \A r \in row.counts : r.at >= resetAt

\* A reset is final for the results of requests.  A probe, which gives its
\* replica's mirror a generation that the row does not have yet, undoes that:
\* ResetIsFinal does not hold.
ResetForgets == used["probes"] = 0 => ResetIsFinal

\* Queues keep their bound and a reset holds.
HealthInvariant == HealthTypeOK /\ ResetForgets

\* Nothing is on its way from the replica to the row.
Quiet(i) ==
    /\ row # None /\ pending[i] = <<>> /\ job[i] = Idle
    /\ probe[i] # None => probe[i].step = "running"

\* With one replica, an account quarantined in the row for its consecutive
\* failures is not routed to once the queue is written.
QuarantineHolds ==
    \A i \in Replicas :
        Quiet(i) /\ row.fails >= QuarantineAfter => View(i).status = "unhealthy"

\* A probe is stored once: the queued copy of a snapshot that was written
\* directly, or whose write reported an error after taking effect, does nothing.
ProbeCountsOnce ==
    [][\A i \in Replicas :
          \A e \in ToSet(pending[i]) :
              IsProbe(e) /\ row # None /\ e.result \in row.counts
                  => row' # Stored(e)]_healthVars

\* No statement takes a result out of the row's counters, except a reset.
CountersKept ==
    [][row # None /\ row' # None =>
           row.counts \subseteq row'.counts \/ row'.counts = {}]_healthVars

\* A request is counted only while the configuration it was started with is
\* the row's.
OldConfigNotCounted ==
    [][row # None /\ row' # None =>
           \A r \in row'.counts \ row.counts : r.config = row.config]_healthVars

\* The queue of a replica is written or dropped: no event stays in it because
\* its generation has passed.
QueueDrains ==
    \A i \in Replicas : []<>(pending[i] = <<>>)
=============================================================================
