---------------------------- MODULE NodeGateway ----------------------------
(***************************************************************************)
(* The node gateway as a request meets it: the durable rows of NodeTasks,  *)
(* the Redis lists that carry queue hints and result notifications, the    *)
(* worker poll that pops a hint before it claims the row, the sweeper that *)
(* pushes lost hints again, and the request that waits for its task        *)
(* (node-gateway/src/service.rs, sweeper.rs and redis.rs).                 *)
(*                                                                         *)
(* Redis is changed only after the database transaction committed, by a    *)
(* call that may fail or never be made because the process died.  Such a   *)
(* call is an element of pending: a later step performs or loses it.       *)
(*                                                                         *)
(* Nodes start online with valid sessions; of the actions on nodes and     *)
(* sessions only those are taken here that make a node unready and ready   *)
(* again by themselves (the sweeper and the heartbeat).                    *)
(***************************************************************************)
EXTENDS NodeTasks

CONSTANT Home       \* [Sessions -> Nodes]: the node of each session

ASSUME HomeAssumption == Home \in [Sessions -> Nodes]

VARIABLES
    queue,          \* copies of the task's hint in its model's Redis list
    notified,       \* the task's result list holds a notification
    pending,        \* Redis calls that follow a committed transaction
    poll,           \* what each session's long poll is doing
    waiter          \* what the request that created the task is doing

redisVars == <<queue, notified, pending>>
callVars == <<poll, waiter>>
gatewayVars == <<vars, redisVars, callVars>>

\* push: LPUSH. repush: LREM of every copy, then LPUSH. remove: LREM.
\* notify: the result notification. converge: the LREM that precedes the
\* rejection of a queued task whose authority is stale; reject: the rejection.
EffectKinds == {"push", "repush", "remove", "notify", "converge", "reject"}

Effects(t, kinds) == [task : {t}, kind : kinds]

GatewayTypeOK ==
    /\ TypeOK
    /\ queue \in [Tasks -> 0 .. 2]
    /\ notified \in [Tasks -> BOOLEAN]
    /\ pending \subseteq [task : Tasks, kind : EffectKinds]
    /\ poll \in [Sessions -> Tasks \cup {"idle", "polling"}]
    /\ waiter \in [Tasks -> {"none", "waiting", "gone", "timeout", "traced",
                             "unknown_status"} \cup Terminal]

GatewayInit ==
    /\ task = [t \in Tasks |-> NoTask]
    /\ clock = [t \in Tasks |-> "open"]
    /\ identity = [t \in Tasks |-> TRUE]
    /\ tenantActive = TRUE
    /\ node = [n \in Nodes |-> [status |-> "online", count |-> 0]]
    /\ session = [s \in Sessions |->
                     [state |-> "valid", node |-> Home[s], accepting |-> TRUE,
                      stop |-> "none", from |-> None, holds |-> {}]]
    /\ grant = [l \in Leases |-> NoGrant]
    /\ submission = [t \in Tasks |-> [l \in Leases |-> NoSubmission]]
    /\ completeTx = [t \in Tasks |-> NoComplete]
    /\ registerTx = NoRegister
    /\ queue = [t \in Tasks |-> 0]
    /\ notified = [t \in Tasks |-> FALSE]
    /\ pending = {}
    /\ poll = [s \in Sessions |-> "idle"]
    /\ waiter = [t \in Tasks |-> "none"]

-----------------------------------------------------------------------------
(* Requests and Redis.                                                     *)

\* A native task's hint goes to a list that no worker pops.
Hinted(t) == ~Native(t)

NativeTasks == {t \in Tasks : Native(t)}

\* enqueue_and_wait, enqueue_native_cancellable_and_wait: the row, then the hint.
Submit(t) ==
    /\ CreateTask(t)
    /\ waiter' = [waiter EXCEPT ![t] = "waiting"]
    /\ pending' = pending \cup (IF Hinted(t) THEN Effects(t, {"push"}) ELSE {})
    /\ UNCHANGED <<queue, notified, poll>>

\* Mutant: a hint is pushed again without taking the old copies off the list.
PerformOnRedisPlainPush(e) ==
    /\ e \in pending /\ e.kind # "reject"
    /\ queue' = [queue EXCEPT ![e.task] =
           CASE e.kind \in {"push", "repush"} -> @ + 1
             [] e.kind \in {"remove", "converge"} -> 0
             [] OTHER -> @]
    /\ notified' = [notified EXCEPT ![e.task] = @ \/ e.kind = "notify"]
    /\ pending' = (pending \ {e}) \cup
           (IF e.kind = "converge" THEN Effects(e.task, {"reject"}) ELSE {})
    /\ UNCHANGED <<vars, callVars>>

\* A Redis call arrives.
PerformOnRedis(e) ==
    /\ e \in pending /\ e.kind # "reject"
    /\ queue' = [queue EXCEPT ![e.task] =
           CASE e.kind = "push" -> @ + 1
             [] e.kind = "repush" -> 1
             [] e.kind \in {"remove", "converge"} -> 0
             [] OTHER -> @]
    /\ notified' = [notified EXCEPT ![e.task] = @ \/ e.kind = "notify"]
    /\ pending' = (pending \ {e}) \cup
           (IF e.kind = "converge" THEN Effects(e.task, {"reject"}) ELSE {})
    /\ UNCHANGED <<vars, callVars>>

\* Redis refuses the call, or the process died before it made it.
LoseEffect(e) ==
    /\ e \in pending
    /\ pending' = pending \ {e}
    /\ UNCHANGED <<vars, queue, notified, callVars>>

\* Mutant: the waiter is woken whether or not the row was rejected.
PerformRejectAlwaysNotifies(t) ==
    /\ Effects(t, {"reject"}) \subseteq pending
    /\ RejectInvalid(t) \/ UNCHANGED vars
    /\ pending' = (pending \ Effects(t, {"reject"})) \cup Effects(t, {"notify"})
    /\ UNCHANGED <<queue, notified, callVars>>

\* The second half of converge_invalid_queued_task, after its LREM.
PerformReject(t) ==
    /\ Effects(t, {"reject"}) \subseteq pending
    /\ \/ /\ RejectInvalid(t)
          /\ pending' = (pending \ Effects(t, {"reject"}))
                            \cup Effects(t, {"notify"})
       \/ /\ task[t].status # "queued" \/ AuthorityActive(t)
          /\ pending' = (pending \ Effects(t, {"reject"})) \cup
                 (IF task[t].outcome = "authority_invalid"
                    THEN Effects(t, {"notify"}) ELSE {})
          /\ UNCHANGED vars
    /\ UNCHANGED <<queue, notified, callVars>>

\* What converge_invalid_queued_task sets out to do with the row it reads.
ConvergeEffects(t) ==
    CASE task[t].status = "queued" /\ ~AuthorityActive(t) ->
           Effects(t, {"converge"})
      [] task[t].status = "failed" /\ task[t].outcome = "authority_invalid" ->
           Effects(t, {"remove", "notify"})
      [] OTHER -> {}

-----------------------------------------------------------------------------
(* The worker's poll.                                                      *)

\* poll_task: the node is online and the session takes work, for now.
PollBegin(s) ==
    /\ poll[s] = "idle"
    /\ node[session[s].node].status = "online"
    /\ session[s].state = "valid" /\ session[s].accepting
    /\ poll' = [poll EXCEPT ![s] = "polling"]
    /\ UNCHANGED <<vars, redisVars, waiter>>

\* BRPOP takes the hint off the list.
PollPop(s, t) ==
    /\ poll[s] = "polling"
    /\ queue[t] > 0 /\ t \in Serves[s]
    /\ poll' = [poll EXCEPT ![s] = t]
    /\ queue' = [queue EXCEPT ![t] = @ - 1]
    /\ UNCHANGED <<vars, notified, pending, waiter>>

PollClaim(s, t, l) ==
    /\ poll[s] = t
    /\ Claim(t, s, l)
    /\ poll' = [poll EXCEPT ![s] = "idle"]
    /\ UNCHANGED <<redisVars, waiter>>

\* The claim finds nothing to take: the hint is dropped.
PollMiss(s, t) ==
    /\ poll[s] = t
    /\ ~Claimable(t, s)
    /\ pending' = pending \cup ConvergeEffects(t)
    /\ poll' = [poll EXCEPT ![s] = "polling"]
    /\ UNCHANGED <<vars, queue, notified, waiter>>

\* claim_next_native_task scans the table and needs no hint.
PollNative(s, t, l) ==
    /\ poll[s] = "polling"
    /\ Native(t)
    /\ Claim(t, s, l)
    /\ poll' = [poll EXCEPT ![s] = "idle"]
    /\ pending' = pending \cup Effects(t, {"remove"})
    /\ UNCHANGED <<queue, notified, waiter>>

\* The poll times out, or it dies with the hint it popped.
PollEnd(s) ==
    /\ poll[s] # "idle"
    /\ poll' = [poll EXCEPT ![s] = "idle"]
    /\ UNCHANGED <<vars, redisVars, waiter>>

-----------------------------------------------------------------------------
(* Completions and the sweeper.                                            *)

\* Mutant: the waiter is woken by every completion.
CompletionEffectsAlwaysNotify(t, action) ==
    Effects(t, (IF action = "requeued" THEN {"repush"} ELSE {"remove"})
                   \cup {"notify"})

\* The Redis calls complete_task makes for the action it answers.
CompletionEffects(t, action) ==
    Effects(t, IF action = "requeued" THEN {"repush"} ELSE {"remove", "notify"})

FinishTask(t) ==
    /\ CompleteCommit(t)
    /\ pending' = pending \cup CompletionEffects(t, ActionOf(t, completeTx[t]))
    /\ UNCHANGED <<queue, notified, callVars>>

\* A worker that did not see the answer sends its result again: the saved
\* answer is returned and its Redis calls are made again, however old it is.
ReplayAnswer(t, l) ==
    /\ ~RowLocked(t)
    /\ submission[t][l] # NoSubmission
    /\ pending' = pending \cup CompletionEffects(t, submission[t][l].action)
    /\ UNCHANGED <<vars, queue, notified, callVars>>

\* Mutant: the sweeper relies on the hints that were pushed.
SweepEffectsNoRepush(t, young) ==
    CASE ExpiredTask(t) # task[t] -> Effects(t, {"remove", "notify"})
      [] task[t].status = "queued" /\ ~Overdue(t) /\ ~AuthorityActive(t) ->
           Effects(t, {"converge"})
      [] OTHER -> {}

Queued(t) == task[t].status = "queued"

\* The Redis calls a sweep makes after its transaction: young tasks were
\* queued less than the repush interval ago.
SweepEffects(t, young) ==
    CASE ExpiredTask(t) # task[t] -> Effects(t, {"remove", "notify"})
      [] task[t].status = "queued" /\ ~Overdue(t) /\ ~AuthorityActive(t) ->
           Effects(t, {"converge"})
      [] /\ task[t].status = "queued" /\ ~Overdue(t) /\ AuthorityActive(t)
         /\ t \notin young /\ Hinted(t) ->
           Effects(t, {"repush"})
      [] OTHER -> {}

SweepCycle(silent, young) ==
    /\ Sweep(silent)
    /\ pending' = pending \cup UNION {SweepEffects(t, young) : t \in Tasks}
    /\ UNCHANGED <<queue, notified, callVars>>

-----------------------------------------------------------------------------
(* The waiting request.                                                    *)

\* decode_chat_task_result: a row that has not ended is an unknown status.
Decoded(t) ==
    IF task[t].status \in Terminal THEN task[t].status ELSE "unknown_status"

\* wait_for_result pops the notification. A chat request reads its result
\* now; a native one goes round its loop and queries the row.
WaiterNotified(t) ==
    /\ waiter[t] = "waiting" /\ notified[t]
    /\ notified' = [notified EXCEPT ![t] = FALSE]
    /\ waiter' = [waiter EXCEPT ![t] = IF Native(t) THEN @ ELSE Decoded(t)]
    /\ UNCHANGED <<vars, queue, pending, poll>>

\* The fallback: converge, then look at the row.
WaiterPoll(t) ==
    /\ waiter[t] = "waiting"
    /\ pending' = pending \cup ConvergeEffects(t)
    /\ waiter' = [waiter EXCEPT ![t] =
                     IF task[t].status \in Terminal THEN task[t].status ELSE @]
    /\ UNCHANGED <<vars, queue, notified, poll>>

\* Mutant: a request whose task is leased waits on for the worker.
WaiterTimeoutQueuedOnly(t) ==
    /\ waiter[t] = "waiting" /\ Overdue(t) /\ Kind[t] # "managed"
    /\ ~RowLocked(t) /\ task[t].status # "leased"
    /\ waiter' = [waiter EXCEPT ![t] = "timeout"]
    /\ UNCHANGED <<vars, redisVars, poll>>

\* Mutant: finish_wait_timeout_trace reads the row without locking it.
WaiterTimeoutUnlocked(t) ==
    /\ waiter[t] = "waiting" /\ Overdue(t) /\ Kind[t] # "managed"
    /\ waiter' = [waiter EXCEPT ![t] =
                     IF task[t].status = "leased" THEN "traced" ELSE "timeout"]
    /\ UNCHANGED <<vars, redisVars, poll>>

\* The wait began after deadline_at was computed and lasts as long, so it
\* ends past the deadline. finish_wait_timeout_trace locks the row and, if a
\* lease is under way, records the attempt and the request as timed out.
WaiterTimeout(t) ==
    /\ waiter[t] = "waiting" /\ Overdue(t) /\ Kind[t] # "managed"
    /\ ~RowLocked(t)
    /\ waiter' = [waiter EXCEPT ![t] =
                     IF task[t].status = "leased" THEN "traced" ELSE "timeout"]
    /\ UNCHANGED <<vars, redisVars, poll>>

\* Mutant: only a task that no worker holds yet is interrupted.
ManagedGivesUpQueuedOnly(t) ==
    /\ waiter[t] = "waiting" /\ Kind[t] = "managed"
    /\ \/ task[t].status = "queued" /\ InterruptManaged(t)
       \/ task[t].status \in Terminal /\ UNCHANGED vars
    /\ waiter' = [waiter EXCEPT ![t] =
           IF task[t].outcome \in Answers \cup {"http_error"}
             THEN task[t].status ELSE "gone"]
    /\ pending' = pending \cup Effects(t, {"remove"})
    /\ UNCHANGED <<queue, notified, poll>>

\* A managed request that disconnects or reaches its deadline interrupts the
\* task and looks once more: a completion that committed before still counts.
ManagedGivesUp(t) ==
    /\ waiter[t] = "waiting" /\ Kind[t] = "managed"
    /\ \/ InterruptManaged(t)
       \/ task[t].status \in Terminal /\ UNCHANGED vars
    /\ waiter' = [waiter EXCEPT ![t] =
           IF task[t].outcome \in Answers \cup {"http_error"}
             THEN task[t].status ELSE "gone"]
    /\ pending' = pending \cup Effects(t, {"remove"})
    /\ UNCHANGED <<queue, notified, poll>>

\* The process dies, or the interruption or the last query fails.
WaiterGone(t) ==
    /\ waiter[t] = "waiting"
    /\ waiter' = [waiter EXCEPT ![t] = "gone"]
    /\ UNCHANGED <<vars, redisVars, poll>>

-----------------------------------------------------------------------------

\* Steps of NodeTasks that make no Redis call.
Quietly(action) == action /\ UNCHANGED <<redisVars, callVars>>

CompleteEnds(t) == FinishTask(t) \/ Quietly(CompleteAbort(t))

RequestStep(t) ==
    \/ Submit(t)
    \/ WaiterNotified(t)
    \/ WaiterPoll(t)
    \/ WaiterTimeout(t)
    \/ ManagedGivesUp(t)
    \/ WaiterGone(t)

WorkerStep(s) ==
    \/ PollBegin(s)
    \/ \E t \in Tasks : PollPop(s, t)
    \/ \E t \in Tasks, l \in Leases : PollClaim(s, t, l)
    \/ \E t \in Tasks : PollMiss(s, t)
    \/ \E t \in Tasks, l \in Leases : PollNative(s, t, l)
    \/ PollEnd(s)
    \/ \E t \in Tasks, l \in Leases, r \in Results :
           Quietly(CompleteBegin(t, l, s, r))
    \/ Quietly(Heartbeat(s))

RowStep(t) ==
    \/ CompleteEnds(t)
    \/ \E l \in Leases : ReplayAnswer(t, l)
    \/ PerformReject(t)
    \/ Quietly(CancelTask(t))
    \/ Quietly(RevokeIdentity(t))
    \/ Quietly(DeadlinePasses(t))
    \/ Quietly(GracePasses(t))

GatewayNext ==
    \/ \E t \in Tasks : RequestStep(t) \/ RowStep(t)
    \/ \E s \in Sessions : WorkerStep(s)
    \/ \E e \in pending : PerformOnRedis(e) \/ LoseEffect(e)
    \/ \E silent \in SUBSET Nodes, young \in SUBSET {t \in Tasks : Queued(t)} :
           SweepCycle(silent, young)

GatewaySpec == GatewayInit /\ [][GatewayNext]_gatewayVars

\* Time passes, and a transaction ends. A clock moves twice at most, so that
\* the clocks of all tasks move on though one fairness condition covers them.
TimePasses ==
    /\ WF_gatewayVars(\E t \in Tasks :
           Quietly(DeadlinePasses(t)) \/ Quietly(GracePasses(t)))
    /\ WF_gatewayVars(\E t \in Tasks : CompleteEnds(t))

\* The sweeper runs.
SweeperRuns == WF_gatewayVars(SweepCycle({}, {}))

\* The process of the request lives and its timer fires.
WaitersRun ==
    WF_gatewayVars(\E t \in Tasks :
        WaiterTimeout(t) \/ (Overdue(t) /\ ManagedGivesUp(t)))

\* A call to Redis that is made again and again gets through some time, and
\* workers poll, and not every poll dies with what it popped.
WorkersPoll ==
    /\ \A t \in Tasks \ NativeTasks : \A e \in Effects(t, {"repush"}) :
           SF_gatewayVars(PerformOnRedis(e))
    /\ \A s \in Sessions :
           /\ WF_gatewayVars(PollBegin(s))
           /\ \A t \in Tasks \ NativeTasks :
                  /\ SF_gatewayVars(PollPop(s, t))
                  /\ SF_gatewayVars(\E l \in Leases : PollClaim(s, t, l))
                  /\ WF_gatewayVars(PollMiss(s, t))

-----------------------------------------------------------------------------
(* Properties.                                                             *)

\* A result notification is sent only for a task that has ended, so that a
\* waiter it wakes never decodes a row that is still queued or leased: not
\* even when it is the answer to a result sent again, or follows a rejection
\* that another actor made.
NotifiedTasksEnded ==
    \A t \in Tasks :
        \/ notified[t]
        \/ Effects(t, {"notify"}) \subseteq pending
        \/ waiter[t] = "unknown_status"
        => task[t].status \in Terminal

\* What a request was told is what its task ended with, though results may
\* still arrive for it.
WaiterToldOutcome ==
    \A t \in Tasks :
        waiter[t] \in Terminal => task[t].status = waiter[t]

\* "Without this lock, a successful completion at the deadline can commit
\* between our stale status check and the timeout trace write"
\* (finish_wait_timeout_trace): an attempt traced as timed out never succeeds.
TimeoutTraceTrue ==
    \A t \in Tasks : waiter[t] = "traced" => task[t].status # "succeeded"

\* What Redis, the request and its trace say of a task agrees with its row,
\* although every call to Redis may be late, lost or repeated.
AnswersAreTrue ==
    /\ GatewayTypeOK
    /\ NotifiedTasksEnded
    /\ WaiterToldOutcome
    /\ TimeoutTraceTrue

\* Every task ends if only the sweeper runs: its worker, its waiter and Redis
\* may all have died.
TasksEnd ==
    TimePasses /\ SweeperRuns =>
        []<>(\A t \in Tasks : task[t] = NoTask \/ task[t].status \in Terminal)

\* Every request whose process lives ends, though no result, no notification
\* and no sweep may ever come.
RequestsAnswered ==
    TimePasses /\ WaitersRun => []<>(\A t \in Tasks : waiter[t] # "waiting")

\* A queued task reaches a worker that stays online, although any push of its
\* hint may be lost and any poll may die with the hint it popped: "Redis
\* failure does not matter, the sweeper pushes it again" (enqueue_and_wait).
LostHintsRecovered ==
    /\ SweeperRuns /\ WorkersPoll
    /\ <>[](\A n \in Nodes : node[n].status = "online")
    => []<>(\A t \in Tasks \ NativeTasks :
                ~Queued(t) \/ Overdue(t) \/ ~AuthorityActive(t))
=============================================================================
