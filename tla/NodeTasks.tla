----------------------------- MODULE NodeTasks -----------------------------
(***************************************************************************)
(* The durable half of the node gateway: the rows of node_tasks, nodes,    *)
(* node_sessions and node_task_submissions, and every Postgres transaction *)
(* that changes them (node-gateway/src/store.rs, sweeper.rs and the models *)
(* node_task.rs, node_control.rs, node_task_control.rs of keycompute-db).  *)
(*                                                                         *)
(* A transaction is one action, except two that read a node row without    *)
(* locking it and write it later: register_node and complete_task.  Those  *)
(* are a Begin and a Commit (or an Abort) with the locks they hold in      *)
(* between: register_node the tenant row, complete_task the task row.      *)
(*                                                                         *)
(* Time is not a number.  A task's clock says where NOW() stands between   *)
(* its deadline_at and its complete_grace_until; a session's state says    *)
(* whether its expires_at is still ahead.                                  *)
(***************************************************************************)
EXTENDS Integers, FiniteSets

CONSTANTS
    Tasks,          \* node_tasks.id
    Nodes,          \* nodes.id
    Sessions,       \* node_sessions.id
    Leases,         \* the UUIDs claim_task draws for lease_id
    Answers,        \* bodies of successful results
    Kind,           \* [Tasks -> {"chat", "native", "managed"}]
    Serves,         \* [Sessions -> SUBSET Tasks]: model and native profile
    TaskThreshold,  \* node_tasks.failure_threshold
    NodeThreshold,  \* nodes.failure_threshold
    None            \* SQL NULL

Kinds == {"chat", "native", "managed"}

Failures == {"failure", "client_failure", "http_error"}

\* What error_json records when no worker reported the outcome.
ServerErrors == {"authority_invalid", "cancelled", "interrupted"}

Results == Answers \cup Failures

ASSUME ConstantsAssumption ==
    /\ Kind \in [Tasks -> Kinds]
    /\ Serves \in [Sessions -> SUBSET Tasks]
    /\ TaskThreshold \in Nat \ {0}
    /\ NodeThreshold \in Nat \ {0}
    /\ None \notin Tasks \cup Nodes \cup Sessions \cup Leases
    /\ None \notin Results \cup ServerErrors
    /\ Answers \cap (Failures \cup ServerErrors) = {}

VARIABLES
    task,           \* node_tasks rows
    clock,          \* NOW() against deadline_at and complete_grace_until
    identity,       \* the dispatch identity of the task is still current
    tenantActive,   \* tenants.status = 'active'
    node,           \* nodes rows
    session,        \* node_sessions rows
    grant,          \* the leases handed to workers so far
    submission,     \* node_task_submissions rows
    completeTx,     \* the complete_task transaction holding the task's row
    registerTx      \* the register_node transaction holding the tenant's row

taskVars == <<task, clock, identity>>
txVars == <<completeTx, registerTx>>
vars == <<task, clock, identity, tenantActive, node, session, grant,
          submission, completeTx, registerTx>>

-----------------------------------------------------------------------------
(* Rows.                                                                   *)

Terminal == {"succeeded", "failed", "expired"}

NoTask == [status |-> "absent", node |-> None, session |-> None,
           lease |-> None, failures |-> 0, outcome |-> None,
           cancelRequested |-> FALSE, archived |-> FALSE]

NoNode == [status |-> "absent", count |-> 0]

NoSession == [state |-> "absent", node |-> None, accepting |-> FALSE,
              stop |-> "none", from |-> None, holds |-> {}]

NoGrant == [task |-> None, session |-> None]

NoSubmission == [session |-> None, result |-> None, action |-> "none"]

NoComplete == [lease |-> None, session |-> None, result |-> None,
               late |-> FALSE, sawExcluded |-> FALSE]

NoRegister == [node |-> None, sawStatus |-> "absent"]

TaskRows ==
    [status : {"absent", "queued", "leased"} \cup Terminal,
     node : Nodes \cup {None}, session : Sessions \cup {None},
     lease : Leases \cup {None}, failures : Nat,
     outcome : Results \cup ServerErrors \cup {None},
     cancelRequested : BOOLEAN, archived : BOOLEAN]

NodeRows ==
    [status : {"absent", "offline", "online", "excluded"}, count : Nat]

\* What made a session stop accepting tasks: a drain, a suspension of its
\* owner while it was valid, or one after it had expired.
Stops == {"none", "drain", "suspension", "expired"}

SessionRows ==
    [state : {"absent", "valid", "expired"}, node : Nodes \cup {None},
     accepting : BOOLEAN, stop : Stops, from : Sessions \cup {None},
     holds : SUBSET Tasks]

Grants == [task : Tasks \cup {None}, session : Sessions \cup {None}]

Submissions ==
    [session : Sessions \cup {None}, result : Results \cup {None},
     action : {"none", "succeeded", "requeued", "failed", "expired"}]

Completions ==
    [lease : Leases \cup {None}, session : Sessions \cup {None},
     result : Results \cup {None}, late : BOOLEAN, sawExcluded : BOOLEAN]

Registrations ==
    [node : Nodes \cup {None}, sawStatus : {"absent", "offline", "online"}]

TypeOK ==
    /\ task \in [Tasks -> TaskRows]
    /\ clock \in [Tasks -> {"open", "late", "closed"}]
    /\ identity \in [Tasks -> BOOLEAN]
    /\ tenantActive \in BOOLEAN
    /\ node \in [Nodes -> NodeRows]
    /\ session \in [Sessions -> SessionRows]
    /\ grant \in [Leases -> Grants]
    /\ submission \in [Tasks -> [Leases -> Submissions]]
    /\ completeTx \in [Tasks -> Completions]
    /\ registerTx \in Registrations

Init ==
    /\ task = [t \in Tasks |-> NoTask]
    /\ clock = [t \in Tasks |-> "open"]
    /\ identity = [t \in Tasks |-> TRUE]
    /\ tenantActive = TRUE
    /\ node = [n \in Nodes |-> NoNode]
    /\ session = [s \in Sessions |-> NoSession]
    /\ grant = [l \in Leases |-> NoGrant]
    /\ submission = [t \in Tasks |-> [l \in Leases |-> NoSubmission]]
    /\ completeTx = [t \in Tasks |-> NoComplete]
    /\ registerTx = NoRegister

-----------------------------------------------------------------------------
(* Locks and predicates the transactions test.                             *)

\* SELECT ... FOR UPDATE on the task row by complete_task.
RowLocked(t) == completeTx[t] # NoComplete

\* The tenant row is locked by register_node until it commits.
TenantFree == registerTx = NoRegister

\* dispatch_identity_is_active: current versions, active tenant and caller.
AuthorityActive(t) == tenantActive /\ identity[t]

Native(t) == Kind[t] # "chat"

Overdue(t) == clock[t] # "open"

LeasedTo(s) == {t \in Tasks : task[t].status = "leased" /\ task[t].session = s}

\* The caller is the assigned node and session, and holds the current lease.
LeaseHeld(t, l, s) == task[t].lease = l /\ task[t].session = s

\* result_matches_payload, for the result variants a worker can send.
ResultMatches(t, r) == r = "http_error" => Native(t)

-----------------------------------------------------------------------------
(* Tasks are created and claimed.                                          *)

\* NodeTask::create, with the identity guard the INSERT trigger enforces.
CreateTask(t) ==
    /\ task[t] = NoTask
    /\ AuthorityActive(t)
    /\ task' = [task EXCEPT ![t] = [@ EXCEPT !.status = "queued"]]
    /\ UNCHANGED <<clock, identity, tenantActive, node, session, grant,
                   submission, txVars>>

\* The WHERE clause of NodeTask::claim and NodeTask::claim_next_native.
Claimable(t, s) ==
    /\ task[t].status = "queued"
    /\ ~task[t].cancelRequested /\ ~task[t].archived
    /\ AuthorityActive(t)
    /\ ~Overdue(t)
    /\ session[s].state = "valid" /\ session[s].accepting
    /\ node[session[s].node].status = "online"
    /\ t \in Serves[s]

\* claim_task and claim_next_native_task: a fresh lease under the tenant lock.
Claim(t, s, l) ==
    /\ TenantFree /\ ~RowLocked(t)
    /\ Claimable(t, s)
    /\ grant[l] = NoGrant
    /\ task' = [task EXCEPT ![t] =
           [@ EXCEPT !.status = "leased", !.node = session[s].node,
                     !.session = s, !.lease = l]]
    /\ grant' = [grant EXCEPT ![l] = [task |-> t, session |-> s]]
    /\ UNCHANGED <<clock, identity, tenantActive, node, session, submission,
                   txVars>>

-----------------------------------------------------------------------------
(* complete_task.  A worker may report any result for any lease it holds   *)
(* or held, late, twice or after its session expired: the HTTP extractor   *)
(* tested the session when the request arrived, the transaction begins     *)
(* when it begins.                                                         *)

\* Decision tree, priority 1: the task is expired, or leased past deadline.
LateCompletion(t) ==
    \/ task[t].status = "expired"
    \/ task[t].status = "leased" /\ Overdue(t)

\* Locks the task, reads the node row without a lock, decides the branch.
\* A call that is refused changes nothing and is no step; neither does one
\* that finds its submission and is answered from it.
CompleteBegin(t, l, s, r) ==
    /\ ~RowLocked(t)
    /\ submission[t][l] = NoSubmission
    /\ LeaseHeld(t, l, s)
    /\ IF LateCompletion(t)
         THEN clock[t] # "closed"
         ELSE task[t].status = "leased" /\ ResultMatches(t, r)
    /\ completeTx' = [completeTx EXCEPT ![t] =
           [lease |-> l, session |-> s, result |-> r,
            late |-> LateCompletion(t),
            sawExcluded |-> node[session[s].node].status = "excluded"]]
    /\ UNCHANGED <<taskVars, tenantActive, node, session, grant, submission,
                   registerTx>>

\* Mutant: a task that reached its threshold is tried once more.
RequeuesOneMore(t, r) ==
    /\ r = "failure"
    /\ ~Native(t)
    /\ task[t].failures + 1 <= TaskThreshold

\* Mutant: a native task is retried on another worker like a chat task.
RequeuesNative(t, r) ==
    /\ r = "failure"
    /\ task[t].failures + 1 < TaskThreshold

\* handle_failed_submission: only a chat task below its threshold goes back.
Requeues(t, r) ==
    /\ r = "failure"
    /\ ~Native(t)
    /\ task[t].failures + 1 < TaskThreshold

\* Mutant: a result that arrives within the grace period is accepted.
ActionOfGraceAccepted(t, tx) ==
    CASE tx.result \in Answers -> "succeeded"
      [] tx.late -> "expired"
      [] ~tx.late /\ Requeues(t, tx.result) -> "requeued"
      [] OTHER -> "failed"

\* The action complete_task records and answers with.
ActionOf(t, tx) ==
    CASE tx.late -> "expired"
      [] ~tx.late /\ tx.result \in Answers -> "succeeded"
      [] ~tx.late /\ Requeues(t, tx.result) -> "requeued"
      [] OTHER -> "failed"

\* Mutant: failure_count counts the attempts that are left.
RequeuedTaskCountsDown(t) ==
    [task[t] EXCEPT !.status = "queued", !.node = None, !.session = None,
                    !.lease = None, !.failures = @ - 1]

RequeuedTask(t) ==
    [task[t] EXCEPT !.status = "queued", !.node = None, !.session = None,
                    !.lease = None, !.failures = @ + 1]

\* Mutant: a late completion is recorded, the leased row left to the sweeper.
CompletedTaskLateIgnored(t, tx) ==
    CASE ActionOf(t, tx) = "requeued" -> RequeuedTask(t)
      [] ActionOf(t, tx) = "expired" -> task[t]
      [] ActionOf(t, tx) = "succeeded" ->
           [task[t] EXCEPT !.status = "succeeded", !.outcome = tx.result]
      [] OTHER -> [task[t] EXCEPT !.status = "failed", !.outcome = tx.result]

\* The task row complete_task writes. NativeSucceeded with status >= 400
\* stores result_json and does not count as a failure of the task.
CompletedTask(t, tx) ==
    CASE ActionOf(t, tx) = "requeued" -> RequeuedTask(t)
      [] ActionOf(t, tx) = "expired" -> [task[t] EXCEPT !.status = "expired"]
      [] ActionOf(t, tx) = "succeeded" ->
           [task[t] EXCEPT !.status = "succeeded", !.outcome = tx.result]
      [] OTHER ->
           [task[t] EXCEPT !.status = "failed", !.outcome = tx.result,
                           !.failures = IF tx.result = "http_error"
                                          THEN @ ELSE @ + 1]

\* The node row: a server-side failure counts and may exclude, a success
\* resets the count unless the node was excluded when it was read.
CompletedNode(n, t, tx) ==
    CASE ~tx.late /\ tx.result = "failure" ->
           [node[n] EXCEPT !.count = @ + 1,
                           !.status = IF node[n].count + 1 >= NodeThreshold
                                        THEN "excluded" ELSE @]
      [] ~tx.late /\ tx.result \in Answers /\ ~tx.sawExcluded ->
           [node[n] EXCEPT !.count = 0]
      [] OTHER -> node[n]

CompleteCommit(t) ==
    /\ RowLocked(t)
    /\ LET tx == completeTx[t]
           n == session[tx.session].node
       IN  /\ task' = [task EXCEPT ![t] = CompletedTask(t, tx)]
           /\ node' = [node EXCEPT ![n] = CompletedNode(n, t, tx)]
           /\ submission' = [submission EXCEPT ![t][tx.lease] =
                  [session |-> tx.session, result |-> tx.result,
                   action |-> ActionOf(t, tx)]]
    /\ completeTx' = [completeTx EXCEPT ![t] = NoComplete]
    /\ UNCHANGED <<clock, identity, tenantActive, session, grant, registerTx>>

\* The transaction is rolled back: crash, lost connection, deadlock victim.
CompleteAbort(t) ==
    /\ RowLocked(t)
    /\ completeTx' = [completeTx EXCEPT ![t] = NoComplete]
    /\ UNCHANGED <<taskVars, tenantActive, node, session, grant, submission,
                   registerTx>>

-----------------------------------------------------------------------------
(* Tasks end without a worker's result.                                    *)

\* reject_invalid_queued_task: the authority of queued work became stale.
RejectInvalid(t) ==
    /\ ~RowLocked(t)
    /\ task[t].status = "queued" /\ ~AuthorityActive(t)
    /\ task' = [task EXCEPT ![t] =
           [@ EXCEPT !.status = "failed", !.outcome = "authority_invalid"]]
    /\ UNCHANGED <<clock, identity, tenantActive, node, session, grant,
                   submission, txVars>>

\* Mutant: the interruption reads the row without locking it.
InterruptManagedUnlocked(t) ==
    /\ Kind[t] = "managed"
    /\ task[t].status \in {"queued", "leased"}
    /\ task' = [task EXCEPT ![t] =
           [@ EXCEPT !.status = "failed", !.outcome = "interrupted"]]
    /\ UNCHANGED <<clock, identity, tenantActive, node, session, grant,
                   submission, txVars>>

\* cancel_native_stream_in_scope for a managed request that disconnected or
\* reached its deadline: a queued or leased task fails.
InterruptManaged(t) ==
    /\ ~RowLocked(t)
    /\ Kind[t] = "managed"
    /\ task[t].status \in {"queued", "leased"}
    /\ task' = [task EXCEPT ![t] =
           [@ EXCEPT !.status = "failed", !.outcome = "interrupted"]]
    /\ UNCHANGED <<clock, identity, tenantActive, node, session, grant,
                   submission, txVars>>

\* change_task, Cancel. A leased task needs a worker that can be cancelled,
\* and stays leased until that worker answers.
CancelTask(t) ==
    /\ ~RowLocked(t) /\ TenantFree
    /\ ~task[t].cancelRequested
    /\ \/ /\ task[t].status = "queued"
          /\ task' = [task EXCEPT ![t] =
                 [@ EXCEPT !.status = "failed", !.outcome = "cancelled",
                           !.cancelRequested = TRUE]]
       \/ /\ task[t].status = "leased" /\ Kind[t] = "managed"
          /\ task' = [task EXCEPT ![t] = [@ EXCEPT !.cancelRequested = TRUE]]
    /\ UNCHANGED <<clock, identity, tenantActive, node, session, grant,
                   submission, txVars>>

\* change_task, Archive.
ArchiveTask(t) ==
    /\ ~RowLocked(t) /\ TenantFree
    /\ task[t].status \in Terminal /\ ~task[t].archived
    /\ task' = [task EXCEPT ![t] = [@ EXCEPT !.archived = TRUE]]
    /\ UNCHANGED <<clock, identity, tenantActive, node, session, grant,
                   submission, txVars>>

\* Mutant: the sweeper takes overdue work from a silent worker and queues it.
ExpiredTaskReclaimed(t) ==
    IF task[t].status \in {"queued", "leased"} /\ Overdue(t)
      THEN [task[t] EXCEPT !.status = "queued", !.node = None,
                           !.session = None, !.lease = None]
      ELSE task[t]

\* Mutant: the sweeper leaves leased tasks to their workers.
ExpiredTaskQueuedOnly(t) ==
    IF task[t].status = "queued" /\ Overdue(t)
      THEN [task[t] EXCEPT !.status = "expired"]
      ELSE task[t]

\* NodeTask::expire_overdue_tasks.
ExpiredTask(t) ==
    IF task[t].status \in {"queued", "leased"} /\ Overdue(t)
      THEN [task[t] EXCEPT !.status = "expired"]
      ELSE task[t]

\* The database phase of one sweeper cycle, under its advisory lock: some
\* online nodes have not sent a heartbeat for the TTL, and every overdue
\* task expires. The UPDATE waits for the row locks of completions.
Sweep(silent) ==
    /\ \A n \in silent : node[n].status = "online"
    /\ \A t \in Tasks : ExpiredTask(t) # task[t] => ~RowLocked(t)
    /\ node' = [n \in Nodes |-> IF n \in silent
                                  THEN [node[n] EXCEPT !.status = "offline"]
                                  ELSE node[n]]
    /\ task' = [t \in Tasks |-> ExpiredTask(t)]
    /\ UNCHANGED <<clock, identity, tenantActive, session, grant, submission,
                   txVars>>

-----------------------------------------------------------------------------
(* Nodes and sessions.                                                     *)

\* register_node up to its last read of the node row, which takes no lock.
RegisterBegin(n) ==
    /\ TenantFree /\ tenantActive
    /\ node[n].status # "excluded"
    /\ registerTx' = [node |-> n, sawStatus |-> node[n].status]
    /\ UNCHANGED <<taskVars, tenantActive, node, session, grant, submission,
                   completeTx>>

\* A node seen offline (or created here) is set online by an unconditional
\* UPDATE; one seen online keeps whatever status it has by now.
RegisteredNode(n, sawStatus) ==
    CASE sawStatus = "absent" -> [status |-> "online", count |-> 0]
      [] sawStatus = "offline" -> [node[n] EXCEPT !.status = "online"]
      [] OTHER -> node[n]

RegisterCommit(s) ==
    /\ ~TenantFree
    /\ session[s] = NoSession
    /\ node' = [node EXCEPT ![registerTx.node] =
                    RegisteredNode(registerTx.node, registerTx.sawStatus)]
    /\ session' = [session EXCEPT ![s] =
           [state |-> "valid", node |-> registerTx.node, accepting |-> TRUE,
            stop |-> "none", from |-> None, holds |-> {}]]
    /\ registerTx' = NoRegister
    /\ UNCHANGED <<taskVars, tenantActive, grant, submission, completeTx>>

RegisterAbort ==
    /\ ~TenantFree
    /\ registerTx' = NoRegister
    /\ UNCHANGED <<taskVars, tenantActive, node, session, grant, submission,
                   completeTx>>

\* heartbeat: renews the session and brings an offline node online. For an
\* excluded node only the session is renewed, which is no step here.
Heartbeat(s) ==
    /\ TenantFree /\ tenantActive
    /\ session[s].state = "valid" /\ session[s].accepting
    /\ node[session[s].node].status = "offline"
    /\ node' = [node EXCEPT ![session[s].node].status = "online"]
    /\ UNCHANGED <<taskVars, tenantActive, session, grant, submission, txVars>>

\* Mutant: a drain leaves expires_at alone.
DrainedSessionNotExtended(s) ==
    [session[s] EXCEPT !.accepting = FALSE, !.stop = "drain"]

\* A session stops taking work; its expires_at is raised to the latest
\* complete_grace_until of the tasks it has leased.
DrainedSession(s) ==
    [session[s] EXCEPT
        !.accepting = FALSE,
        !.stop = "drain",
        !.holds = @ \cup LeasedTo(s),
        !.state = IF \E t \in LeasedTo(s) : clock[t] # "closed"
                    THEN "valid" ELSE @]

SessionsOf(n) == {s \in Sessions : session[s].node = n}

\* negotiate_capabilities: a successor session, or on a retry the one issued
\* before; every other session of the node is drained.
Negotiate(s, succ) ==
    LET n == session[s].node IN
    /\ TenantFree /\ tenantActive
    /\ session[s].state = "valid"
    /\ node[n].status # "excluded"
    /\ \/ session[succ] = NoSession /\ session[s].accepting
       \/ /\ session[succ].from = s
          /\ session[succ].state = "valid" /\ session[succ].accepting
    /\ session' = [x \in Sessions |->
           IF x = succ
             THEN [state |-> "valid", node |-> n, accepting |-> TRUE,
                   stop |-> "none", from |-> s, holds |-> {}]
             ELSE IF x \in SessionsOf(n) THEN DrainedSession(x)
                                         ELSE session[x]]
    /\ UNCHANGED <<taskVars, tenantActive, node, grant, submission, txVars>>

\* change_node, Exclude.
ExcludeNode(n) ==
    /\ TenantFree
    /\ node[n].status \in {"online", "offline"}
    /\ node' = [node EXCEPT ![n].status = "excluded"]
    /\ UNCHANGED <<taskVars, tenantActive, session, grant, submission, txVars>>

\* change_node, Recover.
RecoverNode(n) ==
    /\ TenantFree /\ tenantActive
    /\ node[n] # NoNode
    /\ node' = [node EXCEPT ![n] =
           [status |-> IF \E s \in SessionsOf(n) : /\ session[s].accepting
                                                   /\ session[s].state = "valid"
                         THEN "online" ELSE "offline",
            count |-> 0]]
    /\ UNCHANGED <<taskVars, tenantActive, session, grant, submission, txVars>>

\* change_node, Revoke, and change_token, RevokeToken: exclude and drain.
RevokeNode(n) ==
    /\ TenantFree
    /\ node[n] # NoNode
    /\ node' = [node EXCEPT ![n].status = "excluded"]
    /\ session' = [s \in Sessions |->
           IF s \in SessionsOf(n) /\ session[s].accepting
             THEN DrainedSession(s) ELSE session[s]]
    /\ UNCHANGED <<taskVars, tenantActive, grant, submission, txVars>>

\* change_node, Delete: only a node no task or submission refers to. Its
\* sessions go with it (ON DELETE CASCADE).
DeleteNode(n) ==
    /\ TenantFree
    /\ node[n].status \in {"offline", "excluded"}
    /\ \A t \in Tasks : /\ task[t].node # n
                        /\ \A l \in Leases :
                               submission[t][l].session \notin SessionsOf(n)
    /\ node' = [node EXCEPT ![n] = NoNode]
    /\ session' = [s \in Sessions |->
                      IF s \in SessionsOf(n) THEN NoSession ELSE session[s]]
    /\ UNCHANGED <<taskVars, tenantActive, grant, submission, txVars>>

-----------------------------------------------------------------------------
(* Authority and time.                                                     *)

\* A key is revoked, a role changes, a login token expires. The versions a
\* dispatch identity was issued for never come back.
RevokeIdentity(t) ==
    /\ task[t] # NoTask /\ identity[t]
    /\ identity' = [identity EXCEPT ![t] = FALSE]
    /\ UNCHANGED <<task, clock, tenantActive, node, session, grant,
                   submission, txVars>>

\* Closing a tenant raises its authz_version, so the identities of the tasks
\* that exist stay stale after it is opened again.
SetTenant(active) ==
    /\ TenantFree
    /\ tenantActive # active
    /\ tenantActive' = active
    /\ identity' = [t \in Tasks |-> identity[t] /\ task[t] = NoTask]
    /\ UNCHANGED <<task, clock, node, session, grant, submission, txVars>>

\* A member is suspended or removed, or a user suspended: a trigger stops the
\* sessions of the nodes he owns and leaves their expires_at alone, and the
\* identities of the tasks he sent become stale. Registrations hold the lock
\* this needs. A member who comes back registers his nodes afresh.
SuspendMember(owned, sent) ==
    /\ TenantFree
    /\ \A t \in sent : task[t] # NoTask
    /\ session' = [s \in Sessions |->
           IF session[s].node \in owned /\ session[s].accepting
             THEN [session[s] EXCEPT
                      !.accepting = FALSE,
                      !.stop = IF session[s].state = "valid"
                                 THEN "suspension" ELSE "expired"]
             ELSE session[s]]
    /\ identity' = [t \in Tasks |-> identity[t] /\ t \notin sent]
    /\ UNCHANGED <<task, clock, tenantActive, node, grant, submission, txVars>>

DeadlinePasses(t) ==
    /\ task[t] # NoTask /\ clock[t] = "open"
    /\ clock' = [clock EXCEPT ![t] = "late"]
    /\ UNCHANGED <<task, identity, tenantActive, node, session, grant,
                   submission, txVars>>

GracePasses(t) ==
    /\ clock[t] = "late"
    /\ clock' = [clock EXCEPT ![t] = "closed"]
    /\ UNCHANGED <<task, identity, tenantActive, node, session, grant,
                   submission, txVars>>

\* NOW() reaches expires_at, which a drain put past the grace of the tasks
\* in holds.
SessionExpires(s) ==
    /\ session[s].state = "valid"
    /\ \A t \in session[s].holds : clock[t] = "closed"
    /\ session' = [session EXCEPT ![s].state = "expired"]
    /\ UNCHANGED <<taskVars, tenantActive, node, grant, submission, txVars>>

-----------------------------------------------------------------------------

TaskStep(t) ==
    \/ CreateTask(t)
    \/ \E s \in Sessions, l \in Leases : Claim(t, s, l)
    \/ \E l \in Leases, s \in Sessions, r \in Results :
           CompleteBegin(t, l, s, r)
    \/ CompleteCommit(t)
    \/ CompleteAbort(t)
    \/ RejectInvalid(t)
    \/ InterruptManaged(t)
    \/ CancelTask(t)
    \/ ArchiveTask(t)
    \/ RevokeIdentity(t)
    \/ DeadlinePasses(t)
    \/ GracePasses(t)

NodeStep(n) ==
    \/ RegisterBegin(n)
    \/ ExcludeNode(n)
    \/ RecoverNode(n)
    \/ RevokeNode(n)
    \/ DeleteNode(n)

SessionStep(s) ==
    \/ RegisterCommit(s)
    \/ Heartbeat(s)
    \/ \E succ \in Sessions : Negotiate(s, succ)
    \/ SessionExpires(s)

Next ==
    \/ \E t \in Tasks : TaskStep(t)
    \/ \E n \in Nodes : NodeStep(n)
    \/ \E s \in Sessions : SessionStep(s)
    \/ RegisterAbort
    \/ \E silent \in SUBSET Nodes : Sweep(silent)
    \/ \E active \in BOOLEAN : SetTenant(active)
    \/ \E owned \in SUBSET Nodes, sent \in SUBSET Tasks :
           SuspendMember(owned, sent)

Spec == Init /\ [][Next]_vars

-----------------------------------------------------------------------------
(* Properties.                                                             *)

LeasesOf(t) == {l \in Leases : grant[l].task = t}

\* A worker that was handed a task loses it to another worker only after its
\* own failure report was recorded and answered "requeued": a lease is never
\* replaced because of silence, exclusion, drain or a sweep.
SupersededLeaseReported ==
    \A t \in Tasks : \A l \in LeasesOf(t) :
        task[t].lease # l => submission[t][l].action = "requeued"

\* "Once native inference was leased, an uncertain outcome must never create
\* a second generation on another worker" (handle_failed_submission).
NativeRunsOnce ==
    \A t \in Tasks : Native(t) =>
        \A l1, l2 \in LeasesOf(t) : l1 = l2

\* What complete_task answered a worker stays true of the task: the terminal
\* action it recorded is the task's status, the result it accepted is the
\* task's outcome, and the lease it accepted it for is the task's last.
AckedOutcomeHolds ==
    \A t \in Tasks, l \in Leases :
        LET sub == submission[t][l] IN
        sub.action \in Terminal =>
            /\ task[t].status = sub.action
            /\ task[t].lease = l
            /\ sub.action # "expired" => task[t].outcome = sub.result

\* A task is executed at most failure_threshold times, however its leases,
\* sessions and nodes come and go.
ExecutionsBounded ==
    \A t \in Tasks : Cardinality(LeasesOf(t)) <= TaskThreshold

\* No order of failures, late results, expiries and drains executes a chat task
\* more often than its threshold allows, or a native one twice.
RunsBounded == ExecutionsBounded /\ NativeRunsOnce

\* A session that cannot be renewed any more stays able to complete each of
\* its leases until their grace ends.
CanFinish(s) ==
    \A t \in LeasedTo(s) : clock[t] # "closed" => session[s].state = "valid"

\* "Already-issued leases keep completion authorization on their old session"
\* (negotiate_capabilities): a session that was drained by a renegotiation or
\* a revocation can complete each of them until its grace ends, and a
\* suspension of the owner before or after the drain does not take that away.
DrainedSessionCanFinish ==
    \A s \in Sessions : session[s].stop = "drain" => CanFinish(s)

\* "A disabled session can finish only its already-issued leases. Do not set
\* revoked_at: that would strand accepted result/settlement submissions"
\* (drain): the same of a session that was valid when its owner was suspended.
DisabledSessionCanFinish ==
    \A s \in Sessions :
        session[s].stop \in {"drain", "suspension"} => CanFinish(s)

\* No step changes the status or outcome of a task that has ended, whatever
\* completion, sweep, cancellation or rejection was under way when it ended.
OutcomeFinal ==
    [][\A t \in Tasks : task[t].status \in Terminal =>
           /\ task'[t].status = task[t].status
           /\ task'[t].outcome = task[t].outcome]_vars

\* README: "Failed nodes are excluded from scheduling". A node that reached
\* its failure threshold and was not recovered is excluded.
FailedNodesExcluded ==
    \A n \in Nodes : node[n].count >= NodeThreshold =>
                         node[n].status = "excluded"

\* handle_success_submission_inner resets the failure count of a node only
\* if it is not excluded: an excluded node keeps its count.
ExcludedNodeKeepsCount ==
    [][\A n \in Nodes :
           node[n].status = "excluded" /\ node'[n].status = "excluded" =>
               node'[n].count >= node[n].count]_vars

-----------------------------------------------------------------------------
(* The inductive invariant behind the safety properties.                   *)

\* Only a row that was claimed and not requeued since carries a lease.
LeaseFollowsStatus ==
    \A t \in Tasks :
        task[t].status \in {"absent", "queued"} => task[t].lease = None

\* A completion that holds the row lock still reports the current lease, has
\* no submission yet, and the branch it chose still applies.
CompletionCurrent ==
    \A t \in Tasks : RowLocked(t) =>
        /\ completeTx[t].lease \in Leases
        /\ completeTx[t].lease = task[t].lease
        /\ completeTx[t].result \in Results
        /\ submission[t][completeTx[t].lease] = NoSubmission
        /\ task[t].status \in (IF completeTx[t].late THEN {"leased", "expired"}
                                                    ELSE {"leased"})

RequeuedOnlyChat ==
    \A t \in Tasks, l \in Leases :
        submission[t][l].action = "requeued" => ~Native(t)

LeaseInvariant ==
    /\ TypeOK
    /\ LeaseFollowsStatus
    /\ CompletionCurrent
    /\ RequeuedOnlyChat
    /\ SupersededLeaseReported
    /\ AckedOutcomeHolds

\* Every lease but the current one cost the task a failure, and a task that
\* may be claimed or requeued is below its threshold.
FailuresPayForLeases ==
    \A t \in Tasks :
        /\ IsFiniteSet(LeasesOf(t))
        /\ Cardinality(LeasesOf(t)) <=
               task[t].failures + (IF task[t].lease = None THEN 0 ELSE 1)
        /\ task[t].status \in {"absent", "queued", "leased"} =>
               task[t].failures < TaskThreshold

\* A leased task names the node of its session, and a session that was
\* negotiated belongs to the node of the session it replaced.
SessionsMatchNodes ==
    /\ \A t \in Tasks : task[t].status = "leased" =>
           /\ task[t].session \in Sessions
           /\ session[task[t].session].state # "absent"
           /\ session[task[t].session].node = task[t].node
    /\ \A s \in Sessions : session[s].from \in Sessions =>
           /\ session[session[s].from].state # "absent"
           /\ session[session[s].from].node = session[s].node

\* What a drain saw leased is held until it ends or its grace does.
DrainHoldsLeases ==
    \A s \in Sessions : session[s].stop = "drain" =>
        /\ ~session[s].accepting
        /\ \A t \in LeasedTo(s) :
               clock[t] # "closed" =>
                   session[s].state = "valid" /\ t \in session[s].holds
=============================================================================
