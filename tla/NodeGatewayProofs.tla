------------------------- MODULE NodeGatewayProofs -------------------------
(***************************************************************************)
(* Theorems about NodeTasks and then about NodeGateway, for every number   *)
(* of tasks, nodes, sessions and leases and every threshold.  A step of    *)
(* the gateway is a step of NodeTasks on the rows, or leaves them alone,   *)
(* so the lease invariant of NodeTasks carries over; on it rests that what *)
(* Redis, the request and its trace say of a task agrees with the row.     *)
(***************************************************************************)
EXTENDS NodeGateway, FiniteSetTheorems, TLAPS


-----------------------------------------------------------------------------
(* NodeTasks: type correctness.                                            *)

\* What complete_task writes to the task row is a task row.
LEMMA CompletedTaskType ==
    ASSUME TypeOK, NEW t \in Tasks, NEW tx \in Completions
    PROVE  CompletedTask(t, tx) \in TaskRows
  <1>0. task[t] \in TaskRows
    BY DEF TypeOK
  <1>f. task[t].failures \in Nat /\ task[t].failures + 1 \in Nat
    BY <1>0 DEF TaskRows
  <1>r. tx.result \in Results \cup ServerErrors \cup {None}
    BY DEF Completions
  <1>1. CASE ActionOf(t, tx) = "requeued"
    <2>1. CompletedTask(t, tx) = RequeuedTask(t)
      BY <1>1 DEF CompletedTask
    <2> QED BY <1>0, <1>f, <2>1 DEF RequeuedTask, TaskRows
  <1>2. CASE ActionOf(t, tx) = "expired"
    <2>1. CompletedTask(t, tx) = [task[t] EXCEPT !.status = "expired"]
      BY <1>2 DEF CompletedTask
    <2> QED BY <1>0, <2>1 DEF TaskRows, Terminal
  <1>3. CASE ActionOf(t, tx) = "succeeded"
    BY <1>0, <1>r, <1>3 DEF CompletedTask, TaskRows, Terminal
  <1>4. CASE ActionOf(t, tx) \notin {"requeued", "expired", "succeeded"}
    BY <1>0, <1>f, <1>r, <1>4 DEF CompletedTask, TaskRows, Terminal
  <1> QED BY <1>1, <1>2, <1>3, <1>4

\* What complete_task writes to the node row is a node row.
LEMMA CompletedNodeType ==
    ASSUME TypeOK, NEW n \in Nodes, NEW t \in Tasks, NEW tx \in Completions
    PROVE  CompletedNode(n, t, tx) \in NodeRows
  <1>1. node[n] \in NodeRows
    BY DEF TypeOK
  <1>2. node[n].count \in Nat /\ node[n].count + 1 \in Nat
    BY <1>1 DEF NodeRows
  <1>3. CASE ~tx.late /\ tx.result = "failure"
    BY <1>1, <1>2, <1>3 DEF CompletedNode, NodeRows
  <1>4. CASE /\ ~(~tx.late /\ tx.result = "failure")
             /\ ~tx.late /\ tx.result \in Answers /\ ~tx.sawExcluded
    BY <1>1, <1>2, <1>4 DEF CompletedNode, NodeRows
  <1>5. CASE /\ ~(~tx.late /\ tx.result = "failure")
             /\ ~(~tx.late /\ tx.result \in Answers /\ ~tx.sawExcluded)
    BY <1>1, <1>5 DEF CompletedNode
  <1> QED BY <1>3, <1>4, <1>5

\* The sweeper's UPDATE keeps the rows well formed.
LEMMA ExpiredTaskType ==
    ASSUME TypeOK, NEW t \in Tasks
    PROVE  ExpiredTask(t) \in TaskRows
  <1>1. task[t] \in TaskRows
    BY DEF TypeOK
  <1> QED BY <1>1 DEF ExpiredTask, TaskRows, Terminal

\* Draining keeps a session row well formed.
LEMMA DrainedSessionType ==
    ASSUME TypeOK, NEW s \in Sessions
    PROVE  DrainedSession(s) \in SessionRows
  <1>1. session[s] \in SessionRows
    BY DEF TypeOK
  <1>2. session[s].holds \cup LeasedTo(s) \in SUBSET Tasks
    BY <1>1 DEF SessionRows, LeasedTo
  <1> QED BY <1>1, <1>2 DEF DrainedSession, SessionRows, Stops

\* Every table is empty and no transaction is open at first.
LEMMA InitType == Init => TypeOK
  <1> SUFFICES ASSUME Init PROVE TypeOK
    OBVIOUS
  <1>1. NoTask \in TaskRows
    BY DEF NoTask, TaskRows
  <1>2. NoNode \in NodeRows
    BY DEF NoNode, NodeRows
  <1>3. NoSession \in SessionRows
    BY DEF NoSession, SessionRows, Stops
  <1>4. NoGrant \in Grants
    BY DEF NoGrant, Grants
  <1>5. NoSubmission \in Submissions
    BY DEF NoSubmission, Submissions
  <1>6. NoComplete \in Completions
    BY DEF NoComplete, Completions
  <1>7. NoRegister \in Registrations
    BY DEF NoRegister, Registrations
  <1> QED
    BY <1>1, <1>2, <1>3, <1>4, <1>5, <1>6, <1>7 DEF Init, TypeOK

\* Every transaction writes well-formed rows.
LEMMA NextType == TypeOK /\ [Next]_vars => TypeOK'
  <1> SUFFICES ASSUME TypeOK, [Next]_vars PROVE TypeOK'
    OBVIOUS
  <1> USE DEF txVars, taskVars
  <1>a. \A t \in Tasks : task[t] \in TaskRows
    BY DEF TypeOK
  <1>1. ASSUME NEW t \in Tasks, CreateTask(t) PROVE TypeOK'
    <2>1. [task[t] EXCEPT !.status = "queued"] \in TaskRows
      BY <1>a DEF TaskRows, Terminal, ServerErrors
    <2>2. task' = [task EXCEPT ![t] = [task[t] EXCEPT !.status = "queued"]]
      BY <1>1 DEF CreateTask
    <2>3. task' \in [Tasks -> TaskRows]
      BY <2>1, <2>2 DEF TypeOK
    <2> QED BY <1>1, <2>3 DEF CreateTask, TypeOK
  <1>2. ASSUME NEW t \in Tasks, NEW s \in Sessions, NEW l \in Leases,
               Claim(t, s, l)
        PROVE  TypeOK'
    <2>1. session[s].node \in Nodes \cup {None}
      BY DEF TypeOK, SessionRows
    <2>2. task' \in [Tasks -> TaskRows]
      <3>1. [task[t] EXCEPT !.status = "leased", !.node = session[s].node,
                            !.session = s, !.lease = l] \in TaskRows
        BY <1>a, <2>1 DEF TaskRows
      <3> QED BY <1>2, <3>1 DEF Claim, TypeOK
    <2>3. grant' \in [Leases -> Grants]
      BY <1>2 DEF Claim, TypeOK, Grants
    <2> QED BY <1>2, <2>2, <2>3 DEF Claim, TypeOK
  <1>3. ASSUME NEW t \in Tasks, NEW l \in Leases, NEW s \in Sessions,
               NEW r \in Results, CompleteBegin(t, l, s, r)
        PROVE  TypeOK'
    <2> DEFINE tx == [lease |-> l, session |-> s, result |-> r,
                      late |-> LateCompletion(t),
                      sawExcluded |-> node[session[s].node].status = "excluded"]
    <2>1. LateCompletion(t) \in BOOLEAN
      BY DEF LateCompletion
    <2>2. tx \in Completions
      BY <2>1 DEF Completions
    <2>3. completeTx' = [completeTx EXCEPT ![t] = tx]
      BY <1>3 DEF CompleteBegin
    <2>4. completeTx' \in [Tasks -> Completions]
      BY <2>2, <2>3 DEF TypeOK
    <2> QED BY <1>3, <2>4 DEF CompleteBegin, TypeOK
  <1>4. ASSUME NEW t \in Tasks, CompleteCommit(t) PROVE TypeOK'
    <2> DEFINE tx == completeTx[t]
               n == session[tx.session].node
    <2>1. tx \in Completions
      BY DEF TypeOK
    <2>2. task' \in [Tasks -> TaskRows]
      BY <1>4, <2>1, CompletedTaskType DEF CompleteCommit, TypeOK
    <2>3. node' \in [Nodes -> NodeRows]
      <3>1. node' = [node EXCEPT ![n] = CompletedNode(n, t, tx)]
        BY <1>4 DEF CompleteCommit
      <3>2. n \in Nodes => CompletedNode(n, t, tx) \in NodeRows
        BY <2>1, CompletedNodeType
      <3> QED BY <3>1, <3>2 DEF TypeOK
    <2>4. submission' \in [Tasks -> [Leases -> Submissions]]
      <3> DEFINE sub == [session |-> tx.session, result |-> tx.result,
                         action |-> ActionOf(t, tx)]
      <3>1. ActionOf(t, tx) \in {"succeeded", "requeued", "failed", "expired"}
        BY DEF ActionOf
      <3>2. sub \in Submissions
        BY <2>1, <3>1 DEF Submissions, Completions
      <3>3. submission' = [submission EXCEPT ![t][tx.lease] = sub]
        BY <1>4 DEF CompleteCommit
      <3> HIDE DEF sub
      <3> QED BY <3>2, <3>3 DEF TypeOK
    <2>5. completeTx' \in [Tasks -> Completions]
      BY <1>4 DEF CompleteCommit, TypeOK, NoComplete, Completions
    <2> QED BY <1>4, <2>2, <2>3, <2>4, <2>5 DEF CompleteCommit, TypeOK
  <1>5. ASSUME NEW t \in Tasks, CompleteAbort(t) PROVE TypeOK'
    BY <1>5 DEF CompleteAbort, TypeOK, NoComplete, Completions
  <1>6. ASSUME NEW t \in Tasks, RejectInvalid(t) PROVE TypeOK'
    <2>1. [task[t] EXCEPT !.status = "failed",
                                   !.outcome = "authority_invalid"] \in TaskRows
      BY <1>a DEF TaskRows, Terminal, ServerErrors
    <2>2. task' = [task EXCEPT ![t] = [task[t] EXCEPT !.status = "failed",
                                   !.outcome = "authority_invalid"]]
      BY <1>6 DEF RejectInvalid
    <2>3. task' \in [Tasks -> TaskRows]
      BY <2>1, <2>2 DEF TypeOK
    <2> QED BY <1>6, <2>3 DEF RejectInvalid, TypeOK
  <1>7. ASSUME NEW t \in Tasks, InterruptManaged(t) PROVE TypeOK'
    <2>1. [task[t] EXCEPT !.status = "failed",
                                   !.outcome = "interrupted"] \in TaskRows
      BY <1>a DEF TaskRows, Terminal, ServerErrors
    <2>2. task' = [task EXCEPT ![t] = [task[t] EXCEPT !.status = "failed",
                                   !.outcome = "interrupted"]]
      BY <1>7 DEF InterruptManaged
    <2>3. task' \in [Tasks -> TaskRows]
      BY <2>1, <2>2 DEF TypeOK
    <2> QED BY <1>7, <2>3 DEF InterruptManaged, TypeOK
  <1>8. ASSUME NEW t \in Tasks, CancelTask(t) PROVE TypeOK'
    <2>1. /\ [task[t] EXCEPT !.status = "failed", !.outcome = "cancelled",
                              !.cancelRequested = TRUE] \in TaskRows
          /\ [task[t] EXCEPT !.cancelRequested = TRUE] \in TaskRows
      BY <1>a DEF TaskRows, Terminal, ServerErrors
    <2>2. \E row \in TaskRows : task' = [task EXCEPT ![t] = row]
      BY <1>8, <2>1 DEF CancelTask
    <2>3. task' \in [Tasks -> TaskRows]
      BY <2>2 DEF TypeOK
    <2> QED BY <1>8, <2>3 DEF CancelTask, TypeOK
  <1>9. ASSUME NEW t \in Tasks, ArchiveTask(t) PROVE TypeOK'
    <2>1. [task[t] EXCEPT !.archived = TRUE] \in TaskRows
      BY <1>a DEF TaskRows, Terminal, ServerErrors
    <2>2. task' = [task EXCEPT ![t] = [task[t] EXCEPT !.archived = TRUE]]
      BY <1>9 DEF ArchiveTask
    <2>3. task' \in [Tasks -> TaskRows]
      BY <2>1, <2>2 DEF TypeOK
    <2> QED BY <1>9, <2>3 DEF ArchiveTask, TypeOK
  <1>10. ASSUME NEW t \in Tasks, RevokeIdentity(t) PROVE TypeOK'
    BY <1>10 DEF RevokeIdentity, TypeOK
  <1>11. ASSUME NEW t \in Tasks, DeadlinePasses(t) PROVE TypeOK'
    BY <1>11 DEF DeadlinePasses, TypeOK
  <1>12. ASSUME NEW t \in Tasks, GracePasses(t) PROVE TypeOK'
    BY <1>12 DEF GracePasses, TypeOK
  <1>13. ASSUME NEW n \in Nodes, RegisterBegin(n) PROVE TypeOK'
    <2>1. node[n].status \in {"absent", "offline", "online"}
      BY <1>13 DEF RegisterBegin, TypeOK, NodeRows
    <2>2. registerTx' \in Registrations
      BY <1>13, <2>1 DEF RegisterBegin, Registrations
    <2> QED BY <1>13, <2>2 DEF RegisterBegin, TypeOK
  <1>14. ASSUME NEW n \in Nodes, ExcludeNode(n) PROVE TypeOK'
    BY <1>14 DEF ExcludeNode, TypeOK, NodeRows
  <1>15. ASSUME NEW n \in Nodes, RecoverNode(n) PROVE TypeOK'
    BY <1>15 DEF RecoverNode, TypeOK, NodeRows
  <1>16. ASSUME NEW n \in Nodes, RevokeNode(n) PROVE TypeOK'
    <2>1. node' \in [Nodes -> NodeRows]
      BY <1>16 DEF RevokeNode, TypeOK, NodeRows
    <2>2. session' \in [Sessions -> SessionRows]
      BY <1>16, DrainedSessionType DEF RevokeNode, TypeOK
    <2> QED BY <1>16, <2>1, <2>2 DEF RevokeNode, TypeOK
  <1>17. ASSUME NEW n \in Nodes, DeleteNode(n) PROVE TypeOK'
    <2>1. NoNode \in NodeRows
      BY DEF NoNode, NodeRows
    <2>2. NoSession \in SessionRows
      BY DEF NoSession, SessionRows, Stops
    <2> QED BY <1>17, <2>1, <2>2 DEF DeleteNode, TypeOK
  <1>18. ASSUME NEW s \in Sessions, RegisterCommit(s) PROVE TypeOK'
    <2> DEFINE n == registerTx.node
    <2>1. n \in Nodes => RegisteredNode(n, registerTx.sawStatus) \in NodeRows
      BY DEF RegisteredNode, TypeOK, NodeRows, Registrations
    <2>2. node' \in [Nodes -> NodeRows]
      BY <1>18, <2>1 DEF RegisterCommit, TypeOK
    <2>3. session' \in [Sessions -> SessionRows]
      BY <1>18 DEF RegisterCommit, TypeOK, SessionRows, Stops, Registrations
    <2>4. registerTx' \in Registrations
      BY <1>18 DEF RegisterCommit, NoRegister, Registrations
    <2> QED BY <1>18, <2>2, <2>3, <2>4 DEF RegisterCommit, TypeOK
  <1>19. ASSUME NEW s \in Sessions, Heartbeat(s) PROVE TypeOK'
    BY <1>19 DEF Heartbeat, TypeOK, NodeRows
  <1>20. ASSUME NEW s \in Sessions, NEW succ \in Sessions, Negotiate(s, succ)
         PROVE  TypeOK'
    <2> DEFINE fresh == [state |-> "valid", node |-> session[s].node,
                         accepting |-> TRUE, stop |-> "none", from |-> s,
                         holds |-> {}]
    <2>1. fresh \in SessionRows
      BY DEF TypeOK, SessionRows, Stops
    <2>2. session' = [x \in Sessions |->
              IF x = succ THEN fresh
                ELSE IF x \in SessionsOf(session[s].node)
                       THEN DrainedSession(x) ELSE session[x]]
      BY <1>20 DEF Negotiate
    <2> HIDE DEF fresh
    <2>3. session' \in [Sessions -> SessionRows]
      BY <2>1, <2>2, DrainedSessionType DEF TypeOK
    <2> QED BY <1>20, <2>3 DEF Negotiate, TypeOK
  <1>21. ASSUME NEW s \in Sessions, SessionExpires(s) PROVE TypeOK'
    BY <1>21 DEF SessionExpires, TypeOK, SessionRows
  <1>22. CASE RegisterAbort
    BY <1>22 DEF RegisterAbort, TypeOK, NoRegister, Registrations
  <1>23. ASSUME NEW silent \in SUBSET Nodes, Sweep(silent) PROVE TypeOK'
    <2>1. task' \in [Tasks -> TaskRows]
      BY <1>23, ExpiredTaskType DEF Sweep
    <2>2. node' \in [Nodes -> NodeRows]
      BY <1>23 DEF Sweep, TypeOK, NodeRows
    <2> QED BY <1>23, <2>1, <2>2 DEF Sweep, TypeOK
  <1>24. ASSUME NEW active \in BOOLEAN, SetTenant(active) PROVE TypeOK'
    BY <1>24 DEF SetTenant, TypeOK
  <1>25. CASE UNCHANGED vars
    BY <1>25 DEF vars, TypeOK
  <1>26. ASSUME NEW owned \in SUBSET Nodes, NEW sent \in SUBSET Tasks,
                SuspendMember(owned, sent)
         PROVE  TypeOK'
    <2>1. ASSUME NEW s \in Sessions, NEW why \in Stops
          PROVE  [session[s] EXCEPT !.accepting = FALSE, !.stop = why]
                     \in SessionRows
      <3>1. session[s] \in SessionRows
        BY DEF TypeOK
      <3> QED BY <3>1 DEF SessionRows
    <2>2. session' \in [Sessions -> SessionRows]
      BY <1>26, <2>1 DEF SuspendMember, TypeOK, Stops
    <2> QED BY <1>26, <2>2 DEF SuspendMember, TypeOK
  <1> QED
    BY <1>1, <1>2, <1>3, <1>4, <1>5, <1>6, <1>7, <1>8, <1>9, <1>10, <1>11,
       <1>12, <1>13, <1>14, <1>15, <1>16, <1>17, <1>18, <1>19, <1>20, <1>21,
       <1>22, <1>23, <1>24, <1>25, <1>26
    DEF Next, TaskStep, NodeStep, SessionStep

\* Rows keep the types and status values the columns' CHECK constraints list.
THEOREM TypeCorrect == Spec => []TypeOK
  BY InitType, NextType, PTL DEF Spec

-----------------------------------------------------------------------------
(* Lease safety.                                                           *)

\* A step of a transaction that may end a task but never moves its lease,
\* and waits for the row lock.
EndsOrKeeps(t) ==
    \/ task'[t] = task[t]
    \/ /\ ~RowLocked(t)
       /\ task'[t].lease = task[t].lease
       /\ \/ /\ task'[t].status = task[t].status
             /\ task'[t].outcome = task[t].outcome
          \/ /\ task[t].status \in {"queued", "leased"}
             /\ task'[t].status \in Terminal

\* Such a step, and a step of nodes, sessions, authority or time, preserves
\* the lease invariant.
LEMMA EndsOrKeepsLease ==
    ASSUME LeaseInvariant, TypeOK',
           UNCHANGED <<grant, submission, completeTx>>,
           \A t \in Tasks : EndsOrKeeps(t)
    PROVE  LeaseInvariant'
  <1>1. LeaseFollowsStatus'
    BY DEF LeaseInvariant, LeaseFollowsStatus, EndsOrKeeps, Terminal
  <1>2. CompletionCurrent'
    BY DEF LeaseInvariant, CompletionCurrent, EndsOrKeeps, RowLocked
  <1>3. RequeuedOnlyChat'
    BY DEF LeaseInvariant, RequeuedOnlyChat
  <1>4. SupersededLeaseReported'
    BY DEF LeaseInvariant, SupersededLeaseReported, LeasesOf, EndsOrKeeps
  <1>5. AckedOutcomeHolds'
    BY DEF LeaseInvariant, AckedOutcomeHolds, EndsOrKeeps, Terminal
  <1> QED BY <1>1, <1>2, <1>3, <1>4, <1>5 DEF LeaseInvariant

\* The lease invariant holds of the empty tables.
LEMMA InitLease == Init => LeaseInvariant
  <1> SUFFICES ASSUME Init PROVE LeaseInvariant
    OBVIOUS
  <1>1. TypeOK
    BY InitType
  <1>2. LeaseFollowsStatus
    BY DEF Init, LeaseFollowsStatus, NoTask
  <1>3. CompletionCurrent
    BY DEF Init, CompletionCurrent, RowLocked
  <1>4. RequeuedOnlyChat
    BY DEF Init, RequeuedOnlyChat, NoSubmission
  <1>5. SupersededLeaseReported
    BY ConstantsAssumption DEF Init, SupersededLeaseReported, LeasesOf, NoGrant
  <1>6. AckedOutcomeHolds
    BY DEF Init, AckedOutcomeHolds, NoSubmission, Terminal
  <1> QED BY <1>1, <1>2, <1>3, <1>4, <1>5, <1>6 DEF LeaseInvariant

\* A claim replaces no lease: the row it takes has none.
LEMMA ClaimLease ==
    ASSUME LeaseInvariant, TypeOK',
           NEW t \in Tasks, NEW s \in Sessions, NEW l \in Leases, Claim(t, s, l)
    PROVE  LeaseInvariant'
  <1> USE DEF txVars
  <1>1. /\ task[t].status = "queued" /\ task[t].lease = None
        /\ ~RowLocked(t)
    BY DEF Claim, Claimable, LeaseInvariant, LeaseFollowsStatus
  <1>2. /\ task'[t].status = "leased" /\ task'[t].lease = l
        /\ \A u \in Tasks \ {t} : task'[u] = task[u]
    BY DEF Claim, LeaseInvariant, TypeOK, TaskRows
  <1>3. UNCHANGED <<submission, completeTx>>
    BY DEF Claim
  <1>4. /\ grant[l].task = None
        /\ grant'[l].task = t
        /\ \A m \in Leases \ {l} : grant'[m] = grant[m]
    BY DEF Claim, LeaseInvariant, TypeOK, NoGrant
  <1>5. LeaseFollowsStatus'
    BY <1>2 DEF LeaseInvariant, LeaseFollowsStatus
  <1>6. CompletionCurrent'
    BY <1>1, <1>2, <1>3 DEF LeaseInvariant, CompletionCurrent, RowLocked
  <1>7. RequeuedOnlyChat'
    BY <1>3 DEF LeaseInvariant, RequeuedOnlyChat
  <1>8. SupersededLeaseReported'
    <2> SUFFICES ASSUME NEW u \in Tasks, NEW m \in LeasesOf(u)',
                        task'[u].lease # m
                 PROVE  submission[u][m].action = "requeued"
      BY <1>3 DEF SupersededLeaseReported
    <2>1. m # l
      BY <1>2, <1>4 DEF LeasesOf
    <2>2. m \in LeasesOf(u)
      BY <1>4, <2>1 DEF LeasesOf
    <2>3. task[u].lease # m
      BY <1>1, <1>2, ConstantsAssumption DEF LeasesOf
    <2> QED BY <2>2, <2>3 DEF LeaseInvariant, SupersededLeaseReported
  <1>9. AckedOutcomeHolds'
    BY <1>1, <1>2, <1>3 DEF LeaseInvariant, AckedOutcomeHolds, Terminal
  <1> QED BY <1>5, <1>6, <1>7, <1>8, <1>9 DEF LeaseInvariant

\* A completion that begins saw the current lease and no submission for it.
LEMMA CompleteBeginLease ==
    ASSUME LeaseInvariant, TypeOK',
           NEW t \in Tasks, NEW l \in Leases, NEW s \in Sessions,
           NEW r \in Results, CompleteBegin(t, l, s, r)
    PROVE  LeaseInvariant'
  <1> USE DEF taskVars
  <1>1. UNCHANGED <<task, grant, submission>>
    BY DEF CompleteBegin
  <1>2. /\ completeTx'[t].lease = l
        /\ completeTx'[t].result = r
        /\ completeTx'[t].late = LateCompletion(t)
        /\ \A u \in Tasks \ {t} : completeTx'[u] = completeTx[u]
    BY DEF CompleteBegin, LeaseInvariant, TypeOK
  <1>3. /\ task[t].lease = l
        /\ submission[t][l] = NoSubmission
        /\ LateCompletion(t) => task[t].status \in {"leased", "expired"}
        /\ ~LateCompletion(t) => task[t].status = "leased"
    BY DEF CompleteBegin, LeaseHeld, LateCompletion
  <1>4. CompletionCurrent'
    BY <1>1, <1>2, <1>3 DEF LeaseInvariant, CompletionCurrent, RowLocked
  <1> QED
    BY <1>1, <1>4
    DEF LeaseInvariant, LeaseFollowsStatus, RequeuedOnlyChat,
        SupersededLeaseReported, AckedOutcomeHolds, LeasesOf

\* A completion that is rolled back leaves the tables alone.
LEMMA CompleteAbortLease ==
    ASSUME LeaseInvariant, TypeOK', NEW t \in Tasks, CompleteAbort(t)
    PROVE  LeaseInvariant'
  <1> USE DEF taskVars
  <1>1. UNCHANGED <<task, grant, submission>>
    BY DEF CompleteAbort
  <1>2. /\ completeTx'[t] = NoComplete
        /\ \A u \in Tasks \ {t} : completeTx'[u] = completeTx[u]
    BY DEF CompleteAbort, LeaseInvariant, TypeOK
  <1>3. CompletionCurrent'
    BY <1>1, <1>2 DEF LeaseInvariant, CompletionCurrent, RowLocked
  <1> QED
    BY <1>1, <1>3
    DEF LeaseInvariant, LeaseFollowsStatus, RequeuedOnlyChat,
        SupersededLeaseReported, AckedOutcomeHolds, LeasesOf


\* What each answer of complete_task means for the task row.
LEMMA CompletedTaskFields ==
    ASSUME TypeOK, NEW t \in Tasks, NEW tx
    PROVE  /\ ActionOf(t, tx) \in {"succeeded", "requeued", "failed", "expired"}
           /\ ActionOf(t, tx) = "requeued" =>
                  /\ ~Native(t) /\ ~tx.late
                  /\ task[t].failures + 1 < TaskThreshold
                  /\ CompletedTask(t, tx).status = "queued"
                  /\ CompletedTask(t, tx).lease = None
                  /\ CompletedTask(t, tx).failures = task[t].failures + 1
           /\ ActionOf(t, tx) # "requeued" =>
                  /\ CompletedTask(t, tx).status = ActionOf(t, tx)
                  /\ CompletedTask(t, tx).lease = task[t].lease
                  /\ CompletedTask(t, tx).failures >= task[t].failures
           /\ ActionOf(t, tx) = "expired" =>
                  CompletedTask(t, tx).outcome = task[t].outcome
           /\ ActionOf(t, tx) \in {"succeeded", "failed"} =>
                  ~tx.late /\ CompletedTask(t, tx).outcome = tx.result
  <1>1. task[t] \in TaskRows
    BY DEF TypeOK
  <1>2. ActionOf(t, tx) \in {"succeeded", "requeued", "failed", "expired"}
    BY DEF ActionOf
  <1>3. task[t].failures \in Nat
    BY <1>1 DEF TaskRows
  <1>4. /\ ActionOf(t, tx) = "requeued" => ~tx.late /\ Requeues(t, tx.result)
        /\ ActionOf(t, tx) \in {"succeeded", "failed"} => ~tx.late
    BY DEF ActionOf
  <1>5. CASE ActionOf(t, tx) = "requeued"
    <2>1. CompletedTask(t, tx) = RequeuedTask(t)
      BY <1>5 DEF CompletedTask
    <2>2. ~Native(t) /\ task[t].failures + 1 < TaskThreshold
      BY <1>4, <1>5 DEF Requeues
    <2>3. /\ RequeuedTask(t).status = "queued"
          /\ RequeuedTask(t).lease = None
          /\ RequeuedTask(t).failures = task[t].failures + 1
      BY <1>1, <1>3 DEF RequeuedTask, TaskRows
    <2> QED BY <1>2, <1>4, <1>5, <2>1, <2>2, <2>3
  <1>6. CASE ActionOf(t, tx) = "expired"
    <2>1. CompletedTask(t, tx) = [task[t] EXCEPT !.status = "expired"]
      BY <1>6 DEF CompletedTask
    <2> QED BY <1>1, <1>2, <1>3, <1>6, <2>1 DEF TaskRows
  <1>7. CASE ActionOf(t, tx) = "succeeded"
    <2>1. CompletedTask(t, tx) =
            [task[t] EXCEPT !.status = "succeeded", !.outcome = tx.result]
      BY <1>7 DEF CompletedTask
    <2> QED BY <1>1, <1>2, <1>3, <1>4, <1>7, <2>1 DEF TaskRows
  <1>8. CASE ActionOf(t, tx) = "failed"
    <2> DEFINE f == IF tx.result = "http_error"
                      THEN task[t].failures ELSE task[t].failures + 1
    <2>1. CompletedTask(t, tx) =
            [task[t] EXCEPT !.status = "failed", !.outcome = tx.result,
                            !.failures = f]
      BY <1>8 DEF CompletedTask
    <2>2. f >= task[t].failures
      BY <1>3
    <2> HIDE DEF f
    <2> QED BY <1>1, <1>2, <1>4, <1>8, <2>1, <2>2 DEF TaskRows
  <1> QED BY <1>2, <1>5, <1>6, <1>7, <1>8

\* A completion ends the task it was accepted for, or hands the lease back
\* with the report that says so.
LEMMA CompleteCommitLease ==
    ASSUME LeaseInvariant, TypeOK', NEW t \in Tasks, CompleteCommit(t)
    PROVE  LeaseInvariant'
  <1> DEFINE tx == completeTx[t]
             act == ActionOf(t, tx)
             done == CompletedTask(t, tx)
  <1>1. /\ tx.lease \in Leases
        /\ tx.lease = task[t].lease
        /\ submission[t][tx.lease] = NoSubmission
    BY DEF CompleteCommit, LeaseInvariant, CompletionCurrent
  <1>2. /\ task'[t] = done
        /\ \A u \in Tasks \ {t} : task'[u] = task[u]
    BY DEF CompleteCommit, LeaseInvariant, TypeOK
  <1>3. /\ submission'[t][tx.lease].action = act
        /\ submission'[t][tx.lease].result = tx.result
        /\ \A m \in Leases \ {tx.lease} : submission'[t][m] = submission[t][m]
        /\ \A u \in Tasks \ {t} : submission'[u] = submission[u]
    <2> DEFINE sub == [session |-> tx.session, result |-> tx.result,
                       action |-> act]
    <2>1. submission' = [submission EXCEPT ![t][tx.lease] = sub]
      BY DEF CompleteCommit
    <2>2. sub.action = act /\ sub.result = tx.result
      OBVIOUS
    <2> HIDE DEF sub, tx
    <2> QED BY <1>1, <2>1, <2>2 DEF LeaseInvariant, TypeOK
  <1>4. /\ completeTx'[t] = NoComplete
        /\ \A u \in Tasks \ {t} : completeTx'[u] = completeTx[u]
        /\ UNCHANGED grant
    BY DEF CompleteCommit, LeaseInvariant, TypeOK
  <1>5. /\ act \in {"succeeded", "requeued", "failed", "expired"}
        /\ act = "requeued" => ~Native(t) /\ done.status = "queued" /\ done.lease = None
        /\ act # "requeued" => done.status = act /\ done.lease = task[t].lease
        /\ act \in {"succeeded", "failed"} => done.outcome = tx.result
    BY CompletedTaskFields DEF LeaseInvariant
  <1> HIDE DEF tx, act, done
  <1>6. LeaseFollowsStatus'
    BY <1>2, <1>5 DEF LeaseInvariant, LeaseFollowsStatus
  <1>7. CompletionCurrent'
    BY <1>2, <1>3, <1>4 DEF LeaseInvariant, CompletionCurrent, RowLocked
  <1>8. RequeuedOnlyChat'
    BY <1>1, <1>3, <1>5 DEF LeaseInvariant, RequeuedOnlyChat
  <1>9. SupersededLeaseReported'
    <2> SUFFICES ASSUME NEW u \in Tasks, NEW m \in LeasesOf(u),
                        task'[u].lease # m
                 PROVE  submission'[u][m].action = "requeued"
      BY <1>4 DEF SupersededLeaseReported, LeasesOf
    <2>1. CASE u # t
      BY <1>2, <1>3, <2>1 DEF LeaseInvariant, SupersededLeaseReported
    <2>2. CASE u = t /\ m = tx.lease
      BY <1>1, <1>2, <1>3, <1>5, <2>2
    <2>3. CASE u = t /\ m # tx.lease
      <3>1. m \in Leases
        BY DEF LeasesOf
      <3> QED BY <1>1, <1>3, <2>3, <3>1
              DEF LeaseInvariant, SupersededLeaseReported
    <2> QED BY <2>1, <2>2, <2>3
  <1>10. AckedOutcomeHolds'
    <2> SUFFICES ASSUME NEW u \in Tasks, NEW m \in Leases,
                        submission'[u][m].action \in Terminal
                 PROVE  /\ task'[u].status = submission'[u][m].action
                        /\ task'[u].lease = m
                        /\ submission'[u][m].action # "expired" =>
                               task'[u].outcome = submission'[u][m].result
      BY DEF AckedOutcomeHolds
    <2>1. CASE u # t
      BY <1>2, <1>3, <2>1 DEF LeaseInvariant, AckedOutcomeHolds
    <2>2. CASE u = t /\ m = tx.lease
      BY <1>1, <1>2, <1>3, <1>5, <2>2 DEF Terminal
    <2>3. CASE u = t /\ m # tx.lease
      BY <1>1, <1>3, <2>3 DEF LeaseInvariant, AckedOutcomeHolds
    <2> QED BY <2>1, <2>2, <2>3
  <1> QED BY <1>6, <1>7, <1>8, <1>9, <1>10 DEF LeaseInvariant

\* Every step of the system preserves the lease invariant.
LEMMA NextLease == LeaseInvariant /\ [Next]_vars => LeaseInvariant'
  <1> SUFFICES ASSUME LeaseInvariant, [Next]_vars PROVE LeaseInvariant'
    OBVIOUS
  <1> USE DEF txVars, taskVars
  <1>1. TypeOK /\ TypeOK'
    BY NextType DEF LeaseInvariant
  <1>2. ASSUME UNCHANGED <<task, grant, submission, completeTx>>
        PROVE  LeaseInvariant'
    BY <1>1, <1>2, EndsOrKeepsLease DEF EndsOrKeeps
  <1>3. ASSUME NEW t \in Tasks, TaskStep(t) PROVE LeaseInvariant'
    <2>1. CASE CreateTask(t)
      <3>1. /\ task'[t].lease = None /\ task'[t].status = "queued"
            /\ \A u \in Tasks \ {t} : task'[u] = task[u]
            /\ task[t] = NoTask
            /\ UNCHANGED <<grant, submission, completeTx>>
        BY <1>1, <2>1 DEF CreateTask, TypeOK, NoTask
      <3>2. LeaseFollowsStatus'
        BY <3>1 DEF LeaseInvariant, LeaseFollowsStatus
      <3>3. CompletionCurrent'
        BY <3>1 DEF LeaseInvariant, CompletionCurrent, RowLocked, NoTask
      <3>4. RequeuedOnlyChat' /\ SupersededLeaseReported'
        BY <3>1 DEF LeaseInvariant, RequeuedOnlyChat, SupersededLeaseReported,
                    LeasesOf, NoTask
      <3>5. AckedOutcomeHolds'
        BY <3>1 DEF LeaseInvariant, AckedOutcomeHolds, NoTask, Terminal
      <3> QED BY <1>1, <3>2, <3>3, <3>4, <3>5 DEF LeaseInvariant
    <2>2. ASSUME NEW s \in Sessions, NEW l \in Leases, Claim(t, s, l)
          PROVE  LeaseInvariant'
      BY <1>1, <2>2, ClaimLease
    <2>3. ASSUME NEW l \in Leases, NEW s \in Sessions, NEW r \in Results,
                 CompleteBegin(t, l, s, r)
          PROVE  LeaseInvariant'
      BY <1>1, <2>3, CompleteBeginLease
    <2>4. CASE CompleteCommit(t)
      BY <1>1, <2>4, CompleteCommitLease
    <2>5. CASE CompleteAbort(t)
      BY <1>1, <2>5, CompleteAbortLease
    <2>6. ASSUME RejectInvalid(t) \/ InterruptManaged(t)
          PROVE  LeaseInvariant'
      <3>1. /\ ~RowLocked(t)
            /\ task[t].status \in {"queued", "leased"}
            /\ task'[t].status = "failed"
            /\ task'[t].lease = task[t].lease
            /\ \A u \in Tasks \ {t} : task'[u] = task[u]
            /\ UNCHANGED <<grant, submission, completeTx>>
        <4>1. CASE RejectInvalid(t)
          BY <1>1, <4>1 DEF RejectInvalid, TypeOK, TaskRows
        <4>2. CASE InterruptManaged(t)
          BY <1>1, <4>2 DEF InterruptManaged, TypeOK, TaskRows
        <4> QED BY <2>6, <4>1, <4>2
      <3> QED BY <1>1, <3>1, EndsOrKeepsLease DEF EndsOrKeeps, Terminal
    <2>7. CASE CancelTask(t)
      <3>1. /\ ~RowLocked(t)
            /\ \/ /\ task[t].status = "queued"
                  /\ task'[t].status = "failed"
               \/ /\ task'[t].status = task[t].status
                  /\ task'[t].outcome = task[t].outcome
            /\ task'[t].lease = task[t].lease
            /\ \A u \in Tasks \ {t} : task'[u] = task[u]
            /\ UNCHANGED <<grant, submission, completeTx>>
        <4>1. CASE task[t].status = "queued"
          <5> DEFINE row == [task[t] EXCEPT !.status = "failed",
                                            !.outcome = "cancelled",
                                            !.cancelRequested = TRUE]
          <5>1. /\ ~RowLocked(t)
                /\ task' = [task EXCEPT ![t] = row]
                /\ UNCHANGED <<grant, submission, completeTx>>
            BY <2>7, <4>1 DEF CancelTask
          <5>2. row.status = "failed" /\ row.lease = task[t].lease
            BY <1>1 DEF TypeOK, TaskRows
          <5> HIDE DEF row
          <5> QED BY <1>1, <4>1, <5>1, <5>2 DEF TypeOK
        <4>2. CASE task[t].status = "leased"
          BY <1>1, <2>7, <4>2 DEF CancelTask, TypeOK, TaskRows
        <4> QED BY <2>7, <4>1, <4>2 DEF CancelTask
      <3> QED BY <1>1, <3>1, EndsOrKeepsLease DEF EndsOrKeeps, Terminal
    <2>8. CASE ArchiveTask(t)
      <3>1. /\ ~RowLocked(t)
            /\ task'[t].status = task[t].status
            /\ task'[t].outcome = task[t].outcome
            /\ task'[t].lease = task[t].lease
            /\ \A u \in Tasks \ {t} : task'[u] = task[u]
            /\ UNCHANGED <<grant, submission, completeTx>>
        BY <1>1, <2>8 DEF ArchiveTask, TypeOK, TaskRows
      <3> QED BY <1>1, <3>1, EndsOrKeepsLease DEF EndsOrKeeps
    <2>9. CASE RevokeIdentity(t) \/ DeadlinePasses(t) \/ GracePasses(t)
      BY <1>2, <2>9 DEF RevokeIdentity, DeadlinePasses, GracePasses
    <2> QED
      BY <1>3, <2>1, <2>2, <2>3, <2>4, <2>5, <2>6, <2>7, <2>8, <2>9
      DEF TaskStep
  <1>4. ASSUME NEW n \in Nodes, NodeStep(n) PROVE LeaseInvariant'
    BY <1>2, <1>4
    DEF NodeStep, RegisterBegin, ExcludeNode, RecoverNode, RevokeNode,
        DeleteNode
  <1>5. ASSUME NEW s \in Sessions, SessionStep(s) PROVE LeaseInvariant'
    BY <1>2, <1>5
    DEF SessionStep, RegisterCommit, Heartbeat, Negotiate, SessionExpires
  <1>6. CASE RegisterAbort
    BY <1>2, <1>6 DEF RegisterAbort
  <1>7. ASSUME NEW silent \in SUBSET Nodes, Sweep(silent)
        PROVE  LeaseInvariant'
    <2>1. ASSUME NEW t \in Tasks PROVE EndsOrKeeps(t)
      <3>1. task'[t] = ExpiredTask(t)
        BY <1>7 DEF Sweep
      <3>2. CASE ExpiredTask(t) = task[t]
        BY <3>1, <3>2 DEF EndsOrKeeps
      <3>3. CASE ExpiredTask(t) # task[t]
        <4>1. /\ task[t].status \in {"queued", "leased"}
              /\ ExpiredTask(t) = [task[t] EXCEPT !.status = "expired"]
          BY <3>3 DEF ExpiredTask
        <4>2. ~RowLocked(t)
          BY <1>7, <3>3 DEF Sweep
        <4>3. task'[t].status = "expired" /\ task'[t].lease = task[t].lease
          BY <1>1, <3>1, <4>1 DEF TypeOK, TaskRows
        <4> QED BY <4>1, <4>2, <4>3 DEF EndsOrKeeps, Terminal
      <3> QED BY <3>2, <3>3
    <2>2. UNCHANGED <<grant, submission, completeTx>>
      BY <1>7 DEF Sweep
    <2> QED BY <1>1, <2>1, <2>2, EndsOrKeepsLease
  <1>8. ASSUME NEW active \in BOOLEAN, SetTenant(active) PROVE LeaseInvariant'
    BY <1>2, <1>8 DEF SetTenant
  <1>9. CASE \/ UNCHANGED vars
             \/ \E owned \in SUBSET Nodes, sent \in SUBSET Tasks :
                    SuspendMember(owned, sent)
    BY <1>2, <1>9 DEF vars, SuspendMember
  <1> QED BY <1>3, <1>4, <1>5, <1>6, <1>7, <1>8, <1>9 DEF Next


\* The lease invariant is an invariant of the node gateway's tables.
THEOREM LeaseInvariantHolds == Spec => []LeaseInvariant
  BY InitLease, NextLease, PTL DEF Spec

\* A lease is superseded only after its own failure report was recorded as
\* requeued, however claims, completions, sweeps and drains interleave.
THEOREM LeaseSafety == Spec => []SupersededLeaseReported
  <1>1. LeaseInvariant => SupersededLeaseReported
    BY DEF LeaseInvariant
  <1> QED BY <1>1, LeaseInvariantHolds, PTL

\* A native task is leased at most once: an uncertain outcome never starts a
\* second generation.
THEOREM NativeSafety == Spec => []NativeRunsOnce
  <1>1. LeaseInvariant => NativeRunsOnce
    <2> SUFFICES ASSUME LeaseInvariant, NEW t \in Tasks, Native(t),
                        NEW k \in LeasesOf(t), NEW l \in LeasesOf(t)
                 PROVE  k = l
      BY DEF NativeRunsOnce
    <2>1. k \in Leases /\ l \in Leases
      BY DEF LeasesOf
    <2>2. task[t].lease = k /\ task[t].lease = l
      BY <2>1 DEF LeaseInvariant, SupersededLeaseReported, RequeuedOnlyChat
    <2> QED BY <2>2
  <1> QED BY <1>1, LeaseInvariantHolds, PTL

\* What complete_task answered a worker stays true of the task.
THEOREM AckSafety == Spec => []AckedOutcomeHolds
  <1>1. LeaseInvariant => AckedOutcomeHolds
    BY DEF LeaseInvariant
  <1> QED BY <1>1, LeaseInvariantHolds, PTL

\* A task that has ended keeps its status and outcome.
LEMMA EndedStep ==
    ASSUME LeaseInvariant, [Next]_vars, NEW t \in Tasks,
           task[t].status \in Terminal
    PROVE  /\ task'[t].status = task[t].status
           /\ task'[t].outcome = task[t].outcome
  <1> USE DEF txVars, taskVars
  <1>1. TypeOK
    BY DEF LeaseInvariant
  <1>2. ASSUME task' = task
        PROVE  /\ task'[t].status = task[t].status
               /\ task'[t].outcome = task[t].outcome
    BY <1>2
  <1>3. ASSUME NEW u \in Tasks, TaskStep(u)
        PROVE  /\ task'[t].status = task[t].status
               /\ task'[t].outcome = task[t].outcome
    <2>1. CASE CompleteCommit(u)
      <3> DEFINE tx == completeTx[u]
      <3>1. task' = [task EXCEPT ![u] = CompletedTask(u, tx)]
        BY <2>1 DEF CompleteCommit
      <3>2. CASE u = t
        <4>1. tx.late /\ task[t].status = "expired"
          BY <2>1, <3>2
          DEF CompleteCommit, LeaseInvariant, CompletionCurrent, Terminal
        <4>2. ActionOf(t, tx) = "expired"
          BY <4>1 DEF ActionOf
        <4>3. /\ CompletedTask(t, tx).status = "expired"
              /\ CompletedTask(t, tx).outcome = task[t].outcome
          BY <1>1, <4>2, CompletedTaskFields
        <4> HIDE DEF tx
        <4> QED BY <1>1, <3>1, <3>2, <4>1, <4>3 DEF TypeOK
      <3>3. CASE u # t
        BY <1>1, <3>1, <3>3 DEF TypeOK
      <3> QED BY <3>2, <3>3
    <2>2. CASE ArchiveTask(u)
      BY <1>1, <2>2 DEF ArchiveTask, TypeOK, TaskRows
    <2>3. ASSUME \/ CreateTask(u)
                 \/ \E s \in Sessions, l \in Leases : Claim(u, s, l)
                 \/ RejectInvalid(u) \/ InterruptManaged(u) \/ CancelTask(u)
          PROVE  task'[t] = task[t]
      <3>1. ASSUME task[u].status \in {"absent", "queued", "leased"}
            PROVE  u # t
        BY <3>1 DEF Terminal
      <3>2. CASE CreateTask(u)
        BY <1>1, <3>1, <3>2 DEF CreateTask, TypeOK, NoTask
      <3>3. CASE \E s \in Sessions, l \in Leases : Claim(u, s, l)
        BY <1>1, <3>1, <3>3 DEF Claim, Claimable, TypeOK
      <3>4. CASE RejectInvalid(u)
        BY <1>1, <3>1, <3>4 DEF RejectInvalid, TypeOK
      <3>5. CASE InterruptManaged(u)
        BY <1>1, <3>1, <3>5 DEF InterruptManaged, TypeOK
      <3>6. CASE CancelTask(u)
        BY <1>1, <3>1, <3>6 DEF CancelTask, TypeOK
      <3> QED BY <2>3, <3>2, <3>3, <3>4, <3>5, <3>6
    <2>4. CASE \/ \E l \in Leases, s \in Sessions, r \in Results :
                      CompleteBegin(u, l, s, r)
               \/ CompleteAbort(u) \/ RevokeIdentity(u)
               \/ DeadlinePasses(u) \/ GracePasses(u)
      BY <1>2, <2>4 DEF CompleteBegin, CompleteAbort, RevokeIdentity,
                        DeadlinePasses, GracePasses
    <2> QED BY <1>3, <2>1, <2>2, <2>3, <2>4 DEF TaskStep
  <1>4. ASSUME NEW n \in Nodes, NodeStep(n) PROVE task' = task
    BY <1>4
    DEF NodeStep, RegisterBegin, ExcludeNode, RecoverNode, RevokeNode,
        DeleteNode
  <1>5. ASSUME NEW s \in Sessions, SessionStep(s) PROVE task' = task
    BY <1>5
    DEF SessionStep, RegisterCommit, Heartbeat, Negotiate, SessionExpires
  <1>6. ASSUME NEW silent \in SUBSET Nodes, Sweep(silent)
        PROVE  /\ task'[t].status = task[t].status
               /\ task'[t].outcome = task[t].outcome
    BY <1>6 DEF Sweep, ExpiredTask, Terminal
  <1>7. CASE \/ RegisterAbort \/ UNCHANGED vars
             \/ \E active \in BOOLEAN : SetTenant(active)
             \/ \E owned \in SUBSET Nodes, sent \in SUBSET Tasks :
                    SuspendMember(owned, sent)
    BY <1>2, <1>7 DEF RegisterAbort, SetTenant, SuspendMember, vars
  <1> QED BY <1>2, <1>3, <1>4, <1>5, <1>6, <1>7 DEF Next

\* The status and outcome of a task that has ended are final.
THEOREM OutcomeIsFinal == Spec => OutcomeFinal
  <1>1. LeaseInvariant /\ [Next]_vars =>
            [\A t \in Tasks : task[t].status \in Terminal =>
                 /\ task'[t].status = task[t].status
                 /\ task'[t].outcome = task[t].outcome]_vars
    BY EndedStep
  <1> QED BY <1>1, LeaseInvariantHolds, PTL DEF Spec, OutcomeFinal


-----------------------------------------------------------------------------
(* The number of executions.                                               *)

\* The part of the proof that counts.
CountInvariant == LeaseInvariant /\ FailuresPayForLeases /\ ExecutionsBounded

\* A step that grants no lease, moves none and forgets no failure.
CountKept(t) ==
    /\ task'[t].lease = task[t].lease
    /\ task'[t].failures >= task[t].failures
    /\ task'[t].status \in Terminal \/ task'[t].failures = task[t].failures
    /\ task'[t].status \in Terminal \/ task[t].status \notin Terminal

\* Such a step preserves the count.
LEMMA CountKeptStep ==
    ASSUME CountInvariant, LeaseInvariant', grant' = grant,
           NEW t \in Tasks, CountKept(t)
    PROVE  /\ IsFiniteSet(LeasesOf(t)')
           /\ Cardinality(LeasesOf(t)') <=
                  task'[t].failures + (IF task'[t].lease = None THEN 0 ELSE 1)
           /\ task'[t].status \in {"absent", "queued", "leased"} =>
                  task'[t].failures < TaskThreshold
           /\ Cardinality(LeasesOf(t)') <= TaskThreshold
  <1>1. LeasesOf(t)' = LeasesOf(t)
    BY DEF LeasesOf
  <1>2. /\ task[t].failures \in Nat /\ task'[t].failures \in Nat
        /\ task[t].status \in {"absent", "queued", "leased"} \cup Terminal
        /\ task'[t].status \in {"absent", "queued", "leased"} \cup Terminal
    BY DEF CountInvariant, LeaseInvariant, TypeOK, TaskRows
  <1>3. /\ IsFiniteSet(LeasesOf(t))
        /\ Cardinality(LeasesOf(t)) <=
               task[t].failures + (IF task[t].lease = None THEN 0 ELSE 1)
        /\ task[t].status \in {"absent", "queued", "leased"} =>
               task[t].failures < TaskThreshold
        /\ Cardinality(LeasesOf(t)) <= TaskThreshold
    BY DEF CountInvariant, FailuresPayForLeases, ExecutionsBounded
  <1>4. Cardinality(LeasesOf(t)) \in Nat
    BY <1>3, FS_CardinalityType
  <1> QED
    BY <1>1, <1>2, <1>3, <1>4, ConstantsAssumption DEF CountKept, Terminal

\* A claim adds one lease to a task whose failures paid for the others.
LEMMA CountClaim ==
    ASSUME CountInvariant, LeaseInvariant',
           NEW t \in Tasks, NEW s \in Sessions, NEW l \in Leases, Claim(t, s, l)
    PROVE  CountInvariant'
  <1>1. /\ task[t].status = "queued" /\ task[t].lease = None
        /\ task[t].failures \in Nat
    BY DEF Claim, Claimable, CountInvariant, LeaseInvariant,
           LeaseFollowsStatus, TypeOK, TaskRows
  <1>2. /\ task'[t].lease = l /\ task'[t].failures = task[t].failures
        /\ \A u \in Tasks \ {t} : task'[u] = task[u]
    BY DEF Claim, CountInvariant, LeaseInvariant, TypeOK, TaskRows
  <1>3. /\ grant[l].task = None
        /\ grant'[l].task = t
        /\ \A m \in Leases \ {l} : grant'[m] = grant[m]
    BY DEF Claim, CountInvariant, LeaseInvariant, TypeOK, NoGrant
  <1>4. /\ LeasesOf(t)' = LeasesOf(t) \cup {l}
        /\ l \notin LeasesOf(t)
        /\ \A u \in Tasks \ {t} : LeasesOf(u)' = LeasesOf(u)
    BY <1>3, ConstantsAssumption DEF LeasesOf
  <1>5. /\ IsFiniteSet(LeasesOf(t))
        /\ Cardinality(LeasesOf(t)) \in Nat
        /\ Cardinality(LeasesOf(t)) <= task[t].failures
        /\ task[t].failures < TaskThreshold
    BY <1>1, FS_CardinalityType DEF CountInvariant, FailuresPayForLeases
  <1>6. /\ IsFiniteSet(LeasesOf(t)')
        /\ Cardinality(LeasesOf(t)') = Cardinality(LeasesOf(t)) + 1
    BY <1>4, <1>5, FS_AddElement
  <1>7. l # None
    BY ConstantsAssumption
  <1>8. FailuresPayForLeases'
    <2> SUFFICES ASSUME NEW u \in Tasks
                 PROVE  (/\ IsFiniteSet(LeasesOf(u))
                         /\ Cardinality(LeasesOf(u)) <= task[u].failures +
                                (IF task[u].lease = None THEN 0 ELSE 1)
                         /\ task[u].status \in {"absent", "queued", "leased"} =>
                                task[u].failures < TaskThreshold)'
      BY DEF FailuresPayForLeases
    <2>1. CASE u = t
      <3>1. task'[t].lease # None
        BY <1>2, <1>7
      <3>2. Cardinality(LeasesOf(t)') <= task'[t].failures + 1
        BY <1>1, <1>2, <1>5, <1>6
      <3>3. task'[t].failures < TaskThreshold
        BY <1>2, <1>5
      <3> QED BY <1>6, <2>1, <3>1, <3>2, <3>3
    <2>2. CASE u # t
      BY <1>2, <1>4, <2>2 DEF CountInvariant, FailuresPayForLeases
    <2> QED BY <2>1, <2>2
  <1>9. ExecutionsBounded'
    <2> SUFFICES ASSUME NEW u \in Tasks
                 PROVE  Cardinality(LeasesOf(u)') <= TaskThreshold
      BY DEF ExecutionsBounded
    <2>1. CASE u = t
      BY <1>1, <1>5, <1>6, <2>1, ConstantsAssumption
    <2>2. CASE u # t
      BY <1>4, <2>2 DEF CountInvariant, ExecutionsBounded
    <2> QED BY <2>1, <2>2
  <1> QED BY <1>8, <1>9 DEF CountInvariant

\* A completion pays for the lease it hands back with a failure.
LEMMA CountCommit ==
    ASSUME CountInvariant, LeaseInvariant', NEW t \in Tasks, CompleteCommit(t)
    PROVE  CountInvariant'
  <1> DEFINE tx == completeTx[t]
             done == CompletedTask(t, tx)
  <1>1. /\ grant' = grant
        /\ task'[t] = done
        /\ \A u \in Tasks \ {t} : task'[u] = task[u]
    BY DEF CompleteCommit, CountInvariant, LeaseInvariant, TypeOK
  <1>2. task[t].status \notin {"absent", "queued"} /\ task[t].lease \in Leases
    BY DEF CompleteCommit, CountInvariant, LeaseInvariant, CompletionCurrent
  <1>3. /\ ActionOf(t, tx) = "requeued" =>
               /\ task[t].status = "leased"
               /\ task[t].failures + 1 < TaskThreshold
               /\ done.status = "queued" /\ done.lease = None
               /\ done.failures = task[t].failures + 1
        /\ ActionOf(t, tx) # "requeued" =>
               /\ done.status \in Terminal
               /\ done.lease = task[t].lease
               /\ done.failures >= task[t].failures
    BY CompletedTaskFields
    DEF CompleteCommit, CountInvariant, LeaseInvariant, CompletionCurrent,
        Terminal
  <1> HIDE DEF tx, done
  <1>4. ASSUME NEW u \in Tasks \ {t} PROVE CountKept(u)
    <2>1. task[u].failures \in Nat
      BY DEF CountInvariant, LeaseInvariant, TypeOK, TaskRows
    <2> QED BY <1>1, <2>1 DEF CountKept
  <1>5. CASE ActionOf(t, tx) # "requeued"
    <2>1. CountKept(t)
      BY <1>1, <1>3, <1>5 DEF CountKept
    <2>2. \A u \in Tasks : CountKept(u)
      BY <1>4, <2>1
    <2> QED BY <1>1, <2>2, CountKeptStep
            DEF CountInvariant, FailuresPayForLeases, ExecutionsBounded
  <1>6. CASE ActionOf(t, tx) = "requeued"
    <2>1. LeasesOf(t)' = LeasesOf(t)
      BY <1>1 DEF LeasesOf
    <2>2. task[t].lease # None
      BY <1>2, ConstantsAssumption
    <2>3. /\ IsFiniteSet(LeasesOf(t))
          /\ Cardinality(LeasesOf(t)) <= task[t].failures + 1
          /\ Cardinality(LeasesOf(t)) <= TaskThreshold
      BY <2>2 DEF CountInvariant, FailuresPayForLeases, ExecutionsBounded
    <2>4. task'[t].failures \in Nat
      BY DEF LeaseInvariant, TypeOK, TaskRows
    <2>5. task'[t].failures + 0 = task'[t].failures
      BY <2>4
    <2>6. /\ IsFiniteSet(LeasesOf(t)')
          /\ Cardinality(LeasesOf(t)') <=
                 task'[t].failures + (IF task'[t].lease = None THEN 0 ELSE 1)
          /\ task'[t].failures < TaskThreshold
          /\ Cardinality(LeasesOf(t)') <= TaskThreshold
      BY <1>1, <1>3, <1>6, <2>1, <2>3, <2>5
    <2> QED BY <1>1, <1>4, <2>6, CountKeptStep
            DEF CountInvariant, FailuresPayForLeases, ExecutionsBounded
  <1> QED BY <1>5, <1>6

\* Every step preserves the count.
LEMMA NextCount == CountInvariant /\ [Next]_vars => CountInvariant'
  <1> SUFFICES ASSUME CountInvariant, [Next]_vars PROVE CountInvariant'
    OBVIOUS
  <1> USE DEF txVars, taskVars
  <1>1. /\ LeaseInvariant' /\ TypeOK
        /\ \A u \in Tasks : task[u].failures \in Nat
    BY NextLease DEF CountInvariant, LeaseInvariant, TypeOK, TaskRows
  <1>2. ASSUME grant' = grant, \A u \in Tasks : CountKept(u)
        PROVE  CountInvariant'
    BY <1>1, <1>2, CountKeptStep
    DEF CountInvariant, FailuresPayForLeases, ExecutionsBounded
  <1>3. ASSUME UNCHANGED <<task, grant>> PROVE CountInvariant'
    BY <1>1, <1>2, <1>3 DEF CountKept
  <1>4. ASSUME NEW t \in Tasks, TaskStep(t) PROVE CountInvariant'
    <2>1. ASSUME NEW row, task' = [task EXCEPT ![t] = row], grant' = grant,
                 row.lease = task[t].lease, row.failures = task[t].failures,
                 row.status \in Terminal \/ task[t].status \notin Terminal
          PROVE  CountInvariant'
      BY <1>1, <1>2, <2>1 DEF CountKept, TypeOK
    <2>2. CASE CreateTask(t)
      <3> DEFINE row == [task[t] EXCEPT !.status = "queued"]
      <3>1. task' = [task EXCEPT ![t] = row] /\ grant' = grant
        BY <2>2 DEF CreateTask
      <3>2. /\ row.lease = task[t].lease /\ row.failures = task[t].failures
            /\ task[t].status \notin Terminal
        BY <1>1, <2>2 DEF CreateTask, TypeOK, TaskRows, NoTask, Terminal
      <3> HIDE DEF row
      <3> QED BY <2>1, <3>1, <3>2
    <2>3. ASSUME NEW s \in Sessions, NEW l \in Leases, Claim(t, s, l)
          PROVE  CountInvariant'
      BY <1>1, <2>3, CountClaim
    <2>4. CASE CompleteCommit(t)
      BY <1>1, <2>4, CountCommit
    <2>5. CASE RejectInvalid(t)
      BY <1>1, <2>1, <2>5 DEF RejectInvalid, TypeOK, TaskRows, Terminal
    <2>6. CASE InterruptManaged(t)
      BY <1>1, <2>1, <2>6 DEF InterruptManaged, TypeOK, TaskRows, Terminal
    <2>7. CASE CancelTask(t) /\ task[t].status = "queued"
      <3> DEFINE row == [task[t] EXCEPT !.status = "failed",
                                        !.outcome = "cancelled",
                                        !.cancelRequested = TRUE]
      <3>1. task' = [task EXCEPT ![t] = row] /\ grant' = grant
        BY <2>7 DEF CancelTask
      <3>2. /\ row.lease = task[t].lease /\ row.failures = task[t].failures
            /\ row.status = "failed"
        BY <1>1 DEF TypeOK, TaskRows
      <3> HIDE DEF row
      <3> QED BY <2>1, <3>1, <3>2 DEF Terminal
    <2>8. CASE CancelTask(t) /\ task[t].status = "leased"
      BY <1>1, <2>1, <2>8 DEF CancelTask, TypeOK, TaskRows, Terminal
    <2>9. CASE ArchiveTask(t)
      BY <1>1, <2>1, <2>9 DEF ArchiveTask, TypeOK, TaskRows, Terminal
    <2>10. CASE \/ \E l \in Leases, s \in Sessions, r \in Results :
                       CompleteBegin(t, l, s, r)
                \/ CompleteAbort(t) \/ RevokeIdentity(t)
                \/ DeadlinePasses(t) \/ GracePasses(t)
      BY <1>3, <2>10 DEF CompleteBegin, CompleteAbort, RevokeIdentity,
                         DeadlinePasses, GracePasses
    <2>11. CancelTask(t) => task[t].status \in {"queued", "leased"}
      BY DEF CancelTask
    <2> QED
      BY <1>4, <2>2, <2>3, <2>4, <2>5, <2>6, <2>7, <2>8, <2>9, <2>10, <2>11
      DEF TaskStep
  <1>5. ASSUME NEW n \in Nodes, NodeStep(n) PROVE UNCHANGED <<task, grant>>
    BY <1>5
    DEF NodeStep, RegisterBegin, ExcludeNode, RecoverNode, RevokeNode,
        DeleteNode
  <1>6. ASSUME NEW s \in Sessions, SessionStep(s)
        PROVE  UNCHANGED <<task, grant>>
    BY <1>6
    DEF SessionStep, RegisterCommit, Heartbeat, Negotiate, SessionExpires
  <1>7. ASSUME NEW silent \in SUBSET Nodes, Sweep(silent)
        PROVE  CountInvariant'
    <2>1. grant' = grant
      BY <1>7 DEF Sweep
    <2>2. ASSUME NEW u \in Tasks PROVE CountKept(u)
      <3>1. task'[u] = ExpiredTask(u) /\ task[u] \in TaskRows
        BY <1>1, <1>7 DEF Sweep, TypeOK
      <3>2. CASE ExpiredTask(u) = task[u]
        BY <1>1, <3>1, <3>2 DEF CountKept
      <3>3. CASE ExpiredTask(u) # task[u]
        <4>1. ExpiredTask(u) = [task[u] EXCEPT !.status = "expired"]
          BY <3>3 DEF ExpiredTask
        <4> QED BY <1>1, <3>1, <4>1 DEF CountKept, TaskRows, Terminal
      <3> QED BY <3>2, <3>3
    <2> QED BY <1>2, <2>1, <2>2
  <1>8. CASE \/ RegisterAbort \/ UNCHANGED vars
             \/ \E active \in BOOLEAN : SetTenant(active)
             \/ \E owned \in SUBSET Nodes, sent \in SUBSET Tasks :
                    SuspendMember(owned, sent)
    BY <1>3, <1>8 DEF RegisterAbort, SetTenant, SuspendMember, vars
  <1> QED BY <1>3, <1>4, <1>5, <1>6, <1>7, <1>8 DEF Next

\* No task is handed out more often than its failure threshold.
THEOREM ExecutionBound == Spec => []ExecutionsBounded
  <1>1. Init => CountInvariant
    <2> SUFFICES ASSUME Init PROVE CountInvariant
      OBVIOUS
    <2>1. LeaseInvariant
      BY InitLease
    <2>2. \A t \in Tasks : LeasesOf(t) = {}
      BY ConstantsAssumption DEF Init, LeasesOf, NoGrant
    <2>3. \A t \in Tasks : IsFiniteSet(LeasesOf(t))
                           /\ Cardinality(LeasesOf(t)) = 0
      BY <2>2, FS_EmptySet
    <2>4. \A t \in Tasks : task[t].failures = 0 /\ task[t].lease = None
      BY DEF Init, NoTask
    <2> QED BY <2>1, <2>3, <2>4, ConstantsAssumption
            DEF CountInvariant, FailuresPayForLeases, ExecutionsBounded
  <1>2. CountInvariant => ExecutionsBounded
    BY DEF CountInvariant
  <1> QED BY <1>1, <1>2, NextCount, PTL DEF Spec

\* A chat task runs at most failure_threshold times, a native one once.
THEOREM RunBound == Spec => []RunsBounded
  <1>1. ExecutionsBounded /\ NativeRunsOnce => RunsBounded
    BY DEF RunsBounded
  <1> QED BY <1>1, ExecutionBound, NativeSafety, PTL

-----------------------------------------------------------------------------
(* Drained sessions.                                                       *)

\* Together: the inductive invariant about drains.
DrainInvariant == TypeOK /\ SessionsMatchNodes /\ DrainHoldsLeases

\* A step that leases nothing and turns no clock back.
LeasesShrink ==
    /\ session' = session
    /\ \A t \in Tasks :
           /\ task'[t].status = "leased" =>
                  /\ task[t].status = "leased"
                  /\ task'[t].session = task[t].session
                  /\ task'[t].node = task[t].node
           /\ clock'[t] # "closed" => clock[t] # "closed"

\* Such a step preserves the drain invariant.
LEMMA LeasesShrinkDrain ==
    ASSUME DrainInvariant, TypeOK', LeasesShrink
    PROVE  DrainInvariant'
  <1>1. SessionsMatchNodes'
    BY DEF DrainInvariant, SessionsMatchNodes, LeasesShrink
  <1>2. \A s \in Sessions : LeasedTo(s)' \subseteq LeasedTo(s)
    BY DEF LeasesShrink, LeasedTo
  <1>3. DrainHoldsLeases'
    <2> SUFFICES ASSUME NEW s \in Sessions, session[s].stop = "drain",
                        NEW t \in LeasedTo(s)', clock'[t] # "closed"
                 PROVE  session[s].state = "valid" /\ t \in session[s].holds
      BY DEF DrainInvariant, DrainHoldsLeases, LeasesShrink
    <2>1. t \in LeasedTo(s) /\ t \in Tasks
      BY <1>2 DEF LeasedTo
    <2> QED BY <2>1 DEF DrainInvariant, DrainHoldsLeases, LeasesShrink
  <1> QED BY <1>1, <1>3 DEF DrainInvariant

\* What a drain leaves of a session.
LEMMA DrainedSessionFields ==
    ASSUME TypeOK, NEW s \in Sessions
    PROVE  /\ DrainedSession(s).node = session[s].node
           /\ DrainedSession(s).from = session[s].from
           /\ ~DrainedSession(s).accepting
           /\ session[s].state # "absent" => DrainedSession(s).state # "absent"
           /\ \A t \in LeasedTo(s) :
                  /\ t \in DrainedSession(s).holds
                  /\ clock[t] # "closed" => DrainedSession(s).state = "valid"
  <1>1. session[s] \in SessionRows
    BY DEF TypeOK
  <1> QED BY <1>1 DEF DrainedSession, SessionRows, Stops

\* A session is replaced by one that takes work, and either did not exist or
\* stays on its node; its predecessor exists on the same node.
Replaced(s) ==
    /\ session'[s].state = "valid" /\ session'[s].stop = "none"
    /\ session[s].state = "absent" \/ session'[s].node = session[s].node
    /\ session'[s].from \in Sessions =>
           /\ session[session'[s].from].state # "absent"
           /\ session[session'[s].from].node = session'[s].node

\* A session stops accepting tasks as its owner is suspended.
Suspended(s) ==
    /\ session'[s].state = session[s].state
    /\ session'[s].node = session[s].node
    /\ session'[s].from = session[s].from
    /\ session'[s].stop # "drain"

\* A step that drains, suspends or replaces sessions preserves the invariant.
LEMMA DrainsOrReplaces ==
    ASSUME DrainInvariant, TypeOK', UNCHANGED <<task, clock>>,
           \A s \in Sessions : \/ session'[s] = session[s]
                               \/ session'[s] = DrainedSession(s)
                               \/ Replaced(s)
                               \/ Suspended(s)
    PROVE  DrainInvariant'
  <1>1. TypeOK
    BY DEF DrainInvariant
  <1>2. ASSUME NEW s \in Sessions, session[s].state # "absent"
        PROVE  session'[s].state # "absent" /\ session'[s].node = session[s].node
    BY <1>1, <1>2, DrainedSessionFields DEF Replaced, Suspended
  <1>3. ASSUME NEW s \in Sessions, session'[s].from \in Sessions
        PROVE  /\ session'[session'[s].from].state # "absent"
               /\ session'[session'[s].from].node = session'[s].node
    <2>1. CASE Replaced(s)
      BY <1>2, <1>3, <2>1 DEF Replaced
    <2>2. CASE \/ session'[s] = session[s]
               \/ session'[s] = DrainedSession(s)
               \/ Suspended(s)
      <3>1. /\ session'[s].from = session[s].from
            /\ session'[s].node = session[s].node
        BY <1>1, <2>2, DrainedSessionFields DEF Suspended
      <3>2. /\ session[session[s].from].state # "absent"
            /\ session[session[s].from].node = session[s].node
        BY <1>3, <3>1 DEF DrainInvariant, SessionsMatchNodes
      <3> QED BY <1>2, <1>3, <3>1, <3>2
    <2> QED BY <2>1, <2>2
  <1>4. SessionsMatchNodes'
    <2>1. ASSUME NEW t \in Tasks, task[t].status = "leased"
          PROVE  /\ task[t].session \in Sessions
                 /\ session'[task[t].session].state # "absent"
                 /\ session'[task[t].session].node = task[t].node
      BY <1>2, <2>1 DEF DrainInvariant, SessionsMatchNodes
    <2> QED BY <1>3, <2>1 DEF SessionsMatchNodes
  <1>5. \A s \in Sessions : LeasedTo(s)' = LeasedTo(s)
    BY DEF LeasedTo
  <1>6. DrainHoldsLeases'
    <2> SUFFICES ASSUME NEW s \in Sessions, session'[s].stop = "drain"
                 PROVE  /\ ~session'[s].accepting
                        /\ \A t \in LeasedTo(s) : clock[t] # "closed" =>
                               /\ session'[s].state = "valid"
                               /\ t \in session'[s].holds
      BY <1>5 DEF DrainHoldsLeases
    <2>1. CASE session'[s] = DrainedSession(s)
      BY <1>1, <2>1, DrainedSessionFields
    <2>2. CASE session'[s] = session[s]
      BY <2>2 DEF DrainInvariant, DrainHoldsLeases
    <2> QED BY <2>1, <2>2 DEF Replaced, Suspended
  <1> QED BY <1>4, <1>6 DEF DrainInvariant

\* A claim is made by a session that is not drained.
LEMMA ClaimDrain ==
    ASSUME DrainInvariant, TypeOK',
           NEW t \in Tasks, NEW s \in Sessions, NEW l \in Leases, Claim(t, s, l)
    PROVE  DrainInvariant'
  <1>1. /\ task'[t].session = s /\ task'[t].node = session[s].node
        /\ \A u \in Tasks \ {t} : task'[u] = task[u]
        /\ UNCHANGED <<session, clock>>
        /\ session[s].state = "valid" /\ session[s].accepting
    <2> DEFINE row == [task[t] EXCEPT !.status = "leased",
                                      !.node = session[s].node,
                                      !.session = s, !.lease = l]
    <2>1. task' = [task EXCEPT ![t] = row]
      BY DEF Claim
    <2>2. row.session = s /\ row.node = session[s].node
      BY DEF DrainInvariant, TypeOK, TaskRows
    <2> HIDE DEF row
    <2>3. /\ task'[t] = row
          /\ \A u \in Tasks \ {t} : task'[u] = task[u]
      BY <2>1 DEF DrainInvariant, TypeOK
    <2> QED BY <2>2, <2>3 DEF Claim, Claimable
  <1>2. SessionsMatchNodes'
    BY <1>1 DEF DrainInvariant, SessionsMatchNodes
  <1>3. ASSUME NEW x \in Sessions, x # s PROVE LeasedTo(x)' \subseteq LeasedTo(x)
    BY <1>1, <1>3 DEF LeasedTo
  <1>4. DrainHoldsLeases'
    BY <1>1, <1>3 DEF DrainInvariant, DrainHoldsLeases
  <1> QED BY <1>2, <1>4 DEF DrainInvariant

\* A completion never leaves the task leased.
LEMMA CommitDrain ==
    ASSUME DrainInvariant, TypeOK', NEW t \in Tasks, CompleteCommit(t)
    PROVE  DrainInvariant'
  <1> DEFINE done == CompletedTask(t, completeTx[t])
  <1>1. /\ task'[t] = done
        /\ \A u \in Tasks \ {t} : task'[u] = task[u]
        /\ UNCHANGED <<session, clock>>
    BY DEF CompleteCommit, DrainInvariant, TypeOK
  <1>2. done.status # "leased"
    BY CompletedTaskFields DEF DrainInvariant
  <1> HIDE DEF done
  <1> QED BY <1>1, <1>2, LeasesShrinkDrain DEF LeasesShrink

\* Every step preserves the drain invariant.
LEMMA NextDrain == DrainInvariant /\ [Next]_vars => DrainInvariant'
  <1> SUFFICES ASSUME DrainInvariant, [Next]_vars PROVE DrainInvariant'
    OBVIOUS
  <1> USE DEF txVars, taskVars
  <1>1. TypeOK /\ TypeOK'
    BY NextType DEF DrainInvariant
  <1>2. ASSUME UNCHANGED <<task, clock, session>> PROVE DrainInvariant'
    BY <1>1, <1>2, LeasesShrinkDrain DEF LeasesShrink
  <1>3. ASSUME NEW t \in Tasks, TaskStep(t) PROVE DrainInvariant'
    <2>1. ASSUME NEW row, task' = [task EXCEPT ![t] = row],
                 UNCHANGED <<session, clock>>,
                 \/ row.status # "leased"
                 \/ /\ task[t].status = "leased"
                    /\ row.session = task[t].session
                    /\ row.node = task[t].node
          PROVE  DrainInvariant'
      BY <1>1, <2>1, LeasesShrinkDrain DEF LeasesShrink, TypeOK
    <2>2. CASE CreateTask(t)
      <3> DEFINE row == [task[t] EXCEPT !.status = "queued"]
      <3>1. task' = [task EXCEPT ![t] = row] /\ UNCHANGED <<session, clock>>
        BY <2>2 DEF CreateTask
      <3>2. row.status = "queued"
        BY <1>1 DEF TypeOK, TaskRows
      <3> HIDE DEF row
      <3> QED BY <2>1, <3>1, <3>2
    <2>3. ASSUME NEW s \in Sessions, NEW l \in Leases, Claim(t, s, l)
          PROVE  DrainInvariant'
      BY <1>1, <2>3, ClaimDrain
    <2>4. CASE CompleteCommit(t)
      BY <1>1, <2>4, CommitDrain
    <2>5. CASE RejectInvalid(t)
      <3> DEFINE row == [task[t] EXCEPT !.status = "failed",
                                        !.outcome = "authority_invalid"]
      <3>1. task' = [task EXCEPT ![t] = row] /\ UNCHANGED <<session, clock>>
        BY <2>5 DEF RejectInvalid
      <3>2. row.status = "failed"
        BY <1>1 DEF TypeOK, TaskRows
      <3> HIDE DEF row
      <3> QED BY <2>1, <3>1, <3>2
    <2>6. CASE InterruptManaged(t)
      <3> DEFINE row == [task[t] EXCEPT !.status = "failed",
                                        !.outcome = "interrupted"]
      <3>1. task' = [task EXCEPT ![t] = row] /\ UNCHANGED <<session, clock>>
        BY <2>6 DEF InterruptManaged
      <3>2. row.status = "failed"
        BY <1>1 DEF TypeOK, TaskRows
      <3> HIDE DEF row
      <3> QED BY <2>1, <3>1, <3>2
    <2>7. CASE CancelTask(t) /\ task[t].status = "queued"
      <3> DEFINE row == [task[t] EXCEPT !.status = "failed",
                                        !.outcome = "cancelled",
                                        !.cancelRequested = TRUE]
      <3>1. task' = [task EXCEPT ![t] = row] /\ UNCHANGED <<session, clock>>
        BY <2>7 DEF CancelTask
      <3>2. row.status = "failed"
        BY <1>1 DEF TypeOK, TaskRows
      <3> HIDE DEF row
      <3> QED BY <2>1, <3>1, <3>2
    <2>8. CASE CancelTask(t) /\ task[t].status = "leased"
      BY <1>1, <2>1, <2>8 DEF CancelTask, TypeOK, TaskRows
    <2>9. CASE ArchiveTask(t)
      <3> DEFINE row == [task[t] EXCEPT !.archived = TRUE]
      <3>1. task' = [task EXCEPT ![t] = row] /\ UNCHANGED <<session, clock>>
        BY <2>9 DEF ArchiveTask
      <3>2. row.status # "leased"
        BY <1>1, <2>9 DEF ArchiveTask, TypeOK, TaskRows, Terminal
      <3> HIDE DEF row
      <3> QED BY <2>1, <3>1, <3>2
    <2>10. CASE \/ \E l \in Leases, s \in Sessions, r \in Results :
                       CompleteBegin(t, l, s, r)
                \/ CompleteAbort(t) \/ RevokeIdentity(t)
      BY <1>2, <2>10 DEF CompleteBegin, CompleteAbort, RevokeIdentity
    <2>11. CASE DeadlinePasses(t) \/ GracePasses(t)
      <3>1. UNCHANGED <<task, session>>
        BY <2>11 DEF DeadlinePasses, GracePasses
      <3>2. \A u \in Tasks : clock'[u] # "closed" => clock[u] # "closed"
        BY <1>1, <2>11 DEF DeadlinePasses, GracePasses, TypeOK
      <3> QED BY <1>1, <3>1, <3>2, LeasesShrinkDrain DEF LeasesShrink
    <2>12. CancelTask(t) => task[t].status \in {"queued", "leased"}
      BY DEF CancelTask
    <2> QED
      BY <1>3, <2>2, <2>3, <2>4, <2>5, <2>6, <2>7, <2>8, <2>9, <2>10, <2>11,
         <2>12
      DEF TaskStep
  <1>4. ASSUME NEW n \in Nodes, NodeStep(n) PROVE DrainInvariant'
    <2>1. CASE RegisterBegin(n) \/ ExcludeNode(n) \/ RecoverNode(n)
      BY <1>2, <2>1 DEF RegisterBegin, ExcludeNode, RecoverNode
    <2>2. CASE RevokeNode(n)
      BY <1>1, <2>2, DrainsOrReplaces DEF RevokeNode
    <2>3. CASE DeleteNode(n)
      <3>1. \A s \in Sessions :
                session'[s] = IF session[s].node = n THEN NoSession
                                                     ELSE session[s]
        BY <2>3 DEF DeleteNode, SessionsOf
      <3>2. UNCHANGED <<task, clock>> /\ \A t \in Tasks : task[t].node # n
        BY <2>3 DEF DeleteNode
      <3>3. ASSUME NEW t \in Tasks, task[t].status = "leased"
            PROVE  /\ task[t].session \in Sessions
                   /\ session'[task[t].session] = session[task[t].session]
        BY <3>1, <3>2, <3>3 DEF DrainInvariant, SessionsMatchNodes
      <3>4. ASSUME NEW s \in Sessions, session'[s].from \in Sessions
            PROVE  /\ session'[session'[s].from].state # "absent"
                   /\ session'[session'[s].from].node = session'[s].node
        <4>1. session'[s] = session[s] /\ session[s].node # n
          BY <3>1, <3>4, ConstantsAssumption DEF NoSession
        <4>2. session'[session[s].from] = session[session[s].from]
          BY <3>1, <3>4, <4>1 DEF DrainInvariant, SessionsMatchNodes
        <4> QED BY <3>4, <4>1, <4>2 DEF DrainInvariant, SessionsMatchNodes
      <3>5. SessionsMatchNodes'
        BY <3>2, <3>3, <3>4 DEF DrainInvariant, SessionsMatchNodes
      <3>6. DrainHoldsLeases'
        <4>1. \A s \in Sessions : LeasedTo(s)' = LeasedTo(s)
          BY <3>2 DEF LeasedTo
        <4>2. ASSUME NEW s \in Sessions, session'[s].stop = "drain"
              PROVE  session'[s] = session[s]
          BY <3>1, <4>2 DEF NoSession
        <4> QED BY <3>2, <4>1, <4>2 DEF DrainInvariant, DrainHoldsLeases
      <3> QED BY <1>1, <3>5, <3>6 DEF DrainInvariant
    <2> QED BY <1>4, <2>1, <2>2, <2>3 DEF NodeStep
  <1>5. ASSUME NEW s \in Sessions, SessionStep(s) PROVE DrainInvariant'
    <2>1. CASE RegisterCommit(s)
      <3>1. /\ UNCHANGED <<task, clock>>
            /\ session'[s].state = "valid" /\ session'[s].stop = "none"
            /\ session'[s].from = None
            /\ session[s].state = "absent"
            /\ \A x \in Sessions \ {s} : session'[x] = session[x]
        BY <1>1, <2>1 DEF RegisterCommit, TypeOK, NoSession
      <3>2. Replaced(s)
        BY <3>1, ConstantsAssumption DEF Replaced
      <3> QED BY <1>1, <3>1, <3>2, DrainsOrReplaces
    <2>2. CASE Heartbeat(s)
      BY <1>2, <2>2 DEF Heartbeat
    <2>3. ASSUME NEW succ \in Sessions, Negotiate(s, succ)
          PROVE  DrainInvariant'
      <3>1. /\ UNCHANGED <<task, clock>>
            /\ session'[succ].state = "valid" /\ session'[succ].stop = "none"
            /\ session'[succ].from = s
            /\ session'[succ].node = session[s].node
            /\ \A x \in Sessions \ {succ} :
                   session'[x] = session[x] \/ session'[x] = DrainedSession(x)
        BY <2>3 DEF Negotiate
      <3>2. session[s].state = "valid"
        BY <2>3 DEF Negotiate
      <3>3. \/ session[succ].state = "absent"
            \/ session[succ].node = session[s].node
        <4>1. CASE session[succ] = NoSession
          BY <4>1 DEF NoSession
        <4>2. CASE session[succ].from = s
          BY <4>2 DEF DrainInvariant, SessionsMatchNodes
        <4> QED BY <2>3, <4>1, <4>2 DEF Negotiate
      <3>4. Replaced(succ)
        BY <3>1, <3>2, <3>3 DEF Replaced
      <3> QED BY <1>1, <3>1, <3>4, DrainsOrReplaces
    <2>4. CASE SessionExpires(s)
      <3>1. /\ UNCHANGED <<task, clock>>
            /\ session'[s].state = "expired"
            /\ session'[s].node = session[s].node
            /\ session'[s].from = session[s].from
            /\ session'[s].accepting = session[s].accepting
            /\ session'[s].stop = session[s].stop
            /\ session'[s].holds = session[s].holds
            /\ \A x \in Sessions \ {s} : session'[x] = session[x]
            /\ \A t \in session[s].holds : clock[t] = "closed"
        BY <1>1, <2>4 DEF SessionExpires, TypeOK, SessionRows
      <3>2. SessionsMatchNodes'
        BY <3>1 DEF DrainInvariant, SessionsMatchNodes
      <3>3. \A x \in Sessions : LeasedTo(x)' = LeasedTo(x)
        BY <3>1 DEF LeasedTo
      <3>4. DrainHoldsLeases'
        BY <3>1, <3>3 DEF DrainInvariant, DrainHoldsLeases
      <3> QED BY <1>1, <3>2, <3>4 DEF DrainInvariant
    <2> QED BY <1>5, <2>1, <2>2, <2>3, <2>4 DEF SessionStep
  <1>6. ASSUME NEW silent \in SUBSET Nodes, Sweep(silent)
        PROVE  DrainInvariant'
    <2>1. UNCHANGED <<session, clock>>
      BY <1>6 DEF Sweep
    <2>2. ASSUME NEW u \in Tasks, task'[u].status = "leased"
          PROVE  task'[u] = task[u]
      <3>1. task'[u] = ExpiredTask(u) /\ task[u] \in TaskRows
        BY <1>1, <1>6 DEF Sweep, TypeOK
      <3> QED BY <2>2, <3>1 DEF ExpiredTask, TaskRows
    <2> QED BY <1>1, <2>1, <2>2, LeasesShrinkDrain DEF LeasesShrink
  <1>7. CASE RegisterAbort \/ UNCHANGED vars
             \/ \E active \in BOOLEAN : SetTenant(active)
    BY <1>2, <1>7 DEF RegisterAbort, SetTenant, vars
  <1>8. ASSUME NEW owned \in SUBSET Nodes, NEW sent \in SUBSET Tasks,
               SuspendMember(owned, sent)
        PROVE  DrainInvariant'
    <2>1. ASSUME NEW s \in Sessions
          PROVE  session'[s] = session[s] \/ Suspended(s)
      <3>1. PICK why \in {"suspension", "expired"} :
                \/ session'[s] = session[s]
                \/ session'[s] = [session[s] EXCEPT !.accepting = FALSE,
                                                    !.stop = why]
        BY <1>8 DEF SuspendMember
      <3>2. session[s] \in SessionRows
        BY <1>1 DEF TypeOK
      <3> QED BY <3>1, <3>2 DEF Suspended, SessionRows
    <2> QED BY <1>1, <1>8, <2>1, DrainsOrReplaces DEF SuspendMember
  <1> QED BY <1>3, <1>4, <1>5, <1>6, <1>7, <1>8 DEF Next

\* A drained session can complete every lease it was issued until the grace
\* of that lease ends, whatever registers, negotiates, revokes, suspends its
\* owner or expires.
THEOREM DrainSafety == Spec => []DrainedSessionCanFinish
  <1>1. Init => DrainInvariant
    <2> SUFFICES ASSUME Init PROVE DrainInvariant
      OBVIOUS
    <2>1. TypeOK
      BY InitType
    <2>2. \A t \in Tasks : task[t].status = "absent"
      BY DEF Init, NoTask
    <2>3. \A s \in Sessions : /\ session[s].from = None /\ LeasedTo(s) = {}
                              /\ session[s].stop = "none"
      BY <2>2 DEF Init, NoSession, LeasedTo
    <2> QED BY <2>1, <2>2, <2>3, ConstantsAssumption
            DEF DrainInvariant, SessionsMatchNodes, DrainHoldsLeases
  <1>2. DrainInvariant => DrainedSessionCanFinish
    BY DEF DrainInvariant, DrainHoldsLeases, DrainedSessionCanFinish, CanFinish
  <1> QED BY <1>1, <1>2, NextDrain, PTL DEF Spec


-----------------------------------------------------------------------------
(* NodeGateway: the inductive invariant.                                   *)

\* Only a row that has ended has an outcome, and a submission that was saved
\* carries the answer to it.
RowOK(t) ==
    /\ task[t].status \notin Terminal => task[t].outcome = None
    /\ \A l \in Leases :
           submission[t][l] # NoSubmission => submission[t][l].action # "none"

\* The deadline passed while no completion that began before it was under way:
\* no result can be accepted any more.
TooLate(t) ==
    /\ Overdue(t)
    /\ task[t].status \in {"leased", "failed", "expired"}
    /\ RowLocked(t) => completeTx[t].late

\* A Redis call that is still to be made.
Effect(t, kind) == [task |-> t, kind |-> kind]

\* A hint is pushed once, when its task is created, and what is pushed again
\* replaces what is on the list.
HintsOK(t) ==
    /\ queue[t] \in 0 .. 2
    /\ Effect(t, "push") \in pending => queue[t] <= 1
    /\ task[t].status = "absent" =>
           queue[t] <= 1 /\ Effect(t, "push") \notin pending

\* What the list of the task, the calls under way and its request say of it.
SaysTrue(t) ==
    /\ HintsOK(t)
    /\ notified[t] => task[t].status \in Terminal
    /\ Effect(t, "notify") \in pending => task[t].status \in Terminal
    /\ waiter[t] # "unknown_status"
    /\ waiter[t] \in Terminal => task[t].status = waiter[t]
    /\ waiter[t] = "traced" => TooLate(t)

\* The types of what the gateway adds to the rows.
GatewayTypes ==
    /\ queue \in [Tasks -> Nat]
    /\ notified \in [Tasks -> BOOLEAN]
    /\ pending \subseteq [task : Tasks, kind : EffectKinds]
    /\ poll \in [Sessions -> Tasks \cup {"idle", "polling"}]
    /\ waiter \in [Tasks -> {"none", "waiting", "gone", "timeout", "traced",
                             "unknown_status"} \cup Terminal]

\* Together: the inductive invariant.
GatewayInductive ==
    /\ LeaseInvariant
    /\ GatewayTypes
    /\ \A t \in Tasks : RowOK(t) /\ SaysTrue(t)

-----------------------------------------------------------------------------
(* Steps on the rows.                                                      *)

\* What every step of NodeTasks does to a row that satisfies RowOK.
RowGoesOn(t) ==
    /\ RowOK(t)'
    /\ TooLate(t) => TooLate(t)'
    /\ task'[t].status = "absent" => task[t].status = "absent"

\* A row that is not written, or whose completion is given up.
RowKept(t) ==
    /\ task'[t] = task[t]
    /\ Overdue(t) => Overdue(t)'
    /\ submission'[t] = submission[t]
    /\ completeTx'[t] = completeTx[t] \/ completeTx'[t] = NoComplete

\* A row that ends, or is archived or marked, while no completion has it.
RowEnds(t) ==
    /\ task[t].status # "absent"
    /\ \/ /\ task'[t].status = task[t].status
          /\ task'[t].outcome = task[t].outcome
       \/ task'[t].status \in {"failed", "expired"}
    /\ clock'[t] = clock[t]
    /\ submission'[t] = submission[t]
    /\ completeTx'[t] = completeTx[t]
    /\ ~RowLocked(t)

\* Such rows go on.
LEMMA KeptOrEnds ==
    ASSUME NEW t \in Tasks, RowOK(t), RowKept(t) \/ RowEnds(t)
    PROVE  RowGoesOn(t)
  <1>1. CASE RowKept(t)
    <2>1. RowOK(t)'
      BY <1>1 DEF RowKept, RowOK
    <2>2. TooLate(t) => TooLate(t)'
      BY <1>1 DEF RowKept, TooLate, RowLocked
    <2> QED BY <1>1, <2>1, <2>2 DEF RowKept, RowGoesOn
  <1>2. CASE RowEnds(t)
    <2>1. RowOK(t)'
      BY <1>2 DEF RowEnds, RowOK, Terminal
    <2>2. TooLate(t) => TooLate(t)'
      BY <1>2 DEF RowEnds, TooLate, RowLocked, Overdue
    <2>3. task'[t].status # "absent"
      BY <1>2 DEF RowEnds
    <2> QED BY <2>1, <2>2, <2>3 DEF RowGoesOn
  <1> QED BY <1>1, <1>2

\* The commit of complete_task saves its answer with the row it writes, and
\* one that began after the deadline ends the task as expired.
LEMMA CommitGoesOn ==
    ASSUME LeaseInvariant, NEW t \in Tasks, RowOK(t), CompleteCommit(t)
    PROVE  RowGoesOn(t)
  <1> DEFINE tx == completeTx[t]
             row == CompletedTask(t, tx)
             answer == [session |-> tx.session, result |-> tx.result,
                        action |-> ActionOf(t, tx)]
  <1>1. TypeOK /\ RowLocked(t)
    BY DEF LeaseInvariant, CompleteCommit
  <1>2. /\ task'[t] = row
        /\ submission' = [submission EXCEPT ![t][tx.lease] = answer]
        /\ completeTx'[t] = NoComplete
        /\ clock' = clock
    BY <1>1 DEF CompleteCommit, TypeOK
  <1>3. /\ ActionOf(t, tx) \in {"succeeded", "requeued", "failed", "expired"}
        /\ ActionOf(t, tx) = "requeued" => ~tx.late /\ row.status = "queued"
        /\ ActionOf(t, tx) # "requeued" => row.status = ActionOf(t, tx)
    BY <1>1, CompletedTaskFields
  <1>4. ActionOf(t, tx) = "requeued" => row.outcome = task[t].outcome
    <2> SUFFICES ASSUME ActionOf(t, tx) = "requeued"
                 PROVE  row.outcome = task[t].outcome
      OBVIOUS
    <2>1. row = RequeuedTask(t)
      BY DEF CompletedTask
    <2>2. task[t] \in TaskRows
      BY <1>1 DEF TypeOK
    <2> QED BY <2>1, <2>2 DEF RequeuedTask, TaskRows
  <1>5. ~tx.late => task[t].status = "leased"
    BY <1>1 DEF LeaseInvariant, CompletionCurrent
  <1>6. tx.late => ActionOf(t, tx) = "expired"
    BY DEF ActionOf
  <1>7. answer.action # "none"
    BY <1>3
  <1>8. \A l \in Leases : submission'[t][l] \in {answer, submission[t][l]}
    BY <1>1, <1>2 DEF TypeOK
  <1> HIDE DEF tx, row, answer
  <1>9. task'[t].status \notin Terminal => task'[t].outcome = None
    <2>1. CASE ActionOf(t, tx) = "requeued"
      BY <1>2, <1>3, <1>4, <1>5, <2>1 DEF RowOK, Terminal
    <2>2. CASE ActionOf(t, tx) # "requeued"
      BY <1>2, <1>3, <2>2 DEF Terminal
    <2> QED BY <2>1, <2>2
  <1>10. RowOK(t)'
    <2>1. \A l \in Leases :
              submission'[t][l] # NoSubmission =>
                  submission'[t][l].action # "none"
      BY <1>7, <1>8 DEF RowOK
    <2> QED BY <1>9, <2>1 DEF RowOK
  <1>11. TooLate(t) => TooLate(t)'
    <2> SUFFICES ASSUME TooLate(t) PROVE TooLate(t)'
      OBVIOUS
    <2>1. tx.late
      BY <1>1 DEF TooLate, tx
    <2>2. task'[t].status = "expired"
      BY <1>2, <1>3, <1>6, <2>1
    <2> QED BY <1>2, <2>2 DEF TooLate, RowLocked, Overdue
  <1> QED BY <1>2, <1>3, <1>10, <1>11 DEF RowGoesOn

\* Every step of NodeTasks keeps what was said of the rows.
LEMMA RowsGoOn ==
    ASSUME LeaseInvariant, \A t \in Tasks : RowOK(t), [Next]_vars,
           NEW t \in Tasks
    PROVE  RowGoesOn(t)
  <1> USE DEF txVars, taskVars
  <1>1. TypeOK
    BY DEF LeaseInvariant
  <1>2. RowOK(t)
    OBVIOUS
  <1>3. ASSUME UNCHANGED <<task, clock, submission, completeTx>>
        PROVE  RowGoesOn(t)
    BY <1>2, <1>3, KeptOrEnds DEF RowKept, Overdue
  <1>4. ASSUME NEW u \in Tasks, TaskStep(u) PROVE RowGoesOn(t)
    <2>1. CASE CreateTask(u)
      <3>1. /\ UNCHANGED <<clock, submission, completeTx>>
            /\ task[u] = NoTask
            /\ task' = [task EXCEPT ![u] = [task[u] EXCEPT !.status = "queued"]]
        BY <2>1 DEF CreateTask
      <3>2. CASE u = t
        <4>1. task'[t].status = "queued" /\ task'[t].outcome = None
          BY <1>1, <3>1, <3>2 DEF TypeOK, NoTask
        <4>2. RowOK(t)'
          BY <1>2, <3>1, <4>1 DEF RowOK
        <4>3. ~TooLate(t)
          BY <3>1, <3>2 DEF TooLate, NoTask
        <4> QED BY <4>1, <4>2, <4>3 DEF RowGoesOn
      <3>3. CASE u # t
        BY <1>1, <1>2, <3>1, <3>3, KeptOrEnds DEF RowKept, TypeOK, Overdue
      <3> QED BY <3>2, <3>3
    <2>2. ASSUME NEW s \in Sessions, NEW l \in Leases, Claim(u, s, l)
          PROVE  RowGoesOn(t)
      <3> DEFINE row == [task[u] EXCEPT !.status = "leased",
                                        !.node = session[s].node,
                                        !.session = s, !.lease = l]
      <3>1. /\ UNCHANGED <<clock, submission, completeTx>>
            /\ task[u].status = "queued" /\ ~Overdue(u)
            /\ task' = [task EXCEPT ![u] = row]
        BY <2>2 DEF Claim, Claimable
      <3>2. row.status = "leased" /\ row.outcome = task[u].outcome
        BY <1>1 DEF TypeOK, TaskRows
      <3> HIDE DEF row
      <3>3. CASE u = t
        <4>1. task'[t].status = "leased" /\ task'[t].outcome = None
          BY <1>1, <1>2, <3>1, <3>2, <3>3 DEF TypeOK, RowOK, Terminal
        <4>2. RowOK(t)'
          BY <1>2, <3>1, <4>1 DEF RowOK
        <4>3. ~TooLate(t)
          BY <3>1, <3>3 DEF TooLate
        <4> QED BY <4>1, <4>2, <4>3 DEF RowGoesOn
      <3>4. CASE u # t
        BY <1>1, <1>2, <3>1, <3>4, KeptOrEnds DEF RowKept, TypeOK, Overdue
      <3> QED BY <3>3, <3>4
    <2>3. ASSUME NEW l \in Leases, NEW s \in Sessions, NEW r \in Results,
                 CompleteBegin(u, l, s, r)
          PROVE  RowGoesOn(t)
      <3> DEFINE tx == [lease |-> l, session |-> s, result |-> r,
                        late |-> LateCompletion(u),
                        sawExcluded |->
                            node[session[s].node].status = "excluded"]
      <3>1. /\ UNCHANGED <<task, clock, submission>>
            /\ completeTx' = [completeTx EXCEPT ![u] = tx]
            /\ LateCompletion(u) \/ task[u].status = "leased"
        BY <2>3 DEF CompleteBegin
      <3>2. tx.late = LateCompletion(u)
        OBVIOUS
      <3> HIDE DEF tx
      <3>3. CASE u = t
        <4>1. RowOK(t)'
          BY <1>2, <3>1 DEF RowOK
        <4>2. TooLate(t) => TooLate(t)'
          BY <1>1, <3>1, <3>2, <3>3
          DEF TooLate, TypeOK, Overdue, LateCompletion
        <4> QED BY <3>1, <4>1, <4>2 DEF RowGoesOn
      <3>4. CASE u # t
        BY <1>1, <1>2, <3>1, <3>4, KeptOrEnds DEF RowKept, TypeOK, Overdue
      <3> QED BY <3>3, <3>4
    <2>4. CASE CompleteCommit(u)
      <3>1. CASE u = t
        BY <1>2, <2>4, <3>1, CommitGoesOn
      <3>2. CASE u # t
        <4>1. RowKept(t)
          BY <1>1, <2>4, <3>2 DEF CompleteCommit, RowKept, TypeOK, Overdue
        <4> QED BY <1>2, <4>1, KeptOrEnds
      <3> QED BY <3>1, <3>2
    <2>5. CASE CompleteAbort(u)
      <3>1. RowKept(t)
        BY <1>1, <2>5 DEF CompleteAbort, RowKept, TypeOK, Overdue
      <3> QED BY <1>2, <3>1, KeptOrEnds
    <2>6. ASSUME NEW row,
                 task' = [task EXCEPT ![u] = row],
                 task[u].status # "absent", ~RowLocked(u),
                 \/ row.status = task[u].status /\ row.outcome = task[u].outcome
                 \/ row.status = "failed",
                 UNCHANGED <<clock, submission, completeTx>>
          PROVE  RowGoesOn(t)
      <3>1. CASE u = t
        <4>1. RowEnds(t)
          BY <1>1, <2>6, <3>1 DEF RowEnds, TypeOK
        <4> QED BY <1>2, <4>1, KeptOrEnds
      <3>2. CASE u # t
        BY <1>1, <1>2, <2>6, <3>2, KeptOrEnds DEF RowKept, TypeOK, Overdue
      <3> QED BY <3>1, <3>2
    <2>7. CASE RejectInvalid(u)
      <3> DEFINE row == [task[u] EXCEPT !.status = "failed",
                                        !.outcome = "authority_invalid"]
      <3>1. row.status = "failed"
        BY <1>1 DEF TypeOK, TaskRows
      <3>2. /\ task' = [task EXCEPT ![u] = row]
            /\ task[u].status # "absent" /\ ~RowLocked(u)
            /\ UNCHANGED <<clock, submission, completeTx>>
        BY <2>7 DEF RejectInvalid
      <3> HIDE DEF row
      <3> QED BY <2>6, <3>1, <3>2
    <2>8. CASE InterruptManaged(u)
      <3> DEFINE row == [task[u] EXCEPT !.status = "failed",
                                        !.outcome = "interrupted"]
      <3>1. row.status = "failed"
        BY <1>1 DEF TypeOK, TaskRows
      <3>2. /\ task' = [task EXCEPT ![u] = row]
            /\ task[u].status # "absent" /\ ~RowLocked(u)
            /\ UNCHANGED <<clock, submission, completeTx>>
        BY <2>8 DEF InterruptManaged
      <3> HIDE DEF row
      <3> QED BY <2>6, <3>1, <3>2
    <2>9. CASE CancelTask(u)
      <3> DEFINE row == [task[u] EXCEPT !.status = "failed",
                                        !.outcome = "cancelled",
                                        !.cancelRequested = TRUE]
                 mark == [task[u] EXCEPT !.cancelRequested = TRUE]
      <3>1. /\ row.status = "failed"
            /\ mark.status = task[u].status /\ mark.outcome = task[u].outcome
        BY <1>1 DEF TypeOK, TaskRows
      <3>2. /\ \/ task' = [task EXCEPT ![u] = row]
               \/ task' = [task EXCEPT ![u] = mark]
            /\ task[u].status # "absent" /\ ~RowLocked(u)
            /\ UNCHANGED <<clock, submission, completeTx>>
        BY <2>9 DEF CancelTask
      <3> HIDE DEF row, mark
      <3> QED BY <2>6, <3>1, <3>2
    <2>10. CASE ArchiveTask(u)
      <3> DEFINE mark == [task[u] EXCEPT !.archived = TRUE]
      <3>1. mark.status = task[u].status /\ mark.outcome = task[u].outcome
        BY <1>1 DEF TypeOK, TaskRows
      <3>2. /\ task' = [task EXCEPT ![u] = mark]
            /\ task[u].status # "absent" /\ ~RowLocked(u)
            /\ UNCHANGED <<clock, submission, completeTx>>
        BY <2>10 DEF ArchiveTask, Terminal
      <3> HIDE DEF mark
      <3> QED BY <2>6, <3>1, <3>2
    <2>11. CASE RevokeIdentity(u)
      BY <1>3, <2>11 DEF RevokeIdentity
    <2>12. CASE DeadlinePasses(u) \/ GracePasses(u)
      <3>1. RowKept(t)
        BY <1>1, <2>12
        DEF DeadlinePasses, GracePasses, RowKept, TypeOK, Overdue
      <3> QED BY <1>2, <3>1, KeptOrEnds
    <2> QED
      BY <1>4, <2>1, <2>2, <2>3, <2>4, <2>5, <2>7, <2>8, <2>9, <2>10, <2>11,
         <2>12
      DEF TaskStep
  <1>5. ASSUME NEW n \in Nodes, NodeStep(n) PROVE RowGoesOn(t)
    BY <1>3, <1>5
    DEF NodeStep, RegisterBegin, ExcludeNode, RecoverNode, RevokeNode,
        DeleteNode
  <1>6. ASSUME NEW s \in Sessions, SessionStep(s) PROVE RowGoesOn(t)
    BY <1>3, <1>6
    DEF SessionStep, RegisterCommit, Heartbeat, Negotiate, SessionExpires
  <1>7. ASSUME NEW silent \in SUBSET Nodes, Sweep(silent)
        PROVE  RowGoesOn(t)
    <2>1. /\ task'[t] = ExpiredTask(t)
          /\ ExpiredTask(t) # task[t] => ~RowLocked(t)
          /\ UNCHANGED <<clock, submission, completeTx>>
      BY <1>7 DEF Sweep
    <2>2. CASE ExpiredTask(t) = task[t]
      BY <1>2, <2>1, <2>2, KeptOrEnds DEF RowKept, Overdue
    <2>3. CASE ExpiredTask(t) # task[t]
      <3>1. /\ task[t].status \in {"queued", "leased"}
            /\ ExpiredTask(t) = [task[t] EXCEPT !.status = "expired"]
        BY <2>3 DEF ExpiredTask
      <3>2. task'[t].status = "expired"
        BY <1>1, <2>1, <3>1 DEF TypeOK, TaskRows
      <3>3. RowEnds(t)
        BY <2>1, <2>3, <3>1, <3>2 DEF RowEnds
      <3> QED BY <1>2, <3>3, KeptOrEnds
    <2> QED BY <2>2, <2>3
  <1>8. CASE \/ RegisterAbort \/ UNCHANGED vars
             \/ \E active \in BOOLEAN : SetTenant(active)
             \/ \E owned \in SUBSET Nodes, sent \in SUBSET Tasks :
                    SuspendMember(owned, sent)
    BY <1>3, <1>8 DEF RegisterAbort, SetTenant, SuspendMember, vars
  <1> QED BY <1>4, <1>5, <1>6, <1>7, <1>8 DEF Next

-----------------------------------------------------------------------------
(* Steps of Redis and of the requests.                                     *)

\* The hints of a task: no more of them, or the one its creation pushes.
HintsFollow(t) ==
    \/ /\ queue'[t] \in Nat
       /\ queue'[t] <= queue[t] \/ queue'[t] <= 1
       /\ Effect(t, "push") \in pending' => Effect(t, "push") \in pending
    \/ /\ queue'[t] = queue[t] + 1
       /\ Effect(t, "push") \in pending
       /\ Effect(t, "push") \notin pending'
    \/ /\ queue'[t] = queue[t]
       /\ task[t].status = "absent" /\ task'[t].status # "absent"

\* A notification is of a task that ends with this step, or was under way.
NotesFollow(t) ==
    /\ notified'[t] =>
           \/ notified[t]
           \/ Effect(t, "notify") \in pending
           \/ task'[t].status \in Terminal
    /\ Effect(t, "notify") \in pending' =>
           \/ Effect(t, "notify") \in pending
           \/ task'[t].status \in Terminal

\* What a request is told is how its task ended, or nothing.
WaiterFollows(t) ==
    \/ waiter'[t] = waiter[t]
    \/ waiter'[t] \in {"waiting", "gone", "timeout"}
    \/ waiter'[t] \in Terminal /\ waiter'[t] = task'[t].status
    \/ waiter'[t] = "traced" /\ TooLate(t)'

\* A row that has ended stays as it is.
EndStays(t) ==
    task[t].status \in Terminal => task'[t].status = task[t].status

\* Steps that follow the row keep what is said of it true.
LEMMA SaysFollow ==
    ASSUME NEW t \in Tasks, SaysTrue(t), RowGoesOn(t), EndStays(t),
           HintsFollow(t), NotesFollow(t), WaiterFollows(t)
    PROVE  SaysTrue(t)'
  <1>1. HintsOK(t)'
    <2>1. /\ queue[t] \in 0 .. 2
          /\ Effect(t, "push") \in pending => queue[t] <= 1
          /\ task[t].status = "absent" =>
                 queue[t] <= 1 /\ Effect(t, "push") \notin pending
      BY DEF SaysTrue, HintsOK
    <2>2. task'[t].status = "absent" => task[t].status = "absent"
      BY DEF RowGoesOn
    <2>3. CASE /\ queue'[t] \in Nat
               /\ queue'[t] <= queue[t] \/ queue'[t] <= 1
               /\ Effect(t, "push") \in pending' => Effect(t, "push") \in pending
      BY <2>1, <2>2, <2>3 DEF HintsOK, Effect
    <2>4. CASE /\ queue'[t] = queue[t] + 1
               /\ Effect(t, "push") \in pending
               /\ Effect(t, "push") \notin pending'
      BY <2>1, <2>2, <2>4 DEF HintsOK, Effect
    <2>5. CASE /\ queue'[t] = queue[t]
               /\ task[t].status = "absent" /\ task'[t].status # "absent"
      BY <2>1, <2>5 DEF HintsOK, Effect
    <2> QED BY <2>3, <2>4, <2>5 DEF HintsFollow
  <1>2. notified'[t] => task'[t].status \in Terminal
    BY DEF SaysTrue, NotesFollow, EndStays
  <1>3. Effect(t, "notify") \in pending' => task'[t].status \in Terminal
    BY DEF SaysTrue, NotesFollow, EndStays
  <1>4. waiter'[t] # "unknown_status"
    BY DEF SaysTrue, WaiterFollows, Terminal
  <1>5. waiter'[t] \in Terminal => task'[t].status = waiter'[t]
    BY DEF SaysTrue, WaiterFollows, EndStays, Terminal
  <1>6. waiter'[t] = "traced" => TooLate(t)'
    BY DEF SaysTrue, WaiterFollows, RowGoesOn, Terminal
  <1> QED BY <1>1, <1>2, <1>3, <1>4, <1>5, <1>6 DEF SaysTrue, Effect

\* The calls of a task are told apart by their task and kind.
LEMMA EffectsOf ==
    ASSUME NEW t, NEW kinds
    PROVE  /\ \A e \in Effects(t, kinds) : e.task = t /\ e.kind \in kinds
           /\ \A e \in Effects(t, kinds) : e = Effect(e.task, e.kind)
           /\ \A k \in kinds : Effect(t, k) \in Effects(t, kinds)
           /\ \A u, k : Effect(u, k).task = u /\ Effect(u, k).kind = k
  BY DEF Effects, Effect

\* The calls a step makes: none pushes a hint, and a notification is of a
\* task that ends with it.
NewCall(e) ==
    /\ e.task \in Tasks /\ e.kind \in EffectKinds \ {"push"}
    /\ e = Effect(e.task, e.kind)
    /\ e.kind = "notify" => task'[e.task].status \in Terminal

\* Every call that is pending was pending or is new.
CallsFollow == \A e \in pending' : e \in pending \/ NewCall(e)

\* A step that only makes such calls follows the rows.
LEMMA CallsOnly ==
    ASSUME GatewayInductive, UNCHANGED <<queue, notified>>, CallsFollow
    PROVE  /\ pending' \subseteq [task : Tasks, kind : EffectKinds]
           /\ \A t \in Tasks : HintsFollow(t) /\ NotesFollow(t)
  <1>1. pending' \subseteq [task : Tasks, kind : EffectKinds]
    <2> SUFFICES ASSUME NEW e \in pending'
                 PROVE  e \in [task : Tasks, kind : EffectKinds]
      OBVIOUS
    <2>1. CASE e \in pending
      BY <2>1 DEF GatewayInductive, GatewayTypes
    <2>2. CASE NewCall(e)
      BY <2>2 DEF NewCall, Effect
    <2> QED BY <2>1, <2>2 DEF CallsFollow
  <1>2. ASSUME NEW t \in Tasks PROVE HintsFollow(t) /\ NotesFollow(t)
    <2>1. queue[t] \in Nat
      BY DEF GatewayInductive, GatewayTypes
    <2>2. Effect(t, "push") \in pending' => Effect(t, "push") \in pending
      BY EffectsOf DEF CallsFollow, NewCall
    <2>3. HintsFollow(t)
      BY <2>1, <2>2 DEF HintsFollow
    <2>4. Effect(t, "notify") \in pending' =>
              Effect(t, "notify") \in pending \/ task'[t].status \in Terminal
      <3> SUFFICES ASSUME Effect(t, "notify") \in pending',
                          Effect(t, "notify") \notin pending
                   PROVE  task'[t].status \in Terminal
        OBVIOUS
      <3>1. NewCall(Effect(t, "notify"))
        BY DEF CallsFollow
      <3>2. /\ Effect(t, "notify").task = t
            /\ Effect(t, "notify").kind = "notify"
        BY EffectsOf
      <3> QED BY <3>1, <3>2 DEF NewCall
    <2>5. NotesFollow(t)
      BY <2>4 DEF NotesFollow
    <2> QED BY <2>3, <2>5
  <1> QED BY <1>1, <1>2

\* What the parts of a step are shown to do.
StepFollows ==
    /\ GatewayTypes'
    /\ \A t \in Tasks : HintsFollow(t) /\ NotesFollow(t) /\ WaiterFollows(t)

\* The calls a step adds for one task.
LEMMA CallsOf ==
    ASSUME NEW t \in Tasks, NEW kinds \in SUBSET (EffectKinds \ {"push"}),
           "notify" \in kinds => task'[t].status \in Terminal
    PROVE  \A e \in Effects(t, kinds) : NewCall(e)
  BY EffectsOf DEF NewCall

\* A step that makes such calls and tells no request anything.
LEMMA CallsAlone ==
    ASSUME GatewayInductive, UNCHANGED <<queue, notified, waiter>>,
           CallsFollow,
           poll' \in [Sessions -> Tasks \cup {"idle", "polling"}]
    PROVE  StepFollows
  <1>1. /\ pending' \subseteq [task : Tasks, kind : EffectKinds]
        /\ \A t \in Tasks : HintsFollow(t) /\ NotesFollow(t)
    BY CallsOnly
  <1>2. GatewayTypes'
    BY <1>1 DEF GatewayInductive, GatewayTypes
  <1> QED BY <1>1, <1>2 DEF StepFollows, WaiterFollows

\* A step that makes such calls and tells one request something.
LEMMA CallsAndTells ==
    ASSUME GatewayInductive, UNCHANGED <<queue, notified, poll>>,
           CallsFollow, NEW t \in Tasks,
           waiter' = [waiter EXCEPT ![t] = waiter'[t]], WaiterFollows(t)
    PROVE  StepFollows
  <1>1. /\ pending' \subseteq [task : Tasks, kind : EffectKinds]
        /\ \A u \in Tasks : HintsFollow(u) /\ NotesFollow(u)
    BY CallsOnly
  <1>2. waiter'[t] \in {"none", "waiting", "gone", "timeout", "traced",
                        "unknown_status"} \cup Terminal
    BY DEF WaiterFollows, GatewayInductive, GatewayTypes
  <1>3. GatewayTypes'
    BY <1>1, <1>2 DEF GatewayInductive, GatewayTypes
  <1>4. \A u \in Tasks : WaiterFollows(u)
    BY DEF WaiterFollows, GatewayInductive, GatewayTypes
  <1> QED BY <1>1, <1>3, <1>4 DEF StepFollows

\* converge_invalid_queued_task notifies only of a row it found rejected.
LEMMA ConvergeCalls ==
    ASSUME NEW t \in Tasks, EndStays(t)
    PROVE  \A e \in ConvergeEffects(t) : NewCall(e)
  <1>1. CASE task[t].status = "queued" /\ ~AuthorityActive(t)
    <2>1. ConvergeEffects(t) = Effects(t, {"converge"})
      BY <1>1 DEF ConvergeEffects
    <2> QED BY <2>1, CallsOf DEF EffectKinds
  <1>2. CASE task[t].status = "failed" /\ task[t].outcome = "authority_invalid"
    <2>1. ConvergeEffects(t) = Effects(t, {"remove", "notify"})
      BY <1>2 DEF ConvergeEffects
    <2>2. task'[t].status \in Terminal
      BY <1>2 DEF EndStays, Terminal
    <2> QED BY <2>1, <2>2, CallsOf DEF EffectKinds
  <1>3. CASE /\ ~(task[t].status = "queued" /\ ~AuthorityActive(t))
             /\ ~(/\ task[t].status = "failed"
                  /\ task[t].outcome = "authority_invalid")
    BY <1>3 DEF ConvergeEffects
  <1> QED BY <1>1, <1>2, <1>3

\* The request and the hint of a new task.
LEMMA SubmitFollows ==
    ASSUME GatewayInductive, NEW t \in Tasks, Submit(t)
    PROVE  StepFollows
  <1>1. /\ UNCHANGED <<queue, notified, poll>>
        /\ waiter' = [waiter EXCEPT ![t] = "waiting"]
        /\ \A e \in pending' : e \in pending \/ e = Effect(t, "push")
    BY EffectsOf DEF Submit, Effects, Effect
  <1>2. task[t].status = "absent" /\ task'[t].status = "queued"
    BY DEF Submit, CreateTask, NoTask, GatewayInductive, LeaseInvariant, TypeOK
  <1>3. Effect(t, "push") \in [task : Tasks, kind : EffectKinds]
    BY DEF Effect, EffectKinds
  <1>4. GatewayTypes'
    BY <1>1, <1>3 DEF GatewayInductive, GatewayTypes
  <1>5. ASSUME NEW u \in Tasks
        PROVE  HintsFollow(u) /\ NotesFollow(u) /\ WaiterFollows(u)
    <2>1. queue[u] \in Nat
      BY DEF GatewayInductive, GatewayTypes
    <2>2. Effect(u, "notify") # Effect(t, "push")
      BY EffectsOf
    <2>3. u # t => Effect(u, "push") # Effect(t, "push")
      BY EffectsOf
    <2>4. HintsFollow(u)
      BY <1>1, <1>2, <2>1, <2>3 DEF HintsFollow
    <2>5. NotesFollow(u)
      BY <1>1, <2>2 DEF NotesFollow
    <2>6. WaiterFollows(u)
      BY <1>1 DEF WaiterFollows, GatewayInductive, GatewayTypes
    <2> QED BY <2>4, <2>5, <2>6
  <1> QED BY <1>4, <1>5 DEF StepFollows

\* A request that is woken decodes a row that has ended.
LEMMA NotifiedFollows ==
    ASSUME GatewayInductive, \A u \in Tasks : EndStays(u),
           NEW t \in Tasks, WaiterNotified(t)
    PROVE  StepFollows
  <1>1. /\ UNCHANGED <<queue, pending, poll>>
        /\ notified' = [notified EXCEPT ![t] = FALSE]
        /\ waiter' = [waiter EXCEPT ![t] = IF Native(t) THEN waiter[t]
                                                        ELSE Decoded(t)]
        /\ notified[t]
    BY DEF WaiterNotified
  <1>2. task[t].status \in Terminal
    BY <1>1 DEF GatewayInductive, SaysTrue
  <1>3. Decoded(t) = task[t].status /\ task'[t].status = task[t].status
    BY <1>2 DEF Decoded, EndStays
  <1>4. GatewayTypes'
    BY <1>1, <1>2, <1>3 DEF GatewayInductive, GatewayTypes
  <1>5. ASSUME NEW u \in Tasks
        PROVE  HintsFollow(u) /\ NotesFollow(u) /\ WaiterFollows(u)
    <2>1. queue[u] \in Nat
      BY DEF GatewayInductive, GatewayTypes
    <2>2. HintsFollow(u)
      BY <1>1, <2>1 DEF HintsFollow
    <2>3. NotesFollow(u)
      BY <1>1 DEF NotesFollow, GatewayInductive, GatewayTypes
    <2>4. WaiterFollows(u)
      BY <1>1, <1>2, <1>3 DEF WaiterFollows, GatewayInductive, GatewayTypes
    <2> QED BY <2>2, <2>3, <2>4
  <1> QED BY <1>4, <1>5 DEF StepFollows

\* The other steps of a waiting request: its fallback, its timeout under the
\* row lock, an interruption, and the death of its process.
LEMMA RequestFollows ==
    ASSUME GatewayInductive, \A u \in Tasks : EndStays(u), NEW t \in Tasks,
           WaiterPoll(t) \/ WaiterTimeout(t) \/ ManagedGivesUp(t)
               \/ WaiterGone(t)
    PROVE  StepFollows
  <1>1. waiter \in [Tasks -> {"none", "waiting", "gone", "timeout", "traced",
                              "unknown_status"} \cup Terminal]
    BY DEF GatewayInductive, GatewayTypes
  <1>2. CASE WaiterPoll(t)
    <2>1. /\ UNCHANGED <<queue, notified, poll>>
          /\ pending' = pending \cup ConvergeEffects(t)
          /\ waiter' = [waiter EXCEPT ![t] =
                 IF task[t].status \in Terminal THEN task[t].status
                                                ELSE waiter[t]]
      BY <1>2 DEF WaiterPoll
    <2>2. CallsFollow
      BY <2>1, ConvergeCalls DEF CallsFollow
    <2>3. waiter' = [waiter EXCEPT ![t] = waiter'[t]]
      BY <1>1, <2>1
    <2>4. WaiterFollows(t)
      BY <1>1, <2>1 DEF WaiterFollows, EndStays
    <2> QED BY <2>1, <2>2, <2>3, <2>4, CallsAndTells
  <1>3. CASE WaiterTimeout(t)
    <2>1. /\ UNCHANGED <<task, clock, completeTx, queue, notified, pending,
                         poll>>
          /\ Overdue(t) /\ ~RowLocked(t)
          /\ waiter' = [waiter EXCEPT ![t] =
                 IF task[t].status = "leased" THEN "traced" ELSE "timeout"]
      BY <1>3 DEF WaiterTimeout, vars, redisVars
    <2>2. CallsFollow
      BY <2>1 DEF CallsFollow
    <2>3. waiter' = [waiter EXCEPT ![t] = waiter'[t]]
      BY <1>1, <2>1
    <2>4. WaiterFollows(t)
      BY <1>1, <2>1 DEF WaiterFollows, TooLate, Overdue, RowLocked
    <2> QED BY <2>1, <2>2, <2>3, <2>4, CallsAndTells
  <1>4. CASE ManagedGivesUp(t)
    <2>1. /\ UNCHANGED <<queue, notified, poll>>
          /\ pending' = pending \cup Effects(t, {"remove"})
          /\ waiter' = [waiter EXCEPT ![t] =
                 IF task[t].outcome \in Answers \cup {"http_error"}
                   THEN task[t].status ELSE "gone"]
      BY <1>4 DEF ManagedGivesUp
    <2>2. CallsFollow
      BY <2>1, CallsOf DEF CallsFollow, EffectKinds
    <2>3. waiter' = [waiter EXCEPT ![t] = waiter'[t]]
      BY <1>1, <2>1
    <2>4. task[t].outcome \in Answers \cup {"http_error"} =>
              task[t].status \in Terminal
      <3>1. None \notin Answers \cup {"http_error"}
        BY ConstantsAssumption DEF Results, Failures
      <3> QED BY <3>1 DEF GatewayInductive, RowOK
    <2>5. WaiterFollows(t)
      BY <1>1, <2>1, <2>4 DEF WaiterFollows, EndStays
    <2> QED BY <2>1, <2>2, <2>3, <2>5, CallsAndTells
  <1>5. CASE WaiterGone(t)
    <2>1. /\ UNCHANGED <<queue, notified, pending, poll>>
          /\ waiter' = [waiter EXCEPT ![t] = "gone"]
      BY <1>5 DEF WaiterGone, redisVars
    <2>2. CallsFollow
      BY <2>1 DEF CallsFollow
    <2>3. waiter' = [waiter EXCEPT ![t] = waiter'[t]] /\ WaiterFollows(t)
      BY <1>1, <2>1 DEF WaiterFollows
    <2> QED BY <2>1, <2>2, <2>3, CallsAndTells
  <1> QED BY <1>2, <1>3, <1>4, <1>5

\* The worker's poll takes hints off the list and says nothing of a task.
LEMMA PollFollows ==
    ASSUME GatewayInductive, \A u \in Tasks : EndStays(u), NEW s \in Sessions,
           \/ PollBegin(s) \/ PollEnd(s)
           \/ \E t \in Tasks : PollPop(s, t) \/ PollMiss(s, t)
           \/ \E t \in Tasks, l \in Leases :
                  PollClaim(s, t, l) \/ PollNative(s, t, l)
    PROVE  StepFollows
  <1>1. poll \in [Sessions -> Tasks \cup {"idle", "polling"}]
    BY DEF GatewayInductive, GatewayTypes
  <1>2. CASE PollBegin(s) \/ PollEnd(s)
             \/ \E t \in Tasks, l \in Leases : PollClaim(s, t, l)
    <2>1. /\ UNCHANGED <<queue, notified, pending, waiter>>
          /\ poll' \in [Sessions -> Tasks \cup {"idle", "polling"}]
      BY <1>1, <1>2 DEF PollBegin, PollEnd, PollClaim, redisVars
    <2> QED BY <2>1, CallsAlone DEF CallsFollow
  <1>3. ASSUME NEW t \in Tasks, PollPop(s, t) PROVE StepFollows
    <2>1. /\ UNCHANGED <<notified, pending, waiter>>
          /\ poll' \in [Sessions -> Tasks \cup {"idle", "polling"}]
          /\ queue[t] > 0
          /\ queue' = [queue EXCEPT ![t] = queue[t] - 1]
      BY <1>1, <1>3 DEF PollPop
    <2>2. queue \in [Tasks -> Nat]
      BY DEF GatewayInductive, GatewayTypes
    <2>3. \A u \in Tasks : queue'[u] \in Nat /\ queue'[u] <= queue[u]
      BY <2>1, <2>2
    <2>4. queue' \in [Tasks -> Nat]
      BY <2>1, <2>2
    <2>5. GatewayTypes'
      BY <2>1, <2>4 DEF GatewayInductive, GatewayTypes
    <2> QED BY <2>1, <2>3, <2>5
        DEF StepFollows, HintsFollow, NotesFollow, WaiterFollows
  <1>4. ASSUME NEW t \in Tasks, PollMiss(s, t) PROVE StepFollows
    <2>1. /\ UNCHANGED <<queue, notified, waiter>>
          /\ poll' \in [Sessions -> Tasks \cup {"idle", "polling"}]
          /\ pending' = pending \cup ConvergeEffects(t)
      BY <1>1, <1>4 DEF PollMiss
    <2>2. CallsFollow
      BY <2>1, ConvergeCalls DEF CallsFollow
    <2> QED BY <2>1, <2>2, CallsAlone
  <1>5. ASSUME NEW t \in Tasks, NEW l \in Leases, PollNative(s, t, l)
        PROVE  StepFollows
    <2>1. /\ UNCHANGED <<queue, notified, waiter>>
          /\ poll' \in [Sessions -> Tasks \cup {"idle", "polling"}]
          /\ pending' = pending \cup Effects(t, {"remove"})
      BY <1>1, <1>5 DEF PollNative
    <2>2. CallsFollow
      BY <2>1, CallsOf DEF CallsFollow, EffectKinds
    <2> QED BY <2>1, <2>2, CallsAlone
  <1> QED BY <1>2, <1>3, <1>4, <1>5

\* A completion notifies of a task that ends with it, and one that is sent
\* again only if the answer saved for it ended the task.
LEMMA AnswerFollows ==
    ASSUME GatewayInductive, \A u \in Tasks : EndStays(u), NEW t \in Tasks,
           FinishTask(t) \/ \E l \in Leases : ReplayAnswer(t, l)
    PROVE  StepFollows
  <1>1. LeaseInvariant /\ TypeOK
    BY DEF GatewayInductive, LeaseInvariant
  <1>2. poll \in [Sessions -> Tasks \cup {"idle", "polling"}]
    BY DEF GatewayInductive, GatewayTypes
  <1>3. CASE FinishTask(t)
    <2>1. /\ UNCHANGED <<queue, notified, poll, waiter>>
          /\ pending' = pending \cup
                 CompletionEffects(t, ActionOf(t, completeTx[t]))
          /\ task'[t] = CompletedTask(t, completeTx[t])
      BY <1>1, <1>3 DEF FinishTask, CompleteCommit, callVars, TypeOK
    <2>2. ActionOf(t, completeTx[t]) # "requeued" =>
              task'[t].status \in Terminal
      BY <1>1, <2>1, CompletedTaskFields DEF Terminal
    <2>3. \A e \in CompletionEffects(t, ActionOf(t, completeTx[t])) : NewCall(e)
      <3>1. CASE ActionOf(t, completeTx[t]) = "requeued"
        <4>1. CompletionEffects(t, ActionOf(t, completeTx[t])) =
                  Effects(t, {"repush"})
          BY <3>1 DEF CompletionEffects
        <4> QED BY <4>1, CallsOf DEF EffectKinds
      <3>2. CASE ActionOf(t, completeTx[t]) # "requeued"
        <4>1. CompletionEffects(t, ActionOf(t, completeTx[t])) =
                  Effects(t, {"remove", "notify"})
          BY <3>2 DEF CompletionEffects
        <4> QED BY <2>2, <3>2, <4>1, CallsOf DEF EffectKinds
      <3> QED BY <3>1, <3>2
    <2> QED BY <1>2, <2>1, <2>3, CallsAlone DEF CallsFollow
  <1>4. ASSUME NEW l \in Leases, ReplayAnswer(t, l) PROVE StepFollows
    <2>1. /\ UNCHANGED <<queue, notified, poll, waiter>>
          /\ submission[t][l] # NoSubmission
          /\ pending' = pending \cup
                 CompletionEffects(t, submission[t][l].action)
      BY <1>4 DEF ReplayAnswer, callVars
    <2>2. /\ submission[t][l].action # "none"
          /\ submission[t][l] \in Submissions
      BY <1>1, <2>1 DEF GatewayInductive, RowOK, TypeOK
    <2>3. submission[t][l].action # "requeued" =>
              submission[t][l].action \in Terminal
      BY <2>2 DEF Submissions, Terminal
    <2>4. submission[t][l].action # "requeued" => task'[t].status \in Terminal
      BY <1>1, <2>3 DEF LeaseInvariant, AckedOutcomeHolds, EndStays
    <2>5. \A e \in CompletionEffects(t, submission[t][l].action) : NewCall(e)
      <3>1. CASE submission[t][l].action = "requeued"
        <4>1. CompletionEffects(t, submission[t][l].action) =
                  Effects(t, {"repush"})
          BY <3>1 DEF CompletionEffects
        <4> QED BY <4>1, CallsOf DEF EffectKinds
      <3>2. CASE submission[t][l].action # "requeued"
        <4>1. CompletionEffects(t, submission[t][l].action) =
                  Effects(t, {"remove", "notify"})
          BY <3>2 DEF CompletionEffects
        <4> QED BY <2>4, <3>2, <4>1, CallsOf DEF EffectKinds
      <3> QED BY <3>1, <3>2
    <2> QED BY <1>2, <2>1, <2>5, CallsAlone DEF CallsFollow
  <1> QED BY <1>3, <1>4

\* A rejection notifies of a row it failed, or found failed for its authority.
LEMMA RejectFollows ==
    ASSUME GatewayInductive, \A u \in Tasks : EndStays(u), NEW t \in Tasks,
           PerformReject(t)
    PROVE  StepFollows
  <1>1. UNCHANGED <<queue, notified, poll, waiter>>
    BY DEF PerformReject, callVars
  <1>2. CallsFollow
    <2>1. CASE /\ RejectInvalid(t)
               /\ pending' = (pending \ Effects(t, {"reject"}))
                                 \cup Effects(t, {"notify"})
      <3>1. [task[t] EXCEPT !.status = "failed",
                            !.outcome = "authority_invalid"].status = "failed"
        BY DEF GatewayInductive, LeaseInvariant, TypeOK, TaskRows
      <3>2. task'[t].status = "failed"
        BY <2>1, <3>1 DEF RejectInvalid, GatewayInductive, LeaseInvariant, TypeOK
      <3>3. \A e \in Effects(t, {"notify"}) : NewCall(e)
        BY <3>2, CallsOf DEF EffectKinds, Terminal
      <3> QED BY <2>1, <3>3 DEF CallsFollow
    <2>2. CASE pending' = (pending \ Effects(t, {"reject"})) \cup
                   (IF task[t].outcome = "authority_invalid"
                      THEN Effects(t, {"notify"}) ELSE {})
      <3>1. CASE task[t].outcome = "authority_invalid"
        <4>1. None # "authority_invalid"
          BY ConstantsAssumption DEF ServerErrors
        <4>2. task'[t].status \in Terminal
          BY <3>1, <4>1 DEF GatewayInductive, RowOK, EndStays
        <4>3. \A e \in Effects(t, {"notify"}) : NewCall(e)
          BY <4>2, CallsOf DEF EffectKinds
        <4> QED BY <2>2, <4>3 DEF CallsFollow
      <3>2. CASE task[t].outcome # "authority_invalid"
        BY <2>2, <3>2 DEF CallsFollow
      <3> QED BY <3>1, <3>2
    <2> QED BY <2>1, <2>2 DEF PerformReject
  <1> QED BY <1>1, <1>2, CallsAlone DEF GatewayInductive, GatewayTypes

\* A call that reaches Redis, or is lost.
LEMMA RedisFollows ==
    ASSUME GatewayInductive, NEW e \in pending,
           PerformOnRedis(e) \/ LoseEffect(e)
    PROVE  StepFollows
  <1>1. e \in [task : Tasks, kind : EffectKinds]
    BY DEF GatewayInductive, GatewayTypes
  <1>2. CASE LoseEffect(e)
    <2>1. UNCHANGED <<queue, notified, poll, waiter>> /\ CallsFollow
      BY <1>2 DEF LoseEffect, callVars, CallsFollow
    <2> QED BY <2>1, CallsAlone DEF GatewayInductive, GatewayTypes
  <1>3. CASE PerformOnRedis(e)
    <2> DEFINE t == e.task
               hints == CASE e.kind = "push" -> queue[t] + 1
                          [] e.kind = "repush" -> 1
                          [] e.kind \in {"remove", "converge"} -> 0
                          [] OTHER -> queue[t]
    <2>1. /\ UNCHANGED <<poll, waiter>>
          /\ queue' = [queue EXCEPT ![t] = hints]
          /\ notified' = [notified EXCEPT ![t] = notified[t] \/ e.kind = "notify"]
          /\ pending' = (pending \ {e}) \cup
                 (IF e.kind = "converge" THEN Effects(t, {"reject"}) ELSE {})
      BY <1>3 DEF PerformOnRedis, callVars
    <2>2. t \in Tasks /\ e.kind \in EffectKinds /\ e = Effect(t, e.kind)
      BY <1>1 DEF Effect
    <2>3. /\ queue \in [Tasks -> Nat] /\ notified \in [Tasks -> BOOLEAN]
          /\ pending \subseteq [task : Tasks, kind : EffectKinds]
      BY DEF GatewayInductive, GatewayTypes
    <2>4. /\ e.kind = "push" => hints = queue[t] + 1
          /\ e.kind # "push" => hints \in Nat /\ (hints <= 1 \/ hints = queue[t])
      BY <2>2, <2>3
    <2> HIDE DEF hints, t
    <2>5. /\ hints \in Nat
          /\ (notified[t] \/ e.kind = "notify") \in BOOLEAN
      BY <2>2, <2>3, <2>4
    <2>6. \A d \in pending' : \/ d \in pending /\ d # e
                              \/ d = Effect(t, "reject")
      BY <2>1 DEF Effects, Effect
    <2>7. pending' \subseteq [task : Tasks, kind : EffectKinds]
      <3>1. Effect(t, "reject") \in [task : Tasks, kind : EffectKinds]
        BY <2>2 DEF Effect, EffectKinds
      <3> QED BY <2>3, <2>6, <3>1
    <2>8. GatewayTypes'
      BY <2>1, <2>2, <2>3, <2>5, <2>7 DEF GatewayInductive, GatewayTypes
    <2>9. ASSUME NEW u \in Tasks
          PROVE  HintsFollow(u) /\ NotesFollow(u) /\ WaiterFollows(u)
      <3>1. /\ Effect(u, "push") \in pending' =>
                   Effect(u, "push") \in pending /\ Effect(u, "push") # e
            /\ Effect(u, "notify") \in pending' => Effect(u, "notify") \in pending
        BY <2>6, EffectsOf
      <3>2. HintsFollow(u)
        <4>1. CASE u = t /\ e.kind = "push"
          <5>1. e = Effect(u, "push")
            BY <2>2, <4>1
          <5>2. queue'[u] = queue[u] + 1
            BY <2>1, <2>2, <2>3, <2>4, <4>1
          <5> QED BY <3>1, <5>1, <5>2 DEF HintsFollow
        <4>2. CASE u = t /\ e.kind # "push"
          <5>1. queue'[u] = hints
            BY <2>1, <2>2, <2>3, <4>2
          <5> QED BY <2>3, <2>4, <3>1, <4>2, <5>1 DEF HintsFollow
        <4>3. CASE u # t
          <5>1. queue'[u] = queue[u]
            BY <2>1, <2>2, <2>3, <4>3
          <5> QED BY <2>3, <3>1, <5>1 DEF HintsFollow
        <4> QED BY <4>1, <4>2, <4>3
      <3>3. NotesFollow(u)
        <4>1. notified'[u] => notified[u] \/ Effect(u, "notify") \in pending
          BY <2>1, <2>2, <2>3
        <4> QED BY <3>1, <4>1 DEF NotesFollow
      <3> QED BY <2>1, <3>2, <3>3 DEF WaiterFollows
    <2> QED BY <2>8, <2>9 DEF StepFollows
  <1> QED BY <1>2, <1>3

\* The sweeper notifies of the tasks it expires.
LEMMA SweepFollows ==
    ASSUME GatewayInductive, NEW silent, NEW young, SweepCycle(silent, young)
    PROVE  StepFollows
  <1>1. /\ UNCHANGED <<queue, notified, poll, waiter>>
        /\ pending' = pending \cup UNION {SweepEffects(t, young) : t \in Tasks}
        /\ \A t \in Tasks : task'[t] = ExpiredTask(t)
    BY DEF SweepCycle, Sweep, callVars
  <1>2. ASSUME NEW t \in Tasks
        PROVE  \A e \in SweepEffects(t, young) : NewCall(e)
    <2>1. CASE ExpiredTask(t) # task[t]
      <3>1. Overdue(t) /\ ExpiredTask(t) = [task[t] EXCEPT !.status = "expired"]
        BY <2>1 DEF ExpiredTask
      <3>2. SweepEffects(t, young) = Effects(t, {"remove", "notify"})
        BY <2>1, <3>1 DEF SweepEffects
      <3>3. task'[t].status = "expired"
        BY <1>1, <3>1 DEF GatewayInductive, LeaseInvariant, TypeOK, TaskRows
      <3> QED BY <3>2, <3>3, CallsOf DEF EffectKinds, Terminal
    <2>2. CASE ExpiredTask(t) = task[t]
      <3>1. SweepEffects(t, young) \in
                {Effects(t, {"converge"}), Effects(t, {"repush"}), {}}
        BY <2>2 DEF SweepEffects
      <3>2. /\ \A e \in Effects(t, {"converge"}) : NewCall(e)
            /\ \A e \in Effects(t, {"repush"}) : NewCall(e)
        BY CallsOf DEF EffectKinds
      <3> QED BY <3>1, <3>2
    <2> QED BY <2>1, <2>2
  <1>3. CallsFollow
    BY <1>1, <1>2 DEF CallsFollow
  <1> QED BY <1>1, <1>3, CallsAlone DEF GatewayInductive, GatewayTypes

-----------------------------------------------------------------------------
(* The gateway.                                                            *)

\* What the gateway does to the rows is a step of NodeTasks, or nothing.
LEMMA GatewayRows ==
    ASSUME GatewayNext
    PROVE  Next \/ UNCHANGED vars
  <1>1. ASSUME NEW t \in Tasks, RequestStep(t) PROVE Next \/ UNCHANGED vars
    BY <1>1
    DEF RequestStep, Submit, WaiterNotified, WaiterPoll, WaiterTimeout,
        ManagedGivesUp, WaiterGone, Next, TaskStep
  <1>2. ASSUME NEW t \in Tasks, RowStep(t) PROVE Next \/ UNCHANGED vars
    BY <1>2
    DEF RowStep, CompleteEnds, FinishTask, ReplayAnswer, PerformReject,
        Quietly, Next, TaskStep
  <1>3. ASSUME NEW s \in Sessions, WorkerStep(s) PROVE Next \/ UNCHANGED vars
    <2>1. ASSUME NEW t \in Tasks, NEW l \in Leases, Claim(t, s, l)
          PROVE  Next
      BY <2>1 DEF Next, TaskStep
    <2>2. ASSUME NEW t \in Tasks, NEW l \in Leases, NEW r \in Results,
                 CompleteBegin(t, l, s, r)
          PROVE  Next
      BY <2>2 DEF Next, TaskStep
    <2>3. Heartbeat(s) => Next
      BY DEF Next, SessionStep
    <2> QED
      BY <1>3, <2>1, <2>2, <2>3
      DEF WorkerStep, PollBegin, PollPop, PollClaim, PollMiss, PollNative,
          PollEnd, Quietly
  <1>4. ASSUME NEW e \in pending, PerformOnRedis(e) \/ LoseEffect(e)
        PROVE  UNCHANGED vars
    BY <1>4 DEF PerformOnRedis, LoseEffect
  <1>5. ASSUME NEW silent \in SUBSET Nodes, NEW young, SweepCycle(silent, young)
        PROVE  Next
    BY <1>5 DEF SweepCycle, Next
  <1> QED BY <1>1, <1>2, <1>3, <1>4, <1>5 DEF GatewayNext

\* What the gateway does to Redis and the requests follows the rows.
LEMMA GatewayFollows ==
    ASSUME GatewayInductive, \A t \in Tasks : EndStays(t), GatewayNext
    PROVE  StepFollows
  <1>1. ASSUME UNCHANGED <<redisVars, callVars>> PROVE StepFollows
    BY <1>1, CallsAlone
    DEF redisVars, callVars, CallsFollow, GatewayInductive, GatewayTypes
  <1>2. ASSUME NEW t \in Tasks, RequestStep(t) PROVE StepFollows
    BY <1>2, SubmitFollows, NotifiedFollows, RequestFollows DEF RequestStep
  <1>3. ASSUME NEW t \in Tasks, RowStep(t) PROVE StepFollows
    BY <1>1, <1>3, AnswerFollows, RejectFollows
    DEF RowStep, CompleteEnds, Quietly
  <1>4. ASSUME NEW s \in Sessions, WorkerStep(s) PROVE StepFollows
    BY <1>1, <1>4, PollFollows DEF WorkerStep, Quietly
  <1>5. ASSUME NEW e \in pending, PerformOnRedis(e) \/ LoseEffect(e)
        PROVE  StepFollows
    BY <1>5, RedisFollows
  <1>6. ASSUME NEW silent \in SUBSET Nodes, NEW young, SweepCycle(silent, young)
        PROVE  StepFollows
    BY <1>6, SweepFollows
  <1> QED BY <1>2, <1>3, <1>4, <1>5, <1>6 DEF GatewayNext

\* Nodes are online, Redis is empty and nothing waits at first.
LEMMA GatewayInitially == GatewayInit => GatewayInductive
  <1> SUFFICES ASSUME GatewayInit PROVE GatewayInductive
    OBVIOUS
  <1>1. TypeOK
    <2>1. NoTask \in TaskRows /\ NoGrant \in Grants
      BY DEF NoTask, TaskRows, NoGrant, Grants
    <2>2. NoSubmission \in Submissions /\ NoComplete \in Completions
      BY DEF NoSubmission, Submissions, NoComplete, Completions
    <2>3. NoRegister \in Registrations
      BY DEF NoRegister, Registrations
    <2>4. [status |-> "online", count |-> 0] \in NodeRows
      BY DEF NodeRows
    <2>5. \A s \in Sessions :
              [state |-> "valid", node |-> Home[s], accepting |-> TRUE,
               stop |-> "none", from |-> None, holds |-> {}] \in SessionRows
      BY HomeAssumption DEF SessionRows, Stops
    <2> QED BY <2>1, <2>2, <2>3, <2>4, <2>5 DEF GatewayInit, TypeOK
  <1>2. LeaseInvariant
    <2>1. LeaseFollowsStatus
      BY DEF GatewayInit, LeaseFollowsStatus, NoTask
    <2>2. CompletionCurrent
      BY DEF GatewayInit, CompletionCurrent, RowLocked
    <2>3. RequeuedOnlyChat
      BY DEF GatewayInit, RequeuedOnlyChat, NoSubmission
    <2>4. SupersededLeaseReported
      BY ConstantsAssumption
      DEF GatewayInit, SupersededLeaseReported, LeasesOf, NoGrant
    <2>5. AckedOutcomeHolds
      BY DEF GatewayInit, AckedOutcomeHolds, NoSubmission, Terminal
    <2> QED BY <1>1, <2>1, <2>2, <2>3, <2>4, <2>5 DEF LeaseInvariant
  <1>3. GatewayTypes
    BY DEF GatewayInit, GatewayTypes
  <1>4. ASSUME NEW t \in Tasks PROVE RowOK(t) /\ SaysTrue(t)
    <2>1. RowOK(t)
      BY DEF GatewayInit, RowOK, NoTask
    <2>2. SaysTrue(t)
      BY DEF GatewayInit, SaysTrue, HintsOK, NoTask, Terminal
    <2> QED BY <2>1, <2>2
  <1> QED BY <1>2, <1>3, <1>4 DEF GatewayInductive

\* Every step of the gateway keeps the invariant.
LEMMA GatewayStep ==
    GatewayInductive /\ [GatewayNext]_gatewayVars => GatewayInductive'
  <1> SUFFICES ASSUME GatewayInductive, [GatewayNext]_gatewayVars
               PROVE  GatewayInductive'
    OBVIOUS
  <1>1. LeaseInvariant /\ \A t \in Tasks : RowOK(t)
    BY DEF GatewayInductive
  <1>2. [Next]_vars
    BY GatewayRows DEF gatewayVars
  <1>3. LeaseInvariant'
    BY <1>1, <1>2, NextLease
  <1>4. \A t \in Tasks : RowGoesOn(t)
    BY <1>1, <1>2, RowsGoOn
  <1>5. \A t \in Tasks : EndStays(t)
    BY <1>1, <1>2, EndedStep DEF EndStays
  <1>6. StepFollows
    <2>1. CASE GatewayNext
      BY <1>5, <2>1, GatewayFollows
    <2>2. CASE UNCHANGED gatewayVars
      BY <2>2, CallsAlone
      DEF gatewayVars, redisVars, callVars, CallsFollow, GatewayInductive,
          GatewayTypes
    <2> QED BY <2>1, <2>2
  <1>7. \A t \in Tasks : SaysTrue(t)'
    BY <1>4, <1>5, <1>6, SaysFollow DEF GatewayInductive, StepFollows
  <1>8. \A t \in Tasks : RowOK(t)'
    BY <1>4 DEF RowGoesOn
  <1> QED BY <1>3, <1>6, <1>7, <1>8 DEF GatewayInductive, StepFollows

\* The invariant says that Redis, the request and its trace agree with the
\* row.
LEMMA GatewayTells == GatewayInductive => AnswersAreTrue
  <1> SUFFICES ASSUME GatewayInductive PROVE AnswersAreTrue
    OBVIOUS
  <1>1. \A t \in Tasks : SaysTrue(t)
    BY DEF GatewayInductive
  <1>2. GatewayTypeOK
    <2>1. TypeOK
      BY DEF GatewayInductive, LeaseInvariant
    <2>2. queue \in [Tasks -> 0 .. 2]
      BY <1>1 DEF SaysTrue, HintsOK, GatewayInductive, GatewayTypes
    <2> QED BY <2>1, <2>2 DEF GatewayTypeOK, GatewayInductive, GatewayTypes
  <1>3. NotifiedTasksEnded
    BY <1>1, EffectsOf DEF NotifiedTasksEnded, SaysTrue
  <1>4. WaiterToldOutcome
    BY <1>1 DEF WaiterToldOutcome, SaysTrue
  <1>5. TimeoutTraceTrue
    BY <1>1 DEF TimeoutTraceTrue, SaysTrue, TooLate
  <1> QED BY <1>2, <1>3, <1>4, <1>5 DEF AnswersAreTrue

\* For any number of tasks, workers and leases: a notification is only sent
\* for a task that has ended, a request is told how its task ended, and an
\* attempt traced as timed out never succeeds, however late, lost or repeated
\* the calls to Redis are.
THEOREM AnswersTrue == GatewaySpec => []AnswersAreTrue
  BY GatewayInitially, GatewayStep, GatewayTells, PTL DEF GatewaySpec
=============================================================================
