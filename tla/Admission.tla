----------------------------- MODULE Admission ------------------------------
(***************************************************************************)
(* BoundedAdmission of keycompute-runtime: callers share Total slots, with *)
(* at most PerKey for one tenant or account, and wait in a bounded queue.  *)
(*                                                                         *)
(* A caller registers for the next notify_waiters, inspects the state      *)
(* under the lock and sleeps.  Whoever frees a slot or leaves the queue    *)
(* does so under the lock and calls notify_waiters after unlocking, so     *)
(* other callers run in between.  Callers call again for ever.             *)
(***************************************************************************)
EXTENDS Naturals, Sequences, FiniteSets, SequencesExt

CONSTANTS
    Callers,
    Key,          \* the tenant or account each caller acquires for
    None,
    Total,        \* AdmissionLimits
    PerKey,
    QueueLimit,
    QueuePerKey

Keys == {Key[c] : c \in Callers}

ASSUME AdmissionAssumption ==
    /\ IsFiniteSet(Callers)
    /\ Total \in Nat \ {0} /\ PerKey \in 1..Total
    /\ QueueLimit \in Nat /\ QueuePerKey \in 0..QueueLimit
    /\ None \notin [active : Nat, queued : Nat]

VARIABLES
    closed,     \* State.closed
    closing,    \* close has not called notify_waiters yet
    active,     \* State.active
    keys,       \* State.keys
    queue,      \* State.queue: a waiting caller has one ticket
    pc,         \* where each caller is in acquire, or with its permit
    notified,   \* the caller's Notified future is ready
    expired     \* the caller's deadline is over

admissionVars ==
    <<closed, closing, active, keys, queue, pc, notified, expired>>
stateVars == <<closed, active, keys, queue>>

Queued(c) == c \in Range(queue)

ActiveOf(k) == IF keys[k] = None THEN 0 ELSE keys[k].active
QueuedOf(k) == IF keys[k] = None THEN 0 ELSE keys[k].queued

\* The entry of a key is dropped when nothing is counted in it.
Entry(a, q) == IF a = 0 /\ q = 0 THEN None ELSE [active |-> a, queued |-> q]

\* Mutant: one too many.
EligibleMutant(k) == active < Total /\ ActiveOf(k) <= PerKey

\* eligible
Eligible(k) == active < Total /\ ActiveOf(k) < PerKey

\* eligible_ticket
IsFirstEligible(c) ==
    \E i \in 1..Len(queue) :
        /\ queue[i] = c /\ Eligible(Key[c])
        /\ \A j \in 1..(i - 1) : ~Eligible(Key[queue[j]])

\* The queue when the ticket is removed at its position.
Without(c) == RemoveAt(queue, CHOOSE i \in 1..Len(queue) : queue[i] = c)

NoneEligible == \A i \in 1..Len(queue) : ~Eligible(Key[queue[i]])

AdmissionInit ==
    /\ closed = FALSE /\ closing = FALSE
    /\ active = 0
    /\ keys = [k \in Keys |-> None]
    /\ queue = <<>>
    /\ pc = [c \in Callers |-> "idle"]
    /\ notified = [c \in Callers |-> FALSE]
    /\ expired = [c \in Callers |-> FALSE]

Goto(c, l) == pc' = [pc EXCEPT ![c] = l]

-----------------------------------------------------------------------------
(* acquire *)

\* The head of the loop: enable registers the future before the state is read.
Register(c) ==
    /\ pc[c] \in {"idle", "loop"}
    /\ Goto(c, "inspect")
    /\ notified' = [notified EXCEPT ![c] = FALSE]
    /\ expired' = [expired EXCEPT ![c] = IF pc[c] = "idle" THEN FALSE ELSE @]
    /\ UNCHANGED <<stateVars, closing>>

MayEnter(c) ==
    /\ Eligible(Key[c])
    /\ IF Queued(c) THEN IsFirstEligible(c) ELSE NoneEligible

\* Mutant: a caller that never queued is counted out of the queue.
GrantMutant(c) ==
    /\ pc[c] = "inspect" /\ ~closed /\ MayEnter(c)
    /\ ~(Queued(c) /\ expired[c])
    /\ active' = active + 1
    /\ keys' = [keys EXCEPT ![Key[c]] =
           Entry(ActiveOf(Key[c]) + 1, QueuedOf(Key[c]) - 1)]
    /\ queue' = IF Queued(c) THEN Without(c) ELSE queue
    /\ Goto(c, "granted")
    /\ UNCHANGED <<closed, closing, notified, expired>>

\* The lock is held: grant.
Grant(c) ==
    /\ pc[c] = "inspect" /\ ~closed /\ MayEnter(c)
    /\ ~(Queued(c) /\ expired[c])
    /\ active' = active + 1
    /\ keys' = [keys EXCEPT ![Key[c]] =
           Entry(ActiveOf(Key[c]) + 1,
                 QueuedOf(Key[c]) - IF Queued(c) THEN 1 ELSE 0)]
    /\ queue' = IF Queued(c) THEN Without(c) ELSE queue
    /\ Goto(c, "granted")
    /\ UNCHANGED <<closed, closing, notified, expired>>

\* The limits on waiting.
RoomToQueue(c) ==
    Len(queue) < QueueLimit /\ QueuedOf(Key[c]) < QueuePerKey

Enqueue(c) ==
    /\ pc[c] = "inspect" /\ ~closed /\ ~MayEnter(c) /\ ~Queued(c)
    /\ RoomToQueue(c)
    /\ queue' = Append(queue, c)
    /\ keys' = [keys EXCEPT ![Key[c]] =
           Entry(ActiveOf(Key[c]), QueuedOf(Key[c]) + 1)]
    /\ Goto(c, "park")
    /\ UNCHANGED <<closed, closing, active, notified, expired>>

\* A woken ticket whose turn it is not.
WaitOn(c) ==
    /\ pc[c] = "inspect" /\ ~closed /\ ~MayEnter(c) /\ Queued(c)
    /\ Goto(c, "park")
    /\ UNCHANGED <<stateVars, closing, notified, expired>>

\* Closed, Full, or Timeout at the ticket's turn: the ticket is dropped, which
\* does nothing when it is not queued.
Refuse(c) ==
    /\ pc[c] = "inspect"
    /\ \/ closed
       \/ ~MayEnter(c) /\ ~Queued(c) /\ ~RoomToQueue(c)
       \/ MayEnter(c) /\ Queued(c) /\ expired[c]
    /\ Goto(c, IF Queued(c) THEN "drop" ELSE "idle")
    /\ UNCHANGED <<stateVars, closing, notified, expired>>

\* The lock is released; now the future is awaited.
Park(c) ==
    /\ pc[c] = "park"
    /\ Goto(c, "wait")
    /\ UNCHANGED <<stateVars, closing, notified, expired>>

Wake(c) ==
    /\ pc[c] = "wait" /\ notified[c]
    /\ Goto(c, "loop")
    /\ UNCHANGED <<stateVars, closing, notified, expired>>

DeadlinePasses(c) ==
    /\ pc[c] \in {"inspect", "park", "wait", "loop"} /\ Queued(c) /\ ~expired[c]
    /\ expired' = [expired EXCEPT ![c] = TRUE]
    /\ UNCHANGED <<stateVars, closing, pc, notified>>

\* timeout_at polls the future first.
TimeOut(c) ==
    /\ pc[c] = "wait" /\ expired[c] /\ ~notified[c]
    /\ Goto(c, "drop")
    /\ UNCHANGED <<stateVars, closing, notified, expired>>

\* The caller is cancelled where it awaits.
Cancel(c) ==
    /\ pc[c] = "wait"
    /\ Goto(c, "drop")
    /\ UNCHANGED <<stateVars, closing, notified, expired>>

\* Mutant: a ticket that gives up tells nobody.
DropTicketMutant(c) ==
    /\ pc[c] = "drop"
    /\ queue' = Without(c)
    /\ keys' = [keys EXCEPT ![Key[c]] =
           Entry(ActiveOf(Key[c]), QueuedOf(Key[c]) - 1)]
    /\ Goto(c, "idle")
    /\ UNCHANGED <<closed, closing, active, notified, expired>>

\* Mutant: the ticket stays in the queue.
DropTicketStays(c) ==
    /\ pc[c] = "drop"
    /\ Goto(c, "left")
    /\ UNCHANGED <<stateVars, closing, notified, expired>>

\* Drop of Ticket, under the lock.
DropTicket(c) ==
    /\ pc[c] = "drop"
    /\ queue' = Without(c)
    /\ keys' = [keys EXCEPT ![Key[c]] =
           Entry(ActiveOf(Key[c]), QueuedOf(Key[c]) - 1)]
    /\ Goto(c, "left")
    /\ UNCHANGED <<closed, closing, active, notified, expired>>

\* Drop of Lease: the last clone of the permit is gone.
Release(c) ==
    /\ pc[c] = "hold"
    /\ active' = active - 1
    /\ keys' = [keys EXCEPT ![Key[c]] =
           Entry(ActiveOf(Key[c]) - 1, QueuedOf(Key[c]))]
    /\ Goto(c, "left")
    /\ UNCHANGED <<closed, closing, queue, notified, expired>>

\* Mutant: without enable, only futures that are awaited are notified.
NotifyWaitersMutant ==
    notified' = [c \in Callers |-> notified[c] \/ pc[c] = "wait"]

\* notify_waiters reaches every future that is registered.
NotifyWaiters ==
    notified' = [c \in Callers |->
        notified[c] \/ pc[c] \in {"inspect", "park", "wait"}]

Notify(c) ==
    /\ pc[c] \in {"granted", "left"}
    /\ NotifyWaiters
    /\ Goto(c, IF pc[c] = "granted" THEN "hold" ELSE "idle")
    /\ UNCHANGED <<stateVars, closing, expired>>

Close ==
    /\ ~closed
    /\ closed' = TRUE /\ closing' = TRUE
    /\ UNCHANGED <<active, keys, queue, pc, notified, expired>>

NotifyClosed ==
    /\ closing
    /\ NotifyWaiters
    /\ closing' = FALSE
    /\ UNCHANGED <<stateVars, pc, expired>>

-----------------------------------------------------------------------------

AcquireStep(c) ==
    \/ pc[c] = "loop" /\ Register(c)
    \/ Grant(c) \/ Enqueue(c) \/ WaitOn(c) \/ Refuse(c)
    \/ Park(c) \/ Wake(c) \/ DropTicket(c) \/ Notify(c)

AdmissionNext ==
    \/ \E c \in Callers :
          \/ Register(c) \/ Grant(c) \/ Enqueue(c) \/ WaitOn(c) \/ Refuse(c)
          \/ Park(c) \/ Wake(c) \/ DeadlinePasses(c) \/ TimeOut(c) \/ Cancel(c)
          \/ DropTicket(c) \/ Release(c) \/ Notify(c)
    \/ Close \/ NotifyClosed

AdmissionSpec == AdmissionInit /\ [][AdmissionNext]_admissionVars

\* Tasks that can run do run, permits are dropped in the end, and nothing is
\* assumed of deadlines, cancellation and new calls.
AdmissionFairSpec ==
    /\ AdmissionSpec
    /\ WF_admissionVars(NotifyClosed)
    /\ \A c \in Callers :
          WF_admissionVars(AcquireStep(c)) /\ WF_admissionVars(Release(c))

-----------------------------------------------------------------------------
(* Properties *)

Counts == [active : Nat, queued : Nat]

\* Type correctness.
AdmissionTypeOK ==
    /\ closed \in BOOLEAN /\ closing \in BOOLEAN
    /\ active \in Nat
    /\ keys \in [Keys -> Counts \cup {None}]
    /\ queue \in Seq(Callers)
    /\ pc \in [Callers -> {"idle", "inspect", "park", "wait", "loop", "drop",
                           "granted", "hold", "left"}]
    /\ notified \in [Callers -> BOOLEAN]
    /\ expired \in [Callers -> BOOLEAN]

Holders == {c \in Callers : pc[c] \in {"granted", "hold"}}
Of(S, k) == {c \in S : Key[c] = k}

\* The counters are the permits and the tickets of live callers, so no Drop finds
\* its key missing or a count at zero, and the key map holds only keys in use.
CountsMatch ==
    /\ active = Cardinality(Holders)
    /\ Len(queue) = Cardinality(Range(queue))
    /\ \A c \in Range(queue) :
          pc[c] \in {"inspect", "park", "wait", "loop", "drop"}
    /\ \A k \in Keys :
          keys[k] = Entry(Cardinality(Of(Holders, k)),
                          Cardinality(Of(Range(queue), k)))

\* Total and per-key capacity hold together, and the queue is bounded in total
\* and per key.
WithinLimits ==
    /\ active <= Total /\ Len(queue) <= QueueLimit
    /\ \A k \in Keys : ActiveOf(k) <= PerKey /\ QueuedOf(k) <= QueuePerKey

\* Someone is about to call notify_waiters.
Notifying == closing \/ \E c \in Callers : pc[c] \in {"granted", "left"}

\* No wake-up is lost: the ticket whose turn it is never sleeps on a future
\* that nobody is going to notify, and nobody sleeps through the close.
NoLostWakeup ==
    \A c \in Callers :
        /\ pc[c] \in {"park", "wait"} /\ ~notified[c]
        /\ closed \/ IsFirstEligible(c)
        => Notifying

\* Counters, limits and wake-ups hold through every drop, deadline, cancellation
\* and close.
AdmissionInvariant ==
    /\ AdmissionTypeOK
    /\ CountsMatch
    /\ WithinLimits
    /\ NoLostWakeup

\* Capacity is not left idle for a ticket: everyone who waits gets a permit or
\* an error, without the help of the deadline.
QueuedIsServed == \A c \in Callers : []<>~Queued(c)
=============================================================================
