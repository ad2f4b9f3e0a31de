---------------------------- MODULE NativeStream ----------------------------
(***************************************************************************)
(* The event stream of one native task: native_stream.rs of node-gateway,  *)
(* node_stream_event in handlers/node.rs and run_node in                   *)
(* handlers/scoped_stream.rs of keycompute-server.                         *)
(*                                                                         *)
(* A worker leased the task and posts numbered events.  The store keeps    *)
(* them until the owner, the gateway task that serves the client, has      *)
(* forwarded and acknowledged them.  The worker is external: it may post   *)
(* any event under any number, again, late and in any order, so posting is *)
(* never taken away.  A native task is leased once and never again.        *)
(***************************************************************************)
EXTENDS Naturals, Sequences, FiniteSets

CONSTANTS
    MaxSeq,     \* bound: the largest sequence number (4097 in the code)
    MaxUnread,  \* 64 unread frames
    ReadLimit,  \* LIMIT 16
    MaxFaults   \* bound: how many calls of the gateway fail or time out

ASSUME StreamAssumption ==
    /\ MaxSeq \in Nat
    /\ MaxUnread \in Nat \ {0}
    /\ ReadLimit \in Nat \ {0}
    /\ MaxFaults \in Nat

VARIABLES
    task,       \* node_tasks.status
    overdue,    \* deadline_at has passed
    session,    \* the worker's session is live
    stream,     \* node_native_streams
    events,     \* node_native_stream_events, by sequence number
    completing, \* results that node_stream_event is about to complete with
    owner,      \* the owner's task
    gone,       \* the client disconnected
    late,       \* the owner's execution_deadline has passed
    faults

streamVars == <<task, overdue, session, stream, events, completing, owner,
                gone, late, faults>>

\* Frames: "content" is counted, "done" ends the protocol, "broken" makes the
\* inspector fail.
Frames == {"content", "done", "broken"}

Finals == {"terminal", "failed"}

Events == {"start"} \cup Frames \cup Finals

Ended == {"succeeded", "failed", "expired"}

NoStream ==
    [state |-> "none", next |-> 0, unread |-> 0, outcome |-> "none", usage |-> 0]

Streams ==
    [state : {"none", "open", "terminal", "failed", "canceled"},
     next : 0..MaxSeq + 1, unread : 0..MaxSeq + 1,
     outcome : {"none", "complete", "failed"}, usage : 0..MaxSeq + 1]

Owners ==
    [pc : {"poll", "read", "empty", "send", "ack", "judge", "cancel", "finish",
           "done"},
     after : 0..MaxSeq + 1,           \* one more than the last seq seen
     batch : UNION {[1..n -> 0..MaxSeq] : n \in 0..ReadLimit},
     head : BOOLEAN,                  \* the response head went out
     sent : UNION {[1..n -> 0..MaxSeq] : n \in 0..MaxSeq + 1},
     verdict : {"none", "terminal", "failed"},
     outcome : {"none", "succeeded", "failed", "gone", "timeout"},
     cut : BOOLEAN,                   \* the cancellation or final read failed
     billed : 0..MaxSeq + 1]

NewOwner ==
    [pc |-> "poll", after |-> 0, batch |-> <<>>, head |-> FALSE, sent |-> <<>>,
     verdict |-> "none", outcome |-> "none", cut |-> FALSE, billed |-> 0]

Fault == faults < MaxFaults /\ faults' = faults + 1

Stored(seq) == seq < stream.next /\ stream.state # "none"

-----------------------------------------------------------------------------
(* accept_native_stream_event, one transaction on the task's row.          *)

\* Back-pressure; a final event always has room.
Room(ev) == ev \in Finals \/ stream.unread < MaxUnread

\* What the inspector says of the next event.
Fits(ev) ==
    CASE ev = "start" -> stream.next = 0
      [] ev \in Frames -> stream.outcome = "none"
      [] ev = "terminal" -> stream.outcome = "complete"
      [] ev = "failed" -> stream.outcome # "complete"

Observed(ev) ==
    [stream EXCEPT
        !.next = @ + 1,
        !.unread = @ + 1,
        !.usage = IF ev = "content" THEN @ + 1 ELSE @,
        !.outcome = CASE ev = "done" -> "complete"
                      [] ev = "broken" -> "failed"
                      [] OTHER -> @,
        !.state = CASE ev = "terminal" -> "terminal"
                    [] ev = "failed" -> "failed"
                    [] OTHER -> "open"]

\* Mutant: the task's row is not looked at once the stream exists.
LiveMutant == task = "leased" \/ stream.state = "none"

\* The task has not ended and its deadline has not passed.
Live == task = "leased" /\ ~overdue

\* The next event of an open stream, or the start of a stream.
AcceptNew(seq, ev) ==
    /\ session
    /\ seq = stream.next
    /\ Live
    /\ IF stream.state = "none" THEN ev = "start" ELSE stream.state = "open"
    /\ Room(ev)
    /\ Fits(ev)
    /\ stream' = Observed(ev)
    /\ events' = [events EXCEPT ![seq] = [event |-> ev, consumed |-> FALSE]]
    /\ completing' = completing \cup ({ev} \cap Finals)
    /\ UNCHANGED <<task, overdue, session, owner, gone, late, faults>>

\* Mutant: a repeated event is refused.
AcceptAgainMutant(seq, ev) ==
    /\ FALSE
    /\ UNCHANGED streamVars

\* An event that is stored already: the same one is accepted again, and
\* completed again; another one under its number is a conflict.
AcceptAgain(seq, ev) ==
    /\ session
    /\ Stored(seq)
    /\ events[seq].event = ev
    /\ completing' = completing \cup ({ev} \cap Finals)
    /\ UNCHANGED <<task, overdue, session, stream, events, owner, gone, late, faults>>

\* Mutant: a failed native task goes back to the queue like a chat task.
CompleteMutant(ev) ==
    /\ ev \in completing
    /\ completing' = completing \ {ev}
    /\ task' = IF task = "leased" /\ ev = "failed" THEN "queued" ELSE task
    /\ UNCHANGED <<overdue, session, stream, events, owner, gone, late, faults>>

\* node_stream_event goes on with complete_task, a transaction of its own.
\* Past the deadline it records the expiry; a success needs the stream's
\* terminal row; a failure also closes an open stream.
Complete(ev) ==
    /\ ev \in completing
    /\ completing' = completing \ {ev}
    /\ IF task # "leased" THEN UNCHANGED <<task, stream>>
       ELSE IF overdue THEN task' = "expired" /\ stream' = stream
       ELSE IF ev = "terminal"
       THEN /\ task' = IF stream.state = "terminal" THEN "succeeded" ELSE task
            /\ stream' = stream
       ELSE /\ task' = "failed"
            /\ stream' = [stream EXCEPT !.state = IF @ = "open" THEN "failed" ELSE @]
    /\ UNCHANGED <<overdue, session, events, owner, gone, late, faults>>

\* The process dies or the call times out in between.
CompleteLost(ev) ==
    /\ ev \in completing
    /\ Fault
    /\ completing' = completing \ {ev}
    /\ UNCHANGED <<task, overdue, session, stream, events, owner, gone, late>>

\* The worker completes the task without a stream event: with a failure,
\* which closes the stream, or with the upstream's HTTP error, which does not.
CompleteDirectly(closes) ==
    /\ task = "leased" /\ ~overdue
    /\ task' = "failed"
    /\ stream' = [stream EXCEPT !.state =
          IF closes /\ @ = "open" THEN "failed" ELSE @]
    /\ UNCHANGED <<overdue, session, events, completing, owner, gone, late, faults>>

-----------------------------------------------------------------------------
(* run_node: the owner reads, forwards and acknowledges.                   *)

Go(pc) == owner' = [owner EXCEPT !.pc = pc]

End(pc, outcome) == owner' = [owner EXCEPT !.pc = pc, !.outcome = outcome]

OwnerFrame == <<task, overdue, session, stream, events, completing, gone, late>>

\* Mutant: the deadline is only tested before the head.
PollMutant ==
    /\ owner.pc = "poll"
    /\ \/ late /\ ~owner.head /\ End("cancel", "timeout")
       \/ ~late /\ ~owner.head /\ task \in {"failed", "expired"}
          /\ End("finish", "failed")
       \/ (owner.head \/ (~late /\ task \notin {"failed", "expired"})) /\ Go("read")
    /\ UNCHANGED <<OwnerFrame, faults>>

\* The head of the loop: the deadline, and a task that ended before a head.
Poll ==
    /\ owner.pc = "poll"
    /\ \/ late /\ End("cancel", "timeout")
       \/ ~late /\ ~owner.head /\ task \in {"failed", "expired"}
          /\ End("finish", "failed")
       \/ ~late /\ (owner.head \/ task \notin {"failed", "expired"}) /\ Go("read")
    /\ UNCHANGED <<OwnerFrame, faults>>

\* Mutant: what was read once is read again.
ReadableMutant == {seq \in 0..MaxSeq : Stored(seq)}

Readable ==
    {seq \in 0..MaxSeq : Stored(seq) /\ seq >= owner.after /\ ~events[seq].consumed}

\* read_native_stream_events: ordered by seq, at most ReadLimit.
Read ==
    /\ owner.pc = "read"
    /\ LET least == {seq \in Readable :
                        Cardinality({q \in Readable : q < seq}) < ReadLimit}
       IN  IF least = {} THEN Go("empty")
           ELSE owner' = [owner EXCEPT !.pc = "send",
                    !.batch = [i \in 1..Cardinality(least) |->
                        CHOOSE seq \in least :
                            Cardinality({q \in least : q < seq}) = i - 1]]
    /\ UNCHANGED <<OwnerFrame, faults>>

ReadFails ==
    /\ owner.pc = "read"
    /\ Fault
    /\ End("cancel", "failed")
    /\ UNCHANGED OwnerFrame

\* Nothing to read: has the task ended, or the client gone?
Empty ==
    /\ owner.pc = "empty"
    /\ \/ task \in {"failed", "expired"}
          /\ End(IF owner.head THEN "cancel" ELSE "finish", "failed")
       \/ task \notin {"failed", "expired"} /\ gone /\ End("cancel", "gone")
       \/ task \notin {"failed", "expired"} /\ ~gone /\ Go("poll")
    /\ UNCHANGED <<OwnerFrame, faults>>

Current == Head(owner.batch)

\* Forward the event: the head, a chunk, or the verdict.
Send ==
    LET ev == events[Current].event IN
    /\ owner.pc = "send"
    /\ owner' = [owner EXCEPT !.after = Current + 1,
                    !.pc = IF ev \in Frames /\ gone THEN "cancel" ELSE "ack",
                    !.outcome = IF ev \in Frames /\ gone THEN "gone" ELSE @,
                    !.head = @ \/ ev = "start",
                    !.sent = IF ev \in Frames /\ ~gone
                             THEN Append(@, Current) ELSE @,
                    !.verdict = IF ev \in Finals THEN ev ELSE @]
    /\ UNCHANGED <<OwnerFrame, faults>>

\* After the acknowledgement: a verdict ends the loop, the batch goes on, and
\* at its end the owner looks for the client.
AfterAck ==
    IF owner.verdict # "none" THEN Go("judge")
    ELSE IF Len(owner.batch) > 1
    THEN owner' = [owner EXCEPT !.pc = "send", !.batch = Tail(@)]
    ELSE IF gone
    THEN owner' = [owner EXCEPT !.pc = "cancel", !.outcome = "gone", !.batch = <<>>]
    ELSE owner' = [owner EXCEPT !.pc = "poll", !.batch = <<>>]

\* Mutant: the counter goes down and the event is not marked.
AcknowledgeMutant(seq) ==
    /\ events' = events
    /\ stream' = [stream EXCEPT !.unread = @ - 1]

\* acknowledge_native_stream_event.
Acknowledge(seq) ==
    /\ events' = [events EXCEPT ![seq].consumed = TRUE]
    /\ stream' = [stream EXCEPT !.unread = IF events[seq].consumed THEN @ ELSE @ - 1]

Ack ==
    /\ owner.pc = "ack"
    /\ Acknowledge(Current)
    /\ AfterAck
    /\ UNCHANGED <<task, overdue, session, completing, gone, late, faults>>

\* The call fails, or times out after it took effect.  The owner then gives
\* up, unless it has the verdict.
AckFails(applied) ==
    /\ owner.pc = "ack"
    /\ Fault
    /\ IF applied THEN Acknowledge(Current) ELSE UNCHANGED <<events, stream>>
    /\ IF owner.verdict # "none" THEN Go("judge") ELSE End("cancel", "failed")
    /\ UNCHANGED <<task, overdue, session, completing, gone, late>>

\* Mutant: the stream's terminal event is taken for the task's success.
JudgeMutant ==
    /\ owner.pc = "judge"
    /\ \/ owner.verdict = "failed" /\ End("finish", "failed")
       \/ owner.verdict = "terminal" /\ End("finish", "succeeded")
    /\ UNCHANGED <<OwnerFrame, faults>>

\* wait_for_task_terminal: the task's end, or the grace period is over.  Only
\* a committed success is a success, and an unconfirmed one is cancelled.
Judge ==
    /\ owner.pc = "judge"
    /\ \/ owner.verdict = "failed" /\ End("finish", "failed")
       \/ owner.verdict = "terminal" /\ task = "succeeded" /\ End("finish", "succeeded")
       \/ owner.verdict = "terminal" /\ End("cancel", "failed")
    /\ UNCHANGED <<OwnerFrame, faults>>

\* Mutant: the owner cancels a stream whose result is already durable.
CancelsMutant == TRUE

\* A durable terminal event is left to its completion.
Cancels == stream.state # "terminal"

\* cancel_native_stream_in_scope: one transaction on the task's row.
CancelStream ==
    /\ task' = IF Cancels /\ task = "leased" THEN "failed" ELSE task
    /\ stream' = [stream EXCEPT !.state =
          IF Cancels /\ @ \notin {"none", "failed"} THEN "canceled" ELSE @]

Cancel ==
    /\ owner.pc = "cancel"
    /\ CancelStream
    /\ Go("finish")
    /\ UNCHANGED <<overdue, session, events, completing, gone, late, faults>>

\* The call fails, or times out after it took effect.
CancelFails(applied) ==
    /\ owner.pc = "cancel"
    /\ Fault
    /\ IF applied THEN CancelStream ELSE UNCHANGED <<task, stream>>
    /\ owner' = [owner EXCEPT !.pc = "finish", !.cut = TRUE]
    /\ UNCHANGED <<overdue, session, events, completing, gone, late>>

\* Mutant: what the client was sent is what is charged.
FinishMutant ==
    /\ owner.pc = "finish"
    /\ owner' = [owner EXCEPT !.pc = "done",
          !.billed = Cardinality({i \in 1..Len(owner.sent) :
                                     events[owner.sent[i]].event = "content"})]
    /\ UNCHANGED <<OwnerFrame, faults>>

\* finish_node: the usage that is settled is read last.
Finish ==
    /\ owner.pc = "finish"
    /\ owner' = [owner EXCEPT !.pc = "done", !.billed = stream.usage]
    /\ UNCHANGED <<OwnerFrame, faults>>

\* The read times out: the request settles with what the context knows.
FinishFails ==
    /\ owner.pc = "finish"
    /\ Fault
    /\ owner' = [owner EXCEPT !.pc = "done", !.cut = TRUE]
    /\ UNCHANGED OwnerFrame

-----------------------------------------------------------------------------
(* The surroundings.                                                       *)

Disconnect ==
    /\ ~gone
    /\ gone' = TRUE
    /\ UNCHANGED <<task, overdue, session, stream, events, completing, owner, late, faults>>

DeadlinePasses ==
    /\ ~overdue
    /\ overdue' = TRUE
    /\ UNCHANGED <<task, session, stream, events, completing, owner, gone, late, faults>>

OwnerDeadlinePasses ==
    /\ ~late
    /\ late' = TRUE
    /\ UNCHANGED <<task, overdue, session, stream, events, completing, owner, gone,
                   faults>>

SessionEnds ==
    /\ session
    /\ session' = FALSE
    /\ UNCHANGED <<task, overdue, stream, events, completing, owner, gone, late, faults>>

\* The sweeper; it leaves the stream alone.
Expire ==
    /\ task = "leased" /\ overdue
    /\ task' = "expired"
    /\ UNCHANGED <<overdue, session, stream, events, completing, owner, gone, late, faults>>

\* cleanup_native_streams, an hour after the stream of an ended task changed:
\* long after the owner is done.
Cleanup ==
    /\ task \in Ended
    /\ owner.pc = "done"
    /\ stream.state # "none"
    /\ stream' = NoStream
    /\ events' = [seq \in 0..MaxSeq |-> [event |-> "start", consumed |-> TRUE]]
    /\ UNCHANGED <<task, overdue, session, completing, owner, gone, late, faults>>

-----------------------------------------------------------------------------
StreamInit ==
    /\ task = "leased"
    /\ overdue = FALSE
    /\ session = TRUE
    /\ stream = NoStream
    /\ events = [seq \in 0..MaxSeq |-> [event |-> "start", consumed |-> TRUE]]
    /\ completing = {}
    /\ owner = NewOwner
    /\ gone = FALSE
    /\ late = FALSE
    /\ faults = 0

OwnerNext ==
    \/ Poll \/ Read \/ ReadFails \/ Empty \/ Send \/ Ack \/ Judge \/ Cancel
    \/ \E applied \in BOOLEAN : AckFails(applied) \/ CancelFails(applied)
    \/ Finish \/ FinishFails

WorkerNext ==
    \/ \E seq \in 0..MaxSeq, ev \in Events : AcceptNew(seq, ev) \/ AcceptAgain(seq, ev)
    \/ \E closes \in BOOLEAN : CompleteDirectly(closes)

StreamNext ==
    \/ OwnerNext
    \/ WorkerNext
    \/ \E ev \in Finals : Complete(ev) \/ CompleteLost(ev)
    \/ Disconnect \/ DeadlinePasses \/ OwnerDeadlinePasses \/ SessionEnds \/ Expire \/ Cleanup

StreamSpec == StreamInit /\ [][StreamNext]_streamVars

-----------------------------------------------------------------------------
(* What makes streams correct.                                             *)

StreamTypeOK ==
    /\ task \in {"leased"} \cup Ended
    /\ stream \in Streams
    /\ events \in [0..MaxSeq -> [event : Events, consumed : BOOLEAN]]
    /\ completing \subseteq Finals
    /\ owner \in Owners

\* The unread counter is the number of unconsumed events whatever is repeated,
\* and back-pressure bounds it: one final event above the limit.
UnreadCounts ==
    /\ stream.unread =
          Cardinality({seq \in 0..MaxSeq : Stored(seq) /\ ~events[seq].consumed})
    /\ stream.unread <= MaxUnread + 1

\* The client receives the frames in order, each once and none left out.
SentInOrder ==
    \A i \in 1..Len(owner.sent) : owner.sent[i] = i

\* A client is told of success only when the whole stream reached it and the
\* task succeeded with it: start, all frames up to the protocol's end.
SuccessIsWhole ==
    owner.outcome = "succeeded" =>
        /\ task = "succeeded"
        /\ stream.state # "none" =>
              /\ stream.state = "terminal"
              /\ Len(owner.sent) = stream.next - 2
              /\ events[owner.sent[Len(owner.sent)]].event = "done"

\* Cancellation is serialized with the events: what is settled is all the
\* usage the stream ever records, unless the cancellation or the read failed.
SettledWhole ==
    owner.pc = "done" /\ ~owner.cut /\ stream.state # "none"
        => owner.billed = stream.usage

\* What the rows, the client and the bill hold of a stream agree, whatever the
\* worker repeats and whenever the client goes.
StreamInvariant ==
    /\ StreamTypeOK
    /\ UnreadCounts
    /\ SentInOrder
    /\ SuccessIsWhole
    /\ SettledWhole

\* A terminal event that is durable is not undone by the owner: its task does
\* not fail because of a cancellation.
TerminalNotCancelled ==
    [][stream.state = "terminal" =>
          /\ stream'.state \in {"terminal", "none"}
          /\ owner.pc = "cancel" /\ owner'.pc = "finish" => task' = task]_streamVars

\* An ended task's stream takes no more events, even after its row was cleaned
\* up and the worker starts over.
EndedStaysSilent ==
    [][(task \in Ended) => stream'.next <= stream.next]_streamVars

\* The worker repeats its final event until the task has ended.
StreamFairness ==
    /\ SF_streamVars(\E seq \in 0..MaxSeq : AcceptAgain(seq, "terminal"))
    /\ WF_streamVars(Complete("terminal"))
    /\ WF_streamVars(OwnerNext)

StreamFairSpec == StreamSpec /\ StreamFairness

\* A durable terminal event ends in the success of its task although a
\* completion is lost, unless the deadline or the session's end comes first
\* or the worker reports otherwise.
TerminalCompletes ==
    (stream.state = "terminal")
        ~> (task \in Ended \/ overdue \/ ~session)

\* The owner ends, and so the client's response, once its deadline passed,
\* whatever the worker and the task do.
OwnerEnds == late ~> (owner.pc = "done")
=============================================================================
