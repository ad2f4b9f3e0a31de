------------------------- MODULE NativeStreamProofs -------------------------
(***************************************************************************)
(* Theorems about NativeStream, for streams of any length, any limits on   *)
(* unread frames and on a read, and any number of faults.                  *)
(***************************************************************************)
EXTENDS NativeStream, FiniteSetTheorems, SequenceTheorems, TLAPS

-----------------------------------------------------------------------------
(* The inductive invariant.                                                *)

\* The types of the rows.
StreamTypes ==
    /\ task \in {"leased"} \cup Ended
    /\ overdue \in BOOLEAN
    /\ stream \in Streams
    /\ events \in [0..MaxSeq -> [event : Events, consumed : BOOLEAN]]
    /\ completing \subseteq Finals

\* The types of what the owner holds, with sequences of any length.
OwnerRecords ==
    [pc : {"poll", "read", "empty", "send", "ack", "judge", "cancel", "finish",
           "done"},
     after : 0..MaxSeq + 1, batch : Seq(0..MaxSeq), head : BOOLEAN,
     sent : Seq(0..MaxSeq), verdict : {"none", "terminal", "failed"},
     outcome : {"none", "succeeded", "failed", "gone", "timeout"},
     cut : BOOLEAN, billed : 0..MaxSeq + 1]

OwnerTypes == owner \in OwnerRecords /\ Len(owner.batch) <= ReadLimit

\* The rows of a stream: a start, then frames up to the end of the protocol,
\* then at most one final event, which is also the state of the stream.
RowsOK ==
    /\ stream.state = "none" => stream = NoStream
    /\ stream.state # "none" => stream.next >= 1 /\ events[0].event = "start"
    /\ \A seq \in 1..MaxSeq : seq < stream.next => events[seq].event # "start"
    /\ \A seq \in 0..MaxSeq :
           seq < stream.next /\ events[seq].event \in Finals =>
               seq + 1 = stream.next /\ stream.state = events[seq].event
    /\ stream.state = "open" /\ stream.outcome = "complete" =>
           stream.next >= 2 /\ events[stream.next - 1].event = "done"
    /\ stream.state = "terminal" =>
           stream.next >= 3 /\ events[stream.next - 2].event = "done"
    /\ stream.usage <= stream.next

\* The events the owner has not acknowledged.
Unread == {seq \in 0..MaxSeq : seq < stream.next /\ ~events[seq].consumed}

\* The counter counts them, and back-pressure holds it.
UnreadOK ==
    /\ stream.unread = Cardinality(Unread)
    /\ stream.unread <= stream.next
    /\ stream.unread <= MaxUnread + 1
    /\ stream.state = "open" => stream.unread <= MaxUnread

\* How many events the owner has acknowledged while it reads.
Acknowledged == IF owner.pc = "ack" THEN owner.after - 1 ELSE owner.after

\* The owner has acknowledged a prefix of the events while it reads, and the
\* batch in hand is what comes next.
ReaderOK ==
    /\ owner.pc # "done" => owner.after <= stream.next
    /\ owner.pc \in {"poll", "read", "empty", "send", "ack"} =>
           \A seq \in 0..MaxSeq :
               seq < stream.next => (events[seq].consumed <=> seq < Acknowledged)
    /\ owner.pc \in {"send", "ack"} =>
           /\ Len(owner.batch) > 0
           /\ \A i \in 1..Len(owner.batch) :
                  /\ owner.batch[i] = (Acknowledged + i) - 1
                  /\ owner.batch[i] < stream.next

\* The client has every frame before the place of the owner.
SenderOK ==
    /\ SentInOrder
    /\ owner.pc \in {"poll", "read", "empty", "send"} => owner.verdict = "none"
    /\ owner.pc \in {"poll", "read", "empty", "send", "ack"}
          /\ owner.verdict = "none" =>
           Len(owner.sent) = IF owner.after = 0 THEN 0 ELSE owner.after - 1
    /\ owner.pc \in {"ack", "judge"} /\ owner.verdict # "none" =>
           /\ owner.after = stream.next
           /\ owner.verdict = stream.state
           /\ Len(owner.sent) + 2 = owner.after
    /\ owner.pc = "judge" => owner.verdict # "none"
    /\ owner.outcome = "succeeded" =>
           /\ owner.pc \in {"finish", "done"}
           /\ task = "succeeded"
           /\ stream.state # "none" =>
                  stream.state = "terminal" /\ Len(owner.sent) + 2 = stream.next

\* The stream takes no more events.
Closed == task # "leased" \/ overdue \/ stream.state \notin {"none", "open"}

\* A bill is read when the stream takes no more events.
BillOK ==
    /\ owner.pc \in {"finish", "done"} /\ ~owner.cut => Closed
    /\ SettledWhole

\* Together: the inductive invariant.
StreamInductive ==
    /\ StreamTypes
    /\ OwnerTypes
    /\ RowsOK
    /\ UnreadOK
    /\ ReaderOK
    /\ SenderOK
    /\ BillOK

-----------------------------------------------------------------------------
(* Steps that leave the events alone.                                      *)

\* At most the state of an open stream changes, and it closes.
KeepsRows ==
    /\ stream' \in Streams
    /\ stream'.next = stream.next /\ stream'.unread = stream.unread
    /\ stream'.outcome = stream.outcome /\ stream'.usage = stream.usage
    /\ \/ stream' = stream
       \/ stream.state = "open" /\ stream'.state \in {"failed", "canceled"}
    /\ events' = events

\* A task ends once, and its deadline passes once.
TaskFollows ==
    /\ task' = task \/ (task = "leased" /\ task' \in Ended)
    /\ overdue' \in BOOLEAN /\ (overdue => overdue')
    /\ completing' \subseteq Finals

\* The rows of a stream that is closed are what they were.
LEMMA KeptRows ==
    ASSUME StreamInductive, KeepsRows, TaskFollows
    PROVE  StreamTypes' /\ RowsOK' /\ UnreadOK'
  <1>1. StreamTypes'
    BY DEF StreamInductive, StreamTypes, KeepsRows, TaskFollows
  <1>2. \/ stream'.state = stream.state /\ stream' = stream
        \/ stream.state = "open" /\ stream'.state \in {"failed", "canceled"}
    BY DEF KeepsRows
  <1>3. RowsOK'
    <2>1. RowsOK
      BY DEF StreamInductive
    <2>2. ASSUME NEW seq \in 0..MaxSeq, seq < stream.next,
                 events[seq].event \in Finals
          PROVE  stream' = stream
      BY <1>2, <2>1, <2>2 DEF RowsOK, Finals
    <2> QED BY <1>2, <2>1, <2>2 DEF RowsOK, KeepsRows
  <1>4. UnreadOK'
    <2>1. UnreadOK
      BY DEF StreamInductive
    <2>2. Unread' = Unread
      BY DEF Unread, KeepsRows
    <2> QED BY <1>2, <2>1, <2>2 DEF UnreadOK, KeepsRows
  <1> QED BY <1>1, <1>3, <1>4

\* An owner that does not move is where it was.
LEMMA KeptOwner ==
    ASSUME StreamInductive, KeepsRows, TaskFollows, owner' = owner
    PROVE  StreamInductive'
  <1>1. StreamTypes' /\ RowsOK' /\ UnreadOK'
    BY KeptRows
  <1>2. OwnerTypes' /\ ReaderOK'
    <2>1. Acknowledged' = Acknowledged
      BY DEF Acknowledged
    <2> QED BY <2>1 DEF StreamInductive, OwnerTypes, ReaderOK, KeepsRows
  <1>3. \/ stream'.state = stream.state /\ stream' = stream
        \/ stream.state = "open" /\ stream'.state \in {"failed", "canceled"}
    BY DEF KeepsRows
  <1>4. SenderOK'
    <2>1. SenderOK /\ SentInOrder'
      BY DEF StreamInductive, SenderOK, SentInOrder
    <2>2. task = "succeeded" => task' = "succeeded"
      BY DEF TaskFollows
    <2>3. owner.verdict \in {"none", "terminal", "failed"}
      BY DEF StreamInductive, OwnerTypes, OwnerRecords
    <2> QED BY <1>3, <2>1, <2>2, <2>3 DEF SenderOK, KeepsRows
  <1>5. BillOK'
    <2>1. Closed => Closed'
      BY <1>3 DEF Closed, TaskFollows, Ended
    <2> QED BY <1>3, <2>1 DEF StreamInductive, BillOK, SettledWhole, KeepsRows
  <1> QED BY <1>1, <1>2, <1>4, <1>5 DEF StreamInductive

\* The worker, the sweeper and the clocks.
LEMMA OthersKeep ==
    ASSUME StreamInductive,
           \/ \E seq \in 0..MaxSeq, ev \in Events : AcceptAgain(seq, ev)
           \/ \E closes \in BOOLEAN : CompleteDirectly(closes)
           \/ \E ev \in Finals : Complete(ev) \/ CompleteLost(ev)
           \/ Disconnect \/ DeadlinePasses \/ OwnerDeadlinePasses
           \/ SessionEnds \/ Expire \/ UNCHANGED streamVars
    PROVE  StreamInductive'
  <1>1. StreamTypes /\ stream \in Streams
    BY DEF StreamInductive, StreamTypes
  <1>2. owner' = owner /\ events' = events
    BY DEF AcceptAgain, CompleteDirectly, Complete, CompleteLost, Disconnect,
       DeadlinePasses, OwnerDeadlinePasses, SessionEnds, Expire, streamVars
  <1>3. \/ stream' = stream
        \/ stream' = [stream EXCEPT !.state = IF @ = "open" THEN "failed" ELSE @]
    <2>1. ASSUME NEW closes \in BOOLEAN, CompleteDirectly(closes)
          PROVE  \/ stream' = [stream EXCEPT !.state = @]
                 \/ stream' = [stream EXCEPT !.state =
                                 IF @ = "open" THEN "failed" ELSE @]
      BY <2>1 DEF CompleteDirectly
    <2>2. [stream EXCEPT !.state = @] = stream
      BY <1>1 DEF Streams
    <2>3. ASSUME NEW ev \in Finals, Complete(ev)
          PROVE  \/ stream' = stream
                 \/ stream' = [stream EXCEPT !.state =
                                 IF @ = "open" THEN "failed" ELSE @]
      BY <2>3 DEF Complete
    <2> QED BY <2>1, <2>2, <2>3 DEF AcceptAgain, CompleteLost, Disconnect,
       DeadlinePasses, OwnerDeadlinePasses, SessionEnds, Expire, streamVars
  <1>4. KeepsRows
    BY <1>1, <1>2, <1>3 DEF KeepsRows, Streams
  <1>5. TaskFollows
    BY <1>1 DEF StreamTypes, TaskFollows, AcceptAgain, CompleteDirectly,
       Complete, CompleteLost, Disconnect, DeadlinePasses,
       OwnerDeadlinePasses, SessionEnds, Expire, streamVars, Ended
  <1> QED BY <1>2, <1>4, <1>5, KeptOwner

-----------------------------------------------------------------------------
(* The next event, and the end of the rows.                                *)

\* The fields of the row that is written with an event.
Accepts(ev) ==
    /\ stream' \in Streams
    /\ stream'.next = stream.next + 1 /\ stream'.unread = stream.unread + 1
    /\ stream'.usage \in {stream.usage, stream.usage + 1}
    /\ stream'.outcome = IF ev = "done" THEN "complete"
                         ELSE IF ev = "broken" THEN "failed" ELSE stream.outcome
    /\ stream'.state = IF ev \in Finals THEN ev ELSE "open"
    /\ events' \in [0..MaxSeq -> [event : Events, consumed : BOOLEAN]]
    /\ events'[stream.next].event = ev /\ ~events'[stream.next].consumed
    /\ \A seq \in 0..MaxSeq : seq # stream.next => events'[seq] = events[seq]

\* What is counted is finite.
LEMMA UnreadFinite == IsFiniteSet(Unread) /\ Cardinality(Unread) \in Nat
  <1>1. IsFiniteSet(0..MaxSeq)
    BY StreamAssumption, FS_Interval
  <1>2. Unread \subseteq 0..MaxSeq
    BY DEF Unread
  <1>3. IsFiniteSet(Unread)
    BY <1>1, <1>2, FS_Subset
  <1> QED BY <1>3, FS_CardinalityType

\* The action writes these fields.
LEMMA AcceptFields ==
    ASSUME StreamInductive, NEW seq \in 0..MaxSeq, NEW ev \in Events,
           AcceptNew(seq, ev)
    PROVE  Accepts(ev)
  <1>1. /\ stream \in Streams /\ seq = stream.next /\ stream.next \in 0..MaxSeq
        /\ stream.unread <= stream.next /\ stream.usage <= stream.next
        /\ events \in [0..MaxSeq -> [event : Events, consumed : BOOLEAN]]
        /\ MaxSeq \in Nat
    BY StreamAssumption
       DEF StreamInductive, StreamTypes, AcceptNew, UnreadOK, RowsOK
  <1> DEFINE usage == IF ev = "content" THEN stream.usage + 1 ELSE stream.usage
             outcome == CASE ev = "done" -> "complete"
                          [] ev = "broken" -> "failed"
                          [] OTHER -> stream.outcome
             state == CASE ev = "terminal" -> "terminal"
                        [] ev = "failed" -> "failed"
                        [] OTHER -> "open"
             new == [event |-> ev, consumed |-> FALSE]
  <1>2. /\ stream' = [stream EXCEPT !.next = stream.next + 1,
                                    !.unread = stream.unread + 1,
                                    !.usage = usage, !.outcome = outcome,
                                    !.state = state]
        /\ events' = [events EXCEPT ![seq] = new]
    BY DEF AcceptNew, Observed
  <1>3. /\ usage \in 0..MaxSeq + 1 /\ usage \in {stream.usage, stream.usage + 1}
    BY <1>1 DEF Streams
  <1>4. /\ outcome \in {"none", "complete", "failed"}
        /\ outcome = IF ev = "done" THEN "complete"
                     ELSE IF ev = "broken" THEN "failed" ELSE stream.outcome
    BY <1>1 DEF Streams
  <1>5. /\ state \in {"none", "open", "terminal", "failed", "canceled"}
        /\ state = IF ev \in Finals THEN ev ELSE "open"
    BY DEF Finals
  <1>6. new \in [event : Events, consumed : BOOLEAN] /\ new.event = ev /\ ~new.consumed
    OBVIOUS
  <1> HIDE DEF usage, outcome, state, new
  <1> DEFINE next == stream.next + 1
             unread == stream.unread + 1
  <1>n. next \in 0..MaxSeq + 1 /\ unread \in 0..MaxSeq + 1
    BY <1>1 DEF Streams
  <1>m. stream' = [stream EXCEPT !.next = next, !.unread = unread,
                       !.usage = usage, !.outcome = outcome, !.state = state]
    BY <1>2
  <1> HIDE DEF next, unread
  <1>7. /\ stream' \in Streams
        /\ stream'.next = next /\ stream'.unread = unread
        /\ stream'.usage = usage /\ stream'.outcome = outcome
        /\ stream'.state = state
    BY <1>1, <1>n, <1>m, <1>3, <1>4, <1>5 DEF Streams
  <1>8. /\ events' \in [0..MaxSeq -> [event : Events, consumed : BOOLEAN]]
        /\ events'[stream.next] = new
        /\ \A q \in 0..MaxSeq : q # stream.next => events'[q] = events[q]
    BY <1>1, <1>2, <1>6
  <1> QED BY <1>3, <1>4, <1>5, <1>6, <1>7, <1>8 DEF Accepts, next, unread

\* What the store asks of an event before it takes it.
LEMMA AcceptGuards ==
    ASSUME StreamInductive, NEW seq \in 0..MaxSeq, NEW ev \in Events,
           AcceptNew(seq, ev)
    PROVE  /\ stream.next \in 0..MaxSeq /\ stream.state \in {"none", "open"}
           /\ ~Closed
           /\ stream.state = "none" =>
                  ev = "start" /\ stream.next = 0 /\ stream.outcome = "none"
           /\ stream.state = "open" => ev # "start" /\ stream.next >= 1
           /\ ev \in {"content", "broken"} => stream.outcome = "none"
           /\ ev = "terminal" => stream.outcome = "complete"
           /\ ev \in Finals \/ stream.unread < MaxUnread
  <1>1. /\ seq = stream.next /\ Live /\ Room(ev) /\ Fits(ev)
        /\ IF stream.state = "none" THEN ev = "start" ELSE stream.state = "open"
    BY DEF AcceptNew
  <1>2. /\ stream \in Streams
        /\ stream.state = "none" => stream = NoStream
        /\ stream.state # "none" => stream.next >= 1
    BY DEF StreamInductive, StreamTypes, RowsOK
  <1>3. /\ ev = "start" => stream.next = 0
        /\ ev \in {"content", "broken"} => stream.outcome = "none"
        /\ ev = "terminal" => stream.outcome = "complete"
    BY <1>1 DEF Fits, Frames, Events, Finals
  <1>4. stream.state = "none" => stream.next = 0 /\ stream.outcome = "none"
    BY <1>2 DEF NoStream
  <1>5. ~Closed
    BY <1>1 DEF Closed, Live
  <1>6. ev \in Finals \/ stream.unread < MaxUnread
    BY <1>1 DEF Room
  <1>7. stream.next \in 0..MaxSeq /\ stream.state \in {"none", "open"}
    BY <1>1
  <1>8. stream.state = "open" => ev # "start" /\ stream.next >= 1
    BY <1>2, <1>3 DEF Streams
  <1> QED BY <1>1, <1>3, <1>4, <1>5, <1>6, <1>7, <1>8

\* An event extends the rows and the count of what is unread.
LEMMA AcceptRows ==
    ASSUME StreamInductive, NEW seq \in 0..MaxSeq, NEW ev \in Events,
           AcceptNew(seq, ev)
    PROVE  StreamTypes' /\ RowsOK' /\ UnreadOK'
  <1> DEFINE n == stream.next
  <1>1. Accepts(ev)
    BY AcceptFields
  <1>2. /\ n \in 0..MaxSeq /\ stream.state \in {"none", "open"}
        /\ stream.state = "none" =>
               ev = "start" /\ n = 0 /\ stream.outcome = "none"
        /\ stream.state = "open" => ev # "start" /\ n >= 1
        /\ ev \in {"content", "broken"} => stream.outcome = "none"
        /\ ev = "terminal" => stream.outcome = "complete"
        /\ ev \in Finals \/ stream.unread < MaxUnread
    BY AcceptGuards
  <1>3. /\ stream \in Streams /\ RowsOK /\ UnreadOK /\ MaxSeq \in Nat
        /\ MaxUnread \in Nat /\ StreamTypes
    BY StreamAssumption DEF StreamInductive, StreamTypes
  <1>4. StreamTypes'
    BY <1>1, <1>3 DEF StreamTypes, Accepts, AcceptNew
  <1>5. /\ stream'.next = n + 1
        /\ stream'.state = IF ev \in Finals THEN ev ELSE "open"
        /\ events'[n].event = ev
        /\ \A q \in 0..MaxSeq : q # n => events'[q] = events[q]
    BY <1>1 DEF Accepts
  <1> HIDE DEF n
  <1>6. RowsOK'
    <2>1. stream'.state # "none"
      BY <1>5 DEF Finals
    <2>2. stream'.next >= 1 /\ events'[0].event = "start"
      <3>1. CASE stream.state = "none"
        BY <1>2, <1>5, <3>1
      <3>2. CASE stream.state = "open"
        <4>1. events[0].event = "start" /\ 0 # n
          BY <1>2, <1>3, <3>2 DEF RowsOK
        <4> QED BY <1>2, <1>3, <1>5, <4>1
      <3> QED BY <1>2, <3>1, <3>2
    <2>3. ASSUME NEW q \in 1..MaxSeq, q < stream'.next
          PROVE  events'[q].event # "start"
      <3>1. CASE q = n
        BY <1>2, <1>5, <3>1
      <3>2. CASE q # n
        <4>1. q < n /\ events'[q] = events[q]
          BY <1>2, <1>5, <2>3, <3>2
        <4> QED BY <1>3, <4>1 DEF RowsOK, n
      <3> QED BY <3>1, <3>2
    <2>4. ASSUME NEW q \in 0..MaxSeq, q < stream'.next,
                 events'[q].event \in Finals
          PROVE  q + 1 = stream'.next /\ stream'.state = events'[q].event
      <3>1. CASE q = n
        BY <1>2, <1>5, <2>4, <3>1
      <3>2. CASE q # n
        <4>1. q < n /\ events'[q] = events[q]
          BY <1>2, <1>5, <2>4, <3>2
        <4>2. stream.state \in Finals
          BY <1>3, <2>4, <4>1 DEF RowsOK, n
        <4> QED BY <1>2, <4>2 DEF Finals
      <3> QED BY <3>1, <3>2
    <2>5. ASSUME stream'.state = "open", stream'.outcome = "complete"
          PROVE  stream'.next >= 2 /\ events'[stream'.next - 1].event = "done"
      <3>1. ev = "done"
        BY <1>1, <1>2, <1>5, <2>5 DEF Accepts, Events, Frames, Finals
      <3>2. n >= 1 /\ stream'.next - 1 = n
        BY <1>2, <1>5, <3>1
      <3> QED BY <1>2, <1>5, <3>1, <3>2
    <2>6. ASSUME stream'.state = "terminal"
          PROVE  stream'.next >= 3 /\ events'[stream'.next - 2].event = "done"
      <3>1. ev = "terminal"
        BY <1>5, <2>6
      <3>2. n >= 2 /\ events[n - 1].event = "done"
        BY <1>2, <1>3, <3>1 DEF RowsOK, n
      <3>3. stream'.next - 2 = n - 1 /\ n - 1 \in 0..MaxSeq /\ n - 1 # n
        BY <1>2, <1>3, <1>5, <3>2
      <3> QED BY <1>2, <1>5, <3>2, <3>3
    <2>7. stream'.usage <= stream'.next
      BY <1>1, <1>3 DEF Accepts, RowsOK, Streams
    <2> QED BY <2>1, <2>2, <2>3, <2>4, <2>5, <2>6, <2>7 DEF RowsOK
  <1>7. UnreadOK'
    <2>1. Unread' = Unread \cup {n} /\ n \notin Unread
      BY <1>1, <1>2, <1>5 DEF Unread, Accepts, n
    <2>2. IsFiniteSet(Unread)
      BY UnreadFinite
    <2>3. Cardinality(Unread') = Cardinality(Unread) + 1
      BY <2>1, <2>2, FS_AddElement
    <2>4. stream.unread <= MaxUnread /\ stream.unread \in Nat
      <3>1. stream.state = "none" => stream.unread = 0
        BY <1>3 DEF RowsOK, NoStream
      <3> QED BY <1>2, <1>3, <3>1 DEF UnreadOK, Streams
    <2>5. stream'.unread = stream.unread + 1
      BY <1>1 DEF Accepts
    <2>6. stream'.state = "open" => stream.unread < MaxUnread
      BY <1>2, <1>5 DEF Finals
    <2>7. stream.unread <= n /\ stream.unread = Cardinality(Unread)
      BY <1>3 DEF UnreadOK, n
    <2> QED BY <1>2, <1>3, <1>5, <2>3, <2>4, <2>5, <2>6, <2>7 DEF UnreadOK
  <1> QED BY <1>4, <1>6, <1>7

\* An event is taken only while nobody has a verdict, a success or a final
\* bill, and it comes after all that the owner has read.
LEMMA AcceptSafe ==
    ASSUME StreamInductive, NEW seq \in 0..MaxSeq, NEW ev \in Events,
           AcceptNew(seq, ev)
    PROVE  StreamInductive'
  <1> DEFINE n == stream.next
  <1>1. StreamTypes' /\ RowsOK' /\ UnreadOK'
    BY AcceptRows
  <1>2. n \in 0..MaxSeq /\ stream.state \in {"none", "open"} /\ ~Closed
    BY AcceptGuards
  <1>3. /\ stream'.next = n + 1 /\ ~events'[n].consumed
        /\ \A q \in 0..MaxSeq : q # n => events'[q] = events[q]
    BY AcceptFields DEF Accepts
  <1>4. owner' = owner /\ task' = task
    BY DEF AcceptNew
  <1>5. OwnerTypes /\ OwnerTypes' /\ ReaderOK /\ SenderOK /\ BillOK
    BY <1>4 DEF StreamInductive, OwnerTypes
  <1>6. Acknowledged' = Acknowledged
    BY <1>4 DEF Acknowledged
  <1>7. ReaderOK'
    <2>1. /\ owner.pc # "done" => owner.after <= n
          /\ owner.after \in Nat
          /\ Acknowledged <= owner.after /\ Acknowledged \in Int
      BY <1>5 DEF ReaderOK, OwnerTypes, OwnerRecords, Acknowledged
    <2>2. ASSUME owner.pc \in {"poll", "read", "empty", "send", "ack"},
                 NEW q \in 0..MaxSeq, q < stream'.next
          PROVE  events'[q].consumed <=> q < Acknowledged
      <3>1. CASE q = n
        BY <1>2, <1>3, <2>1, <2>2, <3>1
      <3>2. CASE q # n
        <4>1. q < n /\ events'[q] = events[q]
          BY <1>2, <1>3, <2>2, <3>2
        <4> QED BY <1>5, <2>2, <4>1 DEF ReaderOK
      <3> QED BY <3>1, <3>2
    <2>3. owner.pc # "done" => owner.after <= stream'.next
      BY <1>2, <1>3, <2>1
    <2>4. ASSUME owner.pc \in {"send", "ack"}
          PROVE  /\ Len(owner.batch) > 0
                 /\ \A i \in 1..Len(owner.batch) :
                        /\ owner.batch[i] = (Acknowledged + i) - 1
                        /\ owner.batch[i] < stream'.next
      <3>1. /\ Len(owner.batch) > 0
            /\ \A i \in 1..Len(owner.batch) :
                  /\ owner.batch[i] = (Acknowledged + i) - 1
                  /\ owner.batch[i] < n
        BY <1>5, <2>4 DEF ReaderOK
      <3>2. \A i \in 1..Len(owner.batch) : owner.batch[i] \in 0..MaxSeq
        <4>1. owner.batch \in Seq(0..MaxSeq)
          BY <1>5 DEF OwnerTypes, OwnerRecords
        <4> QED BY <4>1, ElementOfSeq
      <3>3. \A i \in 1..Len(owner.batch) : owner.batch[i] < n + 1
        BY <1>2, <3>1, <3>2
      <3> QED BY <1>3, <3>1, <3>3
    <2> QED BY <1>4, <1>6, <2>2, <2>3, <2>4 DEF ReaderOK
  <1>8. SenderOK'
    <2>1. ~(owner.pc \in {"ack", "judge"} /\ owner.verdict # "none")
      BY <1>2, <1>5 DEF SenderOK, OwnerTypes, OwnerRecords
    <2>2. owner.outcome # "succeeded"
      BY <1>2, <1>5 DEF SenderOK, Closed
    <2>3. SentInOrder'
      BY <1>4, <1>5 DEF SenderOK, SentInOrder
    <2> QED BY <1>4, <1>5, <2>1, <2>2, <2>3 DEF SenderOK
  <1>9. BillOK'
    <2>1. ~(owner.pc \in {"finish", "done"} /\ ~owner.cut)
      BY <1>2, <1>5 DEF BillOK
    <2> QED BY <1>4, <2>1 DEF BillOK, SettledWhole
  <1> QED BY <1>1, <1>5, <1>7, <1>8, <1>9 DEF StreamInductive

\* The rows go away when nobody reads them any more.
LEMMA CleanupSafe ==
    ASSUME StreamInductive, Cleanup
    PROVE  StreamInductive'
  <1>1. /\ stream' = NoStream /\ owner' = owner /\ task' = task
        /\ owner.pc = "done" /\ task \in Ended
        /\ events' = [seq \in 0..MaxSeq |-> [event |-> "start", consumed |-> TRUE]]
        /\ overdue' = overdue /\ completing' = completing
    BY DEF Cleanup
  <1>2. /\ NoStream \in Streams /\ NoStream.state = "none"
        /\ NoStream.next = 0 /\ NoStream.unread = 0 /\ NoStream.usage = 0
    BY StreamAssumption DEF NoStream, Streams
  <1>3. StreamTypes'
    BY <1>1, <1>2 DEF StreamInductive, StreamTypes, Events
  <1>4. RowsOK'
    BY <1>1, <1>2, StreamAssumption DEF RowsOK
  <1>5. UnreadOK'
    <2>1. Unread' = {}
      BY <1>1, <1>2 DEF Unread
    <2> QED BY <1>1, <1>2, <2>1, FS_EmptySet, StreamAssumption DEF UnreadOK
  <1>6. OwnerTypes' /\ ReaderOK'
    BY <1>1 DEF StreamInductive, OwnerTypes, ReaderOK
  <1>7. SenderOK'
    BY <1>1, <1>2 DEF StreamInductive, SenderOK, SentInOrder
  <1>8. BillOK'
    BY <1>1, <1>2 DEF BillOK, SettledWhole, Closed, Ended
  <1> QED BY <1>3, <1>4, <1>5, <1>6, <1>7, <1>8 DEF StreamInductive

-----------------------------------------------------------------------------
(* The owner.                                                              *)

\* It goes to another place, perhaps with an outcome, and the rest of what it
\* holds stays.
Goes(pc, outcome) ==
    /\ owner' \in OwnerRecords
    /\ owner'.pc = pc /\ owner'.outcome = outcome
    /\ owner'.after = owner.after /\ owner'.batch = owner.batch
    /\ owner'.sent = owner.sent /\ owner'.verdict = owner.verdict
    /\ owner'.cut = owner.cut /\ owner'.billed = owner.billed

\* What the two ways to move say of its fields.
LEMMA GoFields ==
    ASSUME OwnerTypes,
           NEW pc \in {"poll", "read", "empty", "send", "ack", "judge",
                       "cancel", "finish", "done"}
    PROVE  /\ Go(pc) => Goes(pc, owner.outcome)
           /\ \A outcome \in {"none", "succeeded", "failed", "gone", "timeout"} :
                  End(pc, outcome) => Goes(pc, outcome)
  BY DEF OwnerTypes, OwnerRecords, Goes, Go, End

\* Steps on the owner's side that leave the rows alone.
RowsStay ==
    /\ KeepsRows
    /\ TaskFollows

\* The owner gives up, or knows how it ended.
LEMMA GivesUp ==
    ASSUME StreamInductive, RowsStay, NEW pc \in {"cancel", "finish"},
           NEW outcome \in {"none", "failed", "gone", "timeout"},
           Goes(pc, outcome), owner.pc # "done", pc = "finish" => Closed'
    PROVE  StreamInductive'
  <1>1. StreamTypes' /\ RowsOK' /\ UnreadOK'
    BY KeptRows DEF RowsStay
  <1>2. OwnerTypes'
    BY DEF StreamInductive, OwnerTypes, Goes
  <1>3. ReaderOK'
    BY DEF StreamInductive, ReaderOK, Goes, RowsStay, KeepsRows
  <1>4. SenderOK'
    BY DEF StreamInductive, SenderOK, SentInOrder, Goes
  <1>5. BillOK'
    BY DEF BillOK, SettledWhole, Goes
  <1> QED BY <1>1, <1>2, <1>3, <1>4, <1>5 DEF StreamInductive

\* The owner goes round its loop.
LEMMA GoesRound ==
    ASSUME StreamInductive, RowsStay, stream' = stream,
           owner.pc \in {"poll", "read", "empty"},
           NEW pc \in {"poll", "read", "empty"}, Goes(pc, owner.outcome)
    PROVE  StreamInductive'
  <1>1. StreamTypes' /\ RowsOK' /\ UnreadOK'
    BY KeptRows DEF RowsStay
  <1>2. OwnerTypes'
    BY DEF StreamInductive, OwnerTypes, Goes
  <1>3. ReaderOK'
    BY DEF StreamInductive, ReaderOK, Acknowledged, Goes, RowsStay, KeepsRows
  <1>4. SenderOK'
    BY DEF StreamInductive, SenderOK, SentInOrder, Goes
  <1>5. BillOK'
    BY DEF BillOK, SettledWhole, Goes
  <1> QED BY <1>1, <1>2, <1>3, <1>4, <1>5 DEF StreamInductive

\* A step of the owner on its own memory leaves the rows and the task.
LEMMA FrameStays ==
    ASSUME StreamInductive, UNCHANGED OwnerFrame
    PROVE  RowsStay /\ stream' = stream /\ task' = task /\ overdue' = overdue
  BY DEF StreamInductive, StreamTypes, OwnerFrame, RowsStay, KeepsRows,
         TaskFollows

\* The head of the loop: a deadline, an ended task, or a read.
LEMMA PollSafe ==
    ASSUME StreamInductive, Poll
    PROVE  StreamInductive'
  <1>1. /\ RowsStay /\ stream' = stream /\ task' = task /\ overdue' = overdue
    BY FrameStays DEF Poll
  <1>2. OwnerTypes /\ owner.pc = "poll"
    BY DEF StreamInductive, Poll
  <1>3. CASE End("cancel", "timeout")
    BY <1>1, <1>2, <1>3, GoFields, GivesUp
  <1>4. CASE End("finish", "failed") /\ task \in {"failed", "expired"}
    BY <1>1, <1>2, <1>4, GoFields, GivesUp DEF Closed
  <1>5. CASE Go("read")
    BY <1>1, <1>2, <1>5, GoFields, GoesRound
  <1> QED BY <1>3, <1>4, <1>5 DEF Poll

\* Nothing was read: the task ended, the client is gone, or again.
LEMMA EmptySafe ==
    ASSUME StreamInductive, Empty
    PROVE  StreamInductive'
  <1>1. /\ RowsStay /\ stream' = stream /\ task' = task /\ overdue' = overdue
    BY FrameStays DEF Empty
  <1>2. OwnerTypes /\ owner.pc = "empty"
    BY DEF StreamInductive, Empty
  <1>3. CASE task \in {"failed", "expired"}
             /\ End(IF owner.head THEN "cancel" ELSE "finish", "failed")
    <2>1. Closed'
      BY <1>1, <1>3 DEF Closed
    <2>2. Goes("cancel", "failed") \/ Goes("finish", "failed")
      BY <1>2, <1>3, GoFields
    <2> QED BY <1>1, <1>2, <2>1, <2>2, GivesUp
  <1>4. CASE End("cancel", "gone")
    BY <1>1, <1>2, <1>4, GoFields, GivesUp
  <1>5. CASE Go("poll")
    BY <1>1, <1>2, <1>5, GoFields, GoesRound
  <1> QED BY <1>3, <1>4, <1>5 DEF Empty

\* A read that fails ends the loop.
LEMMA ReadFailsSafe ==
    ASSUME StreamInductive, ReadFails
    PROVE  StreamInductive'
  <1>1. RowsStay
    BY FrameStays DEF ReadFails
  <1>2. OwnerTypes /\ owner.pc = "read" /\ End("cancel", "failed")
    BY DEF StreamInductive, ReadFails
  <1> QED BY <1>1, <1>2, GoFields, GivesUp

-----------------------------------------------------------------------------
(* Reading.                                                                *)

\* What the owner can read are the events from its place on.
LEMMA ReadableNext ==
    ASSUME StreamInductive, owner.pc = "read"
    PROVE  Readable = owner.after..(stream.next - 1)
  <1>1. /\ owner.after \in 0..MaxSeq + 1 /\ stream.next \in 0..MaxSeq + 1
        /\ MaxSeq \in Nat
    BY StreamAssumption
       DEF StreamInductive, OwnerTypes, OwnerRecords, StreamTypes, Streams
  <1>2. \A seq \in 0..MaxSeq :
            seq < stream.next => (events[seq].consumed <=> seq < owner.after)
    BY DEF StreamInductive, ReaderOK, Acknowledged
  <1>3. stream.state = "none" => stream.next = 0
    BY DEF StreamInductive, RowsOK, NoStream
  <1>4. ASSUME NEW seq \in Readable PROVE seq \in owner.after..(stream.next - 1)
    BY <1>1, <1>4 DEF Readable, Stored
  <1>5. ASSUME NEW seq \in owner.after..(stream.next - 1) PROVE seq \in Readable
    <2>1. seq \in 0..MaxSeq /\ seq < stream.next /\ seq >= owner.after
      BY <1>1
    <2>2. ~events[seq].consumed /\ stream.state # "none"
      BY <1>1, <1>2, <1>3, <2>1
    <2> QED BY <2>1, <2>2 DEF Readable, Stored
  <1> QED BY <1>4, <1>5

\* The number of events of an interval below one of them.
LEMMA Below ==
    ASSUME NEW a \in Nat, NEW b \in Int, NEW seq \in a..b
    PROVE  Cardinality({q \in a..b : q < seq}) = seq - a
  <1>1. {q \in a..b : q < seq} = a..(seq - 1)
    OBVIOUS
  <1>2. Cardinality(a..(seq - 1)) = IF a > seq - 1 THEN 0 ELSE ((seq - 1) - a) + 1
    BY FS_Interval
  <1>3. (IF a > seq - 1 THEN 0 ELSE ((seq - 1) - a) + 1) = seq - a
    OBVIOUS
  <1> QED BY <1>1, <1>2, <1>3, Zenon

\* A read takes the events that come next, in order and at most ReadLimit.
LEMMA ReadBatch ==
    ASSUME StreamInductive, Read
    PROVE  \/ Goes("empty", owner.outcome)
           \/ \E n \in 1..ReadLimit :
                 /\ owner.after + n <= stream.next
                 /\ owner' = [owner EXCEPT !.pc = "send",
                        !.batch = [i \in 1..n |-> (owner.after + i) - 1]]
  <1> DEFINE a == owner.after
             m == stream.next
             least == {seq \in Readable :
                          Cardinality({q \in Readable : q < seq}) < ReadLimit}
             nth(i) == CHOOSE seq \in least :
                           Cardinality({q \in least : q < seq}) = i - 1
             n == IF m - a < ReadLimit THEN m - a ELSE ReadLimit
  <1>1. /\ a \in Nat /\ m \in Nat /\ a <= m /\ ReadLimit \in Nat
        /\ ReadLimit >= 1 /\ owner.pc = "read" /\ OwnerTypes
    BY StreamAssumption
       DEF StreamInductive, OwnerTypes, OwnerRecords, StreamTypes, Streams,
           ReaderOK, Read
  <1>2. Readable = a..(m - 1)
    BY <1>1, ReadableNext
  <1>3. n \in 0..ReadLimit /\ a + n <= m
    BY <1>1
  <1>4. IF least = {} THEN Go("empty")
        ELSE owner' = [owner EXCEPT !.pc = "send",
                 !.batch = [i \in 1..Cardinality(least) |-> nth(i)]]
    BY DEF Read
  <1>5. least = a..((a + n) - 1)
    <2>1. \A seq \in a..(m - 1) :
              Cardinality({q \in a..(m - 1) : q < seq}) = seq - a
      BY <1>1, Below
    <2>2. least = {seq \in a..(m - 1) : seq - a < ReadLimit}
      BY <1>2, <2>1
    <2> HIDE DEF least
    <2> QED BY <1>1, <2>2
  <1> HIDE DEF n, least, a, m
  <1>6. CASE n = 0
    <2>1. least = {}
      BY <1>1, <1>5, <1>6
    <2> QED BY <1>1, <1>4, <2>1, GoFields
  <1>7. CASE n # 0
    <2>1. n \in 1..ReadLimit /\ a \in least
      BY <1>1, <1>3, <1>5, <1>7
    <2>2. Cardinality(least) = n
      <3>1. Cardinality(a..((a + n) - 1)) =
                IF a > (a + n) - 1 THEN 0 ELSE (((a + n) - 1) - a) + 1
        BY <1>1, <2>1, FS_Interval
      <3> QED BY <1>1, <1>5, <2>1, <3>1
    <2>3. ASSUME NEW i \in 1..n PROVE nth(i) = (a + i) - 1
      <3> DEFINE c == (a + i) - 1
      <3>1. c \in least /\ i \in Nat
        BY <1>1, <1>5, <2>1
      <3>2. \A seq \in least : Cardinality({q \in least : q < seq}) = seq - a
        BY <1>1, <1>5, <2>1, Below
      <3>3. \A seq \in least :
                Cardinality({q \in least : q < seq}) = i - 1 <=> seq = c
        BY <1>1, <1>5, <3>1, <3>2
      <3> HIDE DEF c
      <3>4. nth(i) = c
        BY <3>1, <3>3
      <3> QED BY <3>4 DEF c
    <2>4. [i \in 1..n |-> nth(i)] = [i \in 1..n |-> (a + i) - 1]
      BY <2>3
    <2> HIDE DEF nth
    <2>5. owner' = [owner EXCEPT !.pc = "send",
                        !.batch = [i \in 1..n |-> (a + i) - 1]]
      BY <1>4, <2>1, <2>2, <2>4
    <2> QED BY <1>3, <2>1, <2>5 DEF a, m
  <1> QED BY <1>6, <1>7

\* Reading keeps the place of the owner.
LEMMA ReadSafe ==
    ASSUME StreamInductive, Read
    PROVE  StreamInductive'
  <1>1. /\ RowsStay /\ stream' = stream /\ task' = task /\ overdue' = overdue
    BY FrameStays DEF Read
  <1>2. OwnerTypes /\ owner.pc = "read" /\ ReaderOK /\ SenderOK
    BY DEF StreamInductive, Read
  <1>3. CASE Goes("empty", owner.outcome)
    BY <1>1, <1>2, <1>3, GoesRound
  <1>4. ASSUME NEW n \in 1..ReadLimit, owner.after + n <= stream.next,
               owner' = [owner EXCEPT !.pc = "send",
                            !.batch = [i \in 1..n |-> (owner.after + i) - 1]]
        PROVE  StreamInductive'
    <2> DEFINE b == [i \in 1..n |-> (owner.after + i) - 1]
    <2>1. /\ owner.after \in 0..MaxSeq + 1 /\ stream.next \in 0..MaxSeq + 1
          /\ MaxSeq \in Nat /\ ReadLimit \in Nat /\ events' = events
      BY <1>1, <1>2, StreamAssumption
         DEF StreamInductive, OwnerTypes, OwnerRecords, StreamTypes, Streams,
             RowsStay, KeepsRows
    <2>2. \A i \in 1..n : (owner.after + i) - 1 \in 0..MaxSeq
      BY <1>4, <2>1
    <2>3. b \in Seq(0..MaxSeq) /\ Len(b) = n
      BY <2>1, <2>2
    <2>4. \A i \in 1..n : b[i] = (owner.after + i) - 1 /\ b[i] < stream.next
      BY <1>4, <2>1
    <2> HIDE DEF b
    <2>5. /\ owner' \in OwnerRecords /\ owner'.pc = "send" /\ owner'.batch = b
          /\ owner'.after = owner.after /\ owner'.sent = owner.sent
          /\ owner'.verdict = owner.verdict /\ owner'.outcome = owner.outcome
      <3>1. owner' = [owner EXCEPT !.pc = "send", !.batch = b]
        BY <1>4 DEF b
      <3> QED BY <1>2, <2>3, <3>1 DEF OwnerTypes, OwnerRecords
    <2>6. StreamTypes' /\ RowsOK' /\ UnreadOK'
      BY <1>1, KeptRows DEF RowsStay
    <2>7. OwnerTypes'
      BY <2>1, <2>3, <2>5 DEF OwnerTypes
    <2>8. Acknowledged = owner.after /\ Acknowledged' = owner.after
      BY <1>2, <2>5 DEF Acknowledged
    <2>9. ReaderOK'
      BY <1>1, <1>2, <2>1, <2>3, <2>4, <2>5, <2>8 DEF ReaderOK
    <2>10. SenderOK'
      BY <1>1, <1>2, <2>5 DEF SenderOK, SentInOrder
    <2>11. BillOK'
      BY <2>5 DEF BillOK, SettledWhole
    <2> QED BY <2>6, <2>7, <2>9, <2>10, <2>11 DEF StreamInductive
  <1> QED BY <1>3, <1>4, ReadBatch

-----------------------------------------------------------------------------
(* Forwarding and acknowledging.                                           *)

\* A batch that is not empty.
LEMMA HeadAndTail ==
    ASSUME NEW S, NEW s \in Seq(S), Len(s) > 0
    PROVE  /\ s # <<>> /\ Head(s) = s[1] /\ s[1] \in S
           /\ Tail(s) \in Seq(S) /\ Len(Tail(s)) = Len(s) - 1
           /\ \A i \in 1..Len(Tail(s)) : Tail(s)[i] = s[i + 1]
  <1>1. s # <<>>
    BY EmptySeq
  <1>2. Head(s) = s[1]
    OBVIOUS
  <1> QED BY <1>1, <1>2, HeadTailProperties

\* The event in hand while the owner sends or acknowledges.
LEMMA InHand ==
    ASSUME StreamInductive, owner.pc \in {"send", "ack"}
    PROVE  /\ Current = Acknowledged /\ Current \in 0..MaxSeq
           /\ Current < stream.next /\ owner.batch # <<>>
           /\ owner.after = IF owner.pc = "ack" THEN Current + 1 ELSE Current
  <1>1. /\ owner.batch \in Seq(0..MaxSeq) /\ owner.after \in Nat
    BY StreamAssumption DEF StreamInductive, OwnerTypes, OwnerRecords
  <1>2. /\ Len(owner.batch) > 0 /\ owner.batch[1] = (Acknowledged + 1) - 1
        /\ owner.batch[1] < stream.next
    BY <1>1 DEF StreamInductive, ReaderOK
  <1>3. Current = owner.batch[1] /\ Current \in 0..MaxSeq /\ owner.batch # <<>>
    <2>1. PICK b \in Seq(0..MaxSeq) : b = owner.batch /\ Len(b) > 0
      BY <1>1, <1>2
    <2>2. b # <<>> /\ Head(b) = b[1] /\ b[1] \in 0..MaxSeq
      BY <2>1, HeadAndTail
    <2> QED BY <2>1, <2>2 DEF Current
  <1>4. Acknowledged = IF owner.pc = "ack" THEN owner.after - 1 ELSE owner.after
    BY DEF Acknowledged
  <1> QED BY <1>1, <1>2, <1>3, <1>4

\* A frame is appended where it belongs, a start and a final event are not
\* sent, and a frame for a client that is gone ends the owner's loop.
LEMMA SendSafe ==
    ASSUME StreamInductive, Send
    PROVE  StreamInductive'
  <1>1. /\ RowsStay /\ stream' = stream /\ task' = task /\ overdue' = overdue
        /\ events' = events
    BY FrameStays DEF Send, OwnerFrame
  <1>2. /\ OwnerTypes /\ owner.pc = "send" /\ ReaderOK /\ SenderOK /\ RowsOK
        /\ StreamTypes
    BY DEF StreamInductive, Send
  <1>3. PICK c \in 0..MaxSeq : c = Current
    BY <1>2, InHand
  <1>4. /\ c < stream.next /\ owner.after = c /\ Acknowledged = c
        /\ MaxSeq \in Nat /\ stream.next \in 0..MaxSeq + 1
    BY <1>2, <1>3, InHand, StreamAssumption DEF StreamTypes, Streams
  <1>5. PICK ev \in Events : ev = events[c].event
    BY <1>2 DEF StreamTypes
  <1>6. /\ owner.verdict = "none" /\ owner.outcome # "succeeded"
        /\ Len(owner.sent) = IF c = 0 THEN 0 ELSE c - 1
        /\ owner.sent \in Seq(0..MaxSeq) /\ SentInOrder
    BY <1>2, <1>4 DEF SenderOK, OwnerTypes, OwnerRecords
  <1>7. /\ c = 0 => ev = "start"
        /\ c # 0 => ev # "start"
        /\ ev \in Finals => c + 1 = stream.next /\ stream.state = ev
    <2>1. stream.state # "none"
      BY <1>2, <1>4 DEF RowsOK, NoStream
    <2> QED BY <1>2, <1>4, <1>5, <2>1 DEF RowsOK
  <1> DEFINE leaves == ev \in Frames /\ gone
             pc == IF leaves THEN "cancel" ELSE "ack"
             outcome == IF leaves THEN "gone" ELSE owner.outcome
             head == owner.head \/ ev = "start"
             sent == IF ev \in Frames /\ ~gone THEN Append(owner.sent, c)
                     ELSE owner.sent
             verdict == IF ev \in Finals THEN ev ELSE owner.verdict
  <1>8. owner' = [owner EXCEPT !.after = c + 1, !.pc = pc, !.outcome = outcome,
                      !.head = head, !.sent = sent, !.verdict = verdict]
    BY <1>3, <1>5 DEF Send
  <1>9. /\ sent \in Seq(0..MaxSeq)
        /\ \A i \in 1..Len(sent) : sent[i] = i
        /\ pc = "ack" => Len(sent) = IF ev \in Frames THEN c ELSE Len(owner.sent)
    <2>1. CASE ev \in Frames /\ ~gone
      <3>1. c # 0 /\ Len(owner.sent) = c - 1
        BY <1>6, <1>7, <2>1 DEF Frames
      <3>2. /\ Append(owner.sent, c) \in Seq(0..MaxSeq)
            /\ Len(Append(owner.sent, c)) = c
            /\ \A i \in 1..c : Append(owner.sent, c)[i] =
                                   IF i = c THEN c ELSE owner.sent[i]
        BY <1>6, <3>1
      <3>3. \A i \in 1..c : Append(owner.sent, c)[i] = i
        BY <1>6, <3>1, <3>2 DEF SentInOrder
      <3>4. sent = Append(owner.sent, c)
        BY <2>1
      <3> QED BY <2>1, <3>2, <3>3, <3>4
    <2>2. CASE ~(ev \in Frames /\ ~gone)
      <3>1. sent = owner.sent
        BY <2>2
      <3> QED BY <1>6, <2>2, <3>1 DEF SentInOrder
    <2> QED BY <2>1, <2>2
  <1>10. /\ pc \in {"cancel", "ack"} /\ outcome # "succeeded"
         /\ outcome \in {"none", "succeeded", "failed", "gone", "timeout"}
         /\ verdict \in {"none", "terminal", "failed"} /\ head \in BOOLEAN
         /\ verdict = IF ev \in Finals THEN ev ELSE "none"
    BY <1>2, <1>6 DEF Finals, OwnerTypes, OwnerRecords
  <1> HIDE DEF leaves, pc, outcome, head, sent, verdict
  <1>11. /\ owner' \in OwnerRecords /\ owner'.after = c + 1 /\ owner'.pc = pc
         /\ owner'.outcome = outcome /\ owner'.sent = sent
         /\ owner'.verdict = verdict /\ owner'.batch = owner.batch
    <2>1. c + 1 \in 0..MaxSeq + 1
      BY <1>4
    <2> QED BY <1>2, <1>8, <1>9, <1>10, <2>1 DEF OwnerTypes, OwnerRecords
  <1>12. StreamTypes' /\ RowsOK' /\ UnreadOK'
    BY <1>1, KeptRows DEF RowsStay
  <1>13. OwnerTypes'
    BY <1>2, <1>11 DEF OwnerTypes
  <1>14. ReaderOK'
    <2>1. c + 1 <= stream.next
      BY <1>4
    <2>2. pc = "ack" => Acknowledged' = c
      BY <1>4, <1>11 DEF Acknowledged
    <2> QED BY <1>1, <1>2, <1>4, <1>10, <1>11, <2>1, <2>2 DEF ReaderOK
  <1>15. SenderOK'
    <2>1. SentInOrder'
      BY <1>9, <1>11 DEF SentInOrder
    <2>2. ASSUME pc = "ack", verdict = "none"
          PROVE  Len(sent) = IF c + 1 = 0 THEN 0 ELSE (c + 1) - 1
      <3>1. ev \notin Finals
        BY <1>10, <2>2 DEF Finals
      <3>2. ev \in Frames \/ ev = "start"
        BY <3>1 DEF Events
      <3> QED BY <1>4, <1>6, <1>7, <1>9, <2>2, <3>2 DEF Frames
    <2>3. ASSUME pc = "ack", verdict # "none"
          PROVE  /\ c + 1 = stream.next /\ verdict = stream.state
                 /\ Len(sent) + 2 = c + 1
      <3>1. ev \in Finals /\ ev \notin Frames /\ ev # "start"
        BY <1>10, <2>3 DEF Finals, Frames
      <3> QED BY <1>4, <1>6, <1>7, <1>9, <1>10, <2>3, <3>1
    <2> QED BY <1>1, <1>10, <1>11, <2>1, <2>2, <2>3 DEF SenderOK
  <1>16. BillOK'
    BY <1>10, <1>11 DEF BillOK, SettledWhole
  <1> QED BY <1>12, <1>13, <1>14, <1>15, <1>16 DEF StreamInductive

\* The fields that an acknowledgement writes.
Acks(c) ==
    /\ stream' \in Streams
    /\ stream'.next = stream.next /\ stream'.unread = stream.unread - 1
    /\ stream'.outcome = stream.outcome /\ stream'.usage = stream.usage
    /\ stream'.state = stream.state
    /\ events' \in [0..MaxSeq -> [event : Events, consumed : BOOLEAN]]
    /\ events'[c].event = events[c].event /\ events'[c].consumed
    /\ \A seq \in 0..MaxSeq : seq # c => events'[seq] = events[seq]

\* The event in hand was not acknowledged before, so it is counted once.
LEMMA AckFields ==
    ASSUME StreamInductive, owner.pc = "ack", NEW c \in 0..MaxSeq, c = Current,
           Acknowledge(c)
    PROVE  Acks(c) /\ c \in Unread
  <1>1. /\ stream \in Streams /\ MaxSeq \in Nat
        /\ events \in [0..MaxSeq -> [event : Events, consumed : BOOLEAN]]
    BY StreamAssumption DEF StreamInductive, StreamTypes
  <1>2. c = Acknowledged /\ c < stream.next
    BY InHand
  <1>3. ~events[c].consumed /\ c \in Unread
    BY <1>2 DEF StreamInductive, ReaderOK, Unread
  <1>4. stream.unread >= 1
    <2>1. Cardinality(Unread) # 0
      BY <1>3, UnreadFinite, FS_EmptySet
    <2> QED BY <2>1, UnreadFinite DEF StreamInductive, UnreadOK
  <1> DEFINE new == [events[c] EXCEPT !.consumed = TRUE]
             unread == stream.unread - 1
  <1>5. /\ events' = [events EXCEPT ![c] = new]
        /\ stream' = [stream EXCEPT !.unread = unread]
    BY <1>3 DEF Acknowledge
  <1>6. /\ new \in [event : Events, consumed : BOOLEAN]
        /\ new.event = events[c].event /\ new.consumed
    BY <1>1
  <1>7. unread \in 0..MaxSeq + 1
    BY <1>1, <1>4 DEF Streams
  <1> HIDE DEF new, unread
  <1>8. /\ stream' \in Streams /\ stream'.unread = unread
        /\ stream'.next = stream.next /\ stream'.outcome = stream.outcome
        /\ stream'.usage = stream.usage /\ stream'.state = stream.state
    BY <1>1, <1>5, <1>7 DEF Streams
  <1>9. /\ events' \in [0..MaxSeq -> [event : Events, consumed : BOOLEAN]]
        /\ events'[c] = new
        /\ \A seq \in 0..MaxSeq : seq # c => events'[seq] = events[seq]
    BY <1>1, <1>5, <1>6
  <1> QED BY <1>3, <1>6, <1>8, <1>9 DEF Acks, unread

\* An acknowledgement changes no event and counts one unread event less.
LEMMA AckRows ==
    ASSUME StreamInductive, owner.pc = "ack", NEW c \in 0..MaxSeq, c = Current,
           Acknowledge(c),
           UNCHANGED <<task, overdue, completing>>
    PROVE  StreamTypes' /\ RowsOK' /\ UnreadOK'
  <1>1. Acks(c) /\ c \in Unread
    BY AckFields
  <1>2. StreamTypes' /\ stream.next \in Nat /\ stream.next <= MaxSeq + 1
    BY <1>1, StreamAssumption
       DEF StreamInductive, StreamTypes, Streams, Acks
  <1>3. \A seq \in 0..MaxSeq : events'[seq].event = events[seq].event
    BY <1>1 DEF Acks
  <1>4. RowsOK'
    <2>1. stream.state # "none"
      BY <1>1 DEF StreamInductive, RowsOK, NoStream, Unread
    <2>2. /\ stream.next >= 1 => stream.next - 1 \in 0..MaxSeq
          /\ stream.next >= 3 => stream.next - 2 \in 0..MaxSeq
          /\ 0 \in 0..MaxSeq /\ 1..MaxSeq \subseteq 0..MaxSeq
      BY <1>2, StreamAssumption
    <2>3. /\ stream.next >= 1 => events'[stream.next - 1].event =
                                     events[stream.next - 1].event
          /\ stream.next >= 3 => events'[stream.next - 2].event =
                                     events[stream.next - 2].event
          /\ events'[0].event = events[0].event
      BY <1>3, <2>2
    <2>4. /\ RowsOK /\ stream'.state = stream.state
          /\ stream'.next = stream.next /\ stream'.outcome = stream.outcome
          /\ stream'.usage = stream.usage
      BY <1>1 DEF StreamInductive, Acks
    <2>5. \A seq \in 1..MaxSeq : seq < stream.next => events'[seq].event # "start"
      BY <1>3, <2>2, <2>4 DEF RowsOK
    <2>6. \A seq \in 0..MaxSeq :
              seq < stream.next /\ events'[seq].event \in Finals =>
                  seq + 1 = stream.next /\ stream.state = events'[seq].event
      BY <1>3, <2>4 DEF RowsOK
    <2>7. stream.state = "open" /\ stream.outcome = "complete" =>
              stream.next >= 2 /\ events'[stream.next - 1].event = "done"
      BY <1>2, <2>3, <2>4 DEF RowsOK
    <2>8. stream.state = "terminal" =>
              stream.next >= 3 /\ events'[stream.next - 2].event = "done"
      BY <1>2, <2>3, <2>4 DEF RowsOK
    <2>9. stream.next >= 1 /\ events'[0].event = "start"
      BY <2>1, <2>3, <2>4 DEF RowsOK
    <2>10. stream.usage <= stream.next
      BY <2>4 DEF RowsOK
    <2> QED BY <2>1, <2>4, <2>5, <2>6, <2>7, <2>8, <2>9, <2>10 DEF RowsOK
  <1>5. UnreadOK'
    <2>1. Unread' = Unread \ {c}
      BY <1>1 DEF Unread, Acks
    <2>2. Cardinality(Unread') = Cardinality(Unread) - 1
      BY <1>1, <2>1, UnreadFinite, FS_RemoveElement
    <2> QED BY <1>1, <1>2, <2>2, UnreadFinite, StreamAssumption
            DEF StreamInductive, UnreadOK, Acks
  <1> QED BY <1>2, <1>4, <1>5

\* The owner leaves the batch: it has a verdict, or it gives up.
LEMMA LeavesBatch ==
    ASSUME StreamInductive, StreamTypes', RowsOK', UnreadOK',
           owner.pc = "ack", stream'.next = stream.next,
           stream'.state = stream.state,
           \/ owner.verdict # "none" /\ Goes("judge", owner.outcome)
           \/ \E outcome \in {"failed", "gone"} : Goes("cancel", outcome)
    PROVE  StreamInductive'
  <1>1. OwnerTypes'
    BY DEF StreamInductive, OwnerTypes, Goes
  <1>2. ReaderOK'
    BY DEF StreamInductive, ReaderOK, Goes
  <1>3. SenderOK'
    <2>1. SenderOK /\ SentInOrder' /\ owner.outcome # "succeeded"
      BY DEF StreamInductive, SenderOK, SentInOrder, Goes
    <2> QED BY <2>1 DEF SenderOK, Goes
  <1>4. BillOK'
    BY DEF BillOK, SettledWhole, Goes
  <1> QED BY <1>1, <1>2, <1>3, <1>4 DEF StreamInductive

\* The owner goes on with the batch, or with its loop.
LEMMA GoesOn ==
    ASSUME StreamInductive, StreamTypes', RowsOK', UnreadOK',
           owner.pc = "ack", owner.verdict = "none",
           NEW c \in 0..MaxSeq, c = Current, Acks(c),
           owner' \in OwnerRecords,
           owner'.after = owner.after, owner'.sent = owner.sent,
           owner'.verdict = owner.verdict,
           \/ /\ owner'.pc = "send" /\ owner'.outcome = owner.outcome
              /\ Len(owner.batch) > 1 /\ owner'.batch = Tail(owner.batch)
           \/ /\ owner'.pc = "poll" /\ owner'.outcome = owner.outcome
              /\ owner'.batch = <<>>
           \/ /\ owner'.pc = "cancel" /\ owner'.outcome = "gone"
              /\ owner'.batch = <<>>
    PROVE  StreamInductive'
  <1>1. /\ c = Acknowledged /\ c < stream.next /\ owner.after = c + 1
        /\ c + 1 \in Nat /\ stream.next \in Nat
    BY InHand DEF StreamInductive, StreamTypes, Streams
  <1>2. stream'.next = stream.next /\ stream'.state = stream.state
    BY DEF Acks
  <1>3. /\ owner.batch \in Seq(0..MaxSeq) /\ Len(owner.batch) <= ReadLimit
        /\ ReadLimit \in Nat /\ ReadLimit >= 1
    BY StreamAssumption DEF StreamInductive, OwnerTypes, OwnerRecords
  <1>4. Len(owner.batch) > 1 =>
            /\ Tail(owner.batch) \in Seq(0..MaxSeq)
            /\ Len(Tail(owner.batch)) = Len(owner.batch) - 1
            /\ \A i \in 1..Len(Tail(owner.batch)) :
                   Tail(owner.batch)[i] = owner.batch[i + 1]
    <2>1. PICK b \in Seq(0..MaxSeq) : b = owner.batch
      BY <1>3
    <2>2. Len(b) > 1 => Len(b) > 0
      BY LenProperties
    <2> QED BY <2>1, <2>2, HeadAndTail
  <1>5. OwnerTypes'
    <2>1. Len(owner'.batch) <= ReadLimit
      <3>1. Len(owner.batch) \in Nat
        BY <1>3
      <3>2. CASE owner'.batch = <<>>
        <4>1. Len(owner'.batch) = 0
          BY <3>2, EmptySeq
        <4> QED BY <1>3, <4>1
      <3>3. CASE Len(owner.batch) > 1 /\ owner'.batch = Tail(owner.batch)
        <4>1. Len(owner'.batch) = Len(owner.batch) - 1
          BY <1>4, <3>3
        <4> QED BY <1>3, <3>1, <4>1
      <3> QED BY <3>2, <3>3
    <2> QED BY <2>1 DEF OwnerTypes
  <1>6. ReaderOK'
    <2>1. owner'.pc \in {"send", "poll"} => Acknowledged' = c + 1
      BY <1>1 DEF Acknowledged
    <2>2. ASSUME NEW seq \in 0..MaxSeq, seq < stream.next
          PROVE  events'[seq].consumed <=> seq < c + 1
      <3>1. events[seq].consumed <=> seq < c
        BY <1>1, <2>2 DEF StreamInductive, ReaderOK
      <3> QED BY <3>1 DEF Acks
    <2>3. ASSUME owner'.pc = "send"
          PROVE  /\ Len(owner'.batch) > 0
                 /\ \A i \in 1..Len(owner'.batch) :
                        /\ owner'.batch[i] = ((c + 1) + i) - 1
                        /\ owner'.batch[i] < stream.next
      <3>1. \A i \in 1..Len(owner.batch) :
                owner.batch[i] = (c + i) - 1 /\ owner.batch[i] < stream.next
        BY <1>1 DEF StreamInductive, ReaderOK
      <3>2. Len(owner.batch) > 1 /\ owner'.batch = Tail(owner.batch)
        BY <2>3
      <3>3. ASSUME NEW i \in 1..Len(owner'.batch)
            PROVE  /\ owner'.batch[i] = ((c + 1) + i) - 1
                   /\ owner'.batch[i] < stream.next
        <4>1. i + 1 \in 1..Len(owner.batch) /\ owner'.batch[i] = owner.batch[i + 1]
          BY <1>3, <1>4, <3>2
        <4> QED BY <3>1, <4>1
      <3> QED BY <1>3, <1>4, <3>2, <3>3
    <2>4. owner'.after <= stream'.next
      BY <1>1, <1>2
    <2> QED BY <1>2, <2>1, <2>2, <2>3, <2>4 DEF ReaderOK
  <1>7. SenderOK'
    <2>1. SenderOK /\ SentInOrder' /\ owner.outcome # "succeeded"
      BY DEF StreamInductive, SenderOK, SentInOrder
    <2> QED BY <2>1 DEF SenderOK
  <1>8. BillOK'
    BY DEF BillOK, SettledWhole
  <1> QED BY <1>5, <1>6, <1>7, <1>8 DEF StreamInductive

\* The owner acknowledges what it forwarded.
LEMMA AckSafe ==
    ASSUME StreamInductive, Ack
    PROVE  StreamInductive'
  <1>1. /\ owner.pc = "ack" /\ Acknowledge(Current) /\ AfterAck /\ OwnerTypes
        /\ UNCHANGED <<task, overdue, completing>>
    BY DEF Ack, StreamInductive
  <1>2. PICK c \in 0..MaxSeq : c = Current
    BY <1>1, InHand
  <1>3. Acks(c) /\ StreamTypes' /\ RowsOK' /\ UnreadOK'
    BY <1>1, <1>2, AckFields, AckRows
  <1>4. stream'.next = stream.next /\ stream'.state = stream.state
    BY <1>3 DEF Acks
  <1>5. CASE owner.verdict # "none"
    <2>1. Goes("judge", owner.outcome)
      BY <1>1, <1>5, GoFields DEF AfterAck
    <2> QED BY <1>1, <1>3, <1>4, <1>5, <2>1, LeavesBatch
  <1>6. CASE owner.verdict = "none"
    <2>1. \/ /\ Len(owner.batch) > 1
             /\ owner' = [owner EXCEPT !.pc = "send", !.batch = Tail(@)]
          \/ owner' = [owner EXCEPT !.pc = "cancel", !.outcome = "gone",
                                    !.batch = <<>>]
          \/ owner' = [owner EXCEPT !.pc = "poll", !.batch = <<>>]
      BY <1>1, <1>6 DEF AfterAck
    <2>2. /\ owner.batch \in Seq(0..MaxSeq) /\ <<>> \in Seq(0..MaxSeq)
          /\ owner \in OwnerRecords
      BY <1>1 DEF OwnerTypes, OwnerRecords
    <2>3. Len(owner.batch) > 1 => Tail(owner.batch) \in Seq(0..MaxSeq)
      <3>1. PICK s \in Seq(0..MaxSeq) : s = owner.batch
        BY <2>2
      <3>2. Len(s) > 1 => Len(s) > 0
        BY LenProperties
      <3> QED BY <3>1, <3>2, HeadAndTail
    <2>4. PICK b \in Seq(0..MaxSeq) :
              \/ /\ Len(owner.batch) > 1 /\ b = Tail(owner.batch)
                 /\ owner' = [owner EXCEPT !.pc = "send", !.batch = b]
              \/ /\ b = <<>>
                 /\ owner' = [owner EXCEPT !.pc = "cancel", !.outcome = "gone",
                                           !.batch = b]
              \/ /\ b = <<>> /\ owner' = [owner EXCEPT !.pc = "poll", !.batch = b]
      BY <2>1, <2>2, <2>3
    <2>5. /\ owner' \in OwnerRecords
          /\ owner'.after = owner.after /\ owner'.sent = owner.sent
          /\ owner'.verdict = owner.verdict /\ owner'.batch = b
          /\ \/ /\ owner'.pc = "send" /\ owner'.outcome = owner.outcome
                /\ Len(owner.batch) > 1 /\ b = Tail(owner.batch)
             \/ /\ owner'.pc = "poll" /\ owner'.outcome = owner.outcome
                /\ b = <<>>
             \/ owner'.pc = "cancel" /\ owner'.outcome = "gone" /\ b = <<>>
      BY <2>2, <2>4 DEF OwnerRecords
    <2> QED BY <1>1, <1>2, <1>3, <1>6, <2>5, GoesOn
  <1> QED BY <1>5, <1>6

\* The call fails, whether or not it took effect.
LEMMA AckFailsSafe ==
    ASSUME StreamInductive, NEW applied \in BOOLEAN, AckFails(applied)
    PROVE  StreamInductive'
  <1>1. /\ owner.pc = "ack" /\ OwnerTypes
        /\ UNCHANGED <<task, overdue, completing>>
        /\ IF applied THEN Acknowledge(Current) ELSE UNCHANGED <<events, stream>>
        /\ IF owner.verdict # "none" THEN Go("judge") ELSE End("cancel", "failed")
    BY DEF AckFails, StreamInductive
  <1>2. PICK c \in 0..MaxSeq : c = Current
    BY <1>1, InHand
  <1>3. /\ StreamTypes' /\ RowsOK' /\ UnreadOK'
        /\ stream'.next = stream.next /\ stream'.state = stream.state
    <2>1. CASE Acknowledge(c)
      BY <1>1, <1>2, <2>1, AckFields, AckRows DEF Acks
    <2>2. CASE UNCHANGED <<events, stream>>
      <3>1. KeepsRows /\ TaskFollows
        BY <1>1, <2>2
           DEF StreamInductive, StreamTypes, KeepsRows, TaskFollows
      <3> QED BY <2>2, <3>1, KeptRows
    <2> QED BY <1>1, <1>2, <2>1, <2>2
  <1>4. \/ owner.verdict # "none" /\ Goes("judge", owner.outcome)
        \/ Goes("cancel", "failed")
    BY <1>1, GoFields
  <1> QED BY <1>1, <1>3, <1>4, LeavesBatch

-----------------------------------------------------------------------------
(* The end of the owner's loop.                                            *)

\* The verdict is the state of the stream, and a success is the task's.
LEMMA JudgeSafe ==
    ASSUME StreamInductive, Judge
    PROVE  StreamInductive'
  <1>1. /\ RowsStay /\ stream' = stream /\ task' = task /\ overdue' = overdue
    BY FrameStays DEF Judge
  <1>2. /\ OwnerTypes /\ owner.pc = "judge" /\ SenderOK
        /\ owner.verdict # "none" /\ owner.verdict = stream.state
        /\ owner.after = stream.next /\ Len(owner.sent) + 2 = owner.after
    BY DEF StreamInductive, SenderOK, Judge
  <1>3. CASE owner.verdict = "failed" /\ End("finish", "failed")
    <2>1. Closed'
      BY <1>1, <1>2, <1>3 DEF Closed
    <2> QED BY <1>1, <1>2, <1>3, <2>1, GoFields, GivesUp
  <1>4. CASE owner.verdict = "terminal" /\ End("cancel", "failed")
    BY <1>1, <1>2, <1>4, GoFields, GivesUp
  <1>5. CASE /\ owner.verdict = "terminal" /\ task = "succeeded"
             /\ End("finish", "succeeded")
    <2>1. Goes("finish", "succeeded")
      BY <1>2, <1>5, GoFields
    <2>2. StreamTypes' /\ RowsOK' /\ UnreadOK'
      BY <1>1, KeptRows DEF RowsStay
    <2>3. OwnerTypes' /\ ReaderOK'
      BY <1>1, <1>2, <2>1 DEF StreamInductive, OwnerTypes, ReaderOK, Goes
    <2>4. SenderOK'
      BY <1>1, <1>2, <1>5, <2>1 DEF SenderOK, SentInOrder, Goes
    <2>5. BillOK'
      BY <1>1, <1>5, <2>1 DEF BillOK, SettledWhole, Closed, Goes
    <2> QED BY <2>2, <2>3, <2>4, <2>5 DEF StreamInductive
  <1> QED BY <1>3, <1>4, <1>5 DEF Judge

\* A cancellation closes the stream or ends the task, unless a terminal event
\* is stored.
LEMMA CancelCloses ==
    ASSUME StreamInductive, CancelStream, UNCHANGED <<overdue, events, completing>>
    PROVE  RowsStay /\ Closed'
  <1>1. stream \in Streams /\ StreamTypes
    BY DEF StreamInductive, StreamTypes
  <1>2. TaskFollows
    BY <1>1 DEF StreamTypes, TaskFollows, CancelStream, Ended
  <1> DEFINE state == IF Cancels /\ stream.state \notin {"none", "failed"}
                      THEN "canceled" ELSE stream.state
  <1>3. stream' = [stream EXCEPT !.state = state]
    BY DEF CancelStream
  <1>4. /\ state \in {"none", "open", "terminal", "failed", "canceled"}
        /\ state = stream.state \/ (stream.state = "open" /\ state = "canceled")
        /\ stream.state = "terminal" => state = "terminal"
    BY <1>1 DEF Streams, Cancels
  <1> HIDE DEF state
  <1>5. /\ stream' \in Streams /\ stream'.state = state
        /\ stream'.next = stream.next /\ stream'.unread = stream.unread
        /\ stream'.outcome = stream.outcome /\ stream'.usage = stream.usage
        /\ state = stream.state => stream' = stream
    BY <1>1, <1>3, <1>4 DEF Streams
  <1>6. KeepsRows
    BY <1>4, <1>5 DEF KeepsRows
  <1>7. Closed'
    <2>1. CASE Cancels
      BY <2>1 DEF CancelStream, Closed
    <2>2. CASE ~Cancels
      BY <1>4, <1>5, <2>2 DEF Cancels, Closed
    <2> QED BY <2>1, <2>2
  <1> QED BY <1>2, <1>6, <1>7 DEF RowsStay

\* The owner cancels what it gave up.
LEMMA CancelSafe ==
    ASSUME StreamInductive, Cancel
    PROVE  StreamInductive'
  <1>1. RowsStay /\ Closed'
    BY CancelCloses DEF Cancel
  <1>2. owner.pc = "cancel" /\ OwnerTypes
    BY DEF Cancel, StreamInductive
  <1>3. PICK outcome \in {"none", "failed", "gone", "timeout"} :
            outcome = owner.outcome
    BY <1>2 DEF StreamInductive, SenderOK, OwnerTypes, OwnerRecords
  <1>4. Goes("finish", outcome)
    BY <1>2, <1>3, GoFields DEF Cancel
  <1> QED BY <1>1, <1>2, <1>4, GivesUp

\* Whether or not the failed call took effect.
LEMMA CancelFailsSafe ==
    ASSUME StreamInductive, NEW applied \in BOOLEAN, CancelFails(applied)
    PROVE  StreamInductive'
  <1>1. RowsStay
    <2>1. CASE CancelStream
      BY <2>1, CancelCloses DEF CancelFails
    <2>2. CASE UNCHANGED <<task, stream>>
      BY <2>2 DEF CancelFails, StreamInductive, StreamTypes, RowsStay, KeepsRows,
         TaskFollows
    <2> QED BY <2>1, <2>2 DEF CancelFails
  <1>2. /\ owner.pc = "cancel" /\ OwnerTypes /\ ReaderOK /\ SenderOK
        /\ owner' = [owner EXCEPT !.pc = "finish", !.cut = TRUE]
    BY DEF CancelFails, StreamInductive
  <1>3. /\ owner' \in OwnerRecords /\ owner'.pc = "finish" /\ owner'.cut
        /\ owner'.after = owner.after /\ owner'.batch = owner.batch
        /\ owner'.sent = owner.sent /\ owner'.outcome = owner.outcome
    BY <1>2 DEF OwnerTypes, OwnerRecords
  <1>4. StreamTypes' /\ RowsOK' /\ UnreadOK'
    BY <1>1, KeptRows DEF RowsStay
  <1>5. OwnerTypes' /\ ReaderOK'
    BY <1>1, <1>2, <1>3 DEF OwnerTypes, ReaderOK, RowsStay, KeepsRows
  <1>6. SenderOK'
    BY <1>2, <1>3 DEF SenderOK, SentInOrder
  <1>7. BillOK'
    BY <1>3 DEF BillOK, SettledWhole
  <1> QED BY <1>4, <1>5, <1>6, <1>7 DEF StreamInductive

\* What is billed is read when the stream takes no more events.
LEMMA FinishSafe ==
    ASSUME StreamInductive, Finish \/ FinishFails
    PROVE  StreamInductive'
  <1>1. /\ RowsStay /\ stream' = stream /\ task' = task /\ overdue' = overdue
    BY FrameStays DEF Finish, FinishFails
  <1>2. /\ owner.pc = "finish" /\ OwnerTypes /\ SenderOK /\ BillOK
        /\ stream.usage \in 0..MaxSeq + 1
    BY DEF Finish, FinishFails, StreamInductive, StreamTypes, Streams
  <1>3. /\ owner' \in OwnerRecords /\ owner'.pc = "done"
        /\ owner'.batch = owner.batch /\ owner'.sent = owner.sent
        /\ owner'.outcome = owner.outcome
        /\ \/ owner'.cut
           \/ owner'.cut = owner.cut /\ owner'.billed = stream.usage
    BY <1>2 DEF Finish, FinishFails, OwnerTypes, OwnerRecords
  <1>4. StreamTypes' /\ RowsOK' /\ UnreadOK'
    BY <1>1, KeptRows DEF RowsStay
  <1>5. OwnerTypes' /\ ReaderOK'
    BY <1>2, <1>3 DEF OwnerTypes, ReaderOK
  <1>6. SenderOK'
    BY <1>1, <1>2, <1>3 DEF SenderOK, SentInOrder
  <1>7. BillOK'
    BY <1>1, <1>2, <1>3 DEF BillOK, SettledWhole, Closed
  <1> QED BY <1>4, <1>5, <1>6, <1>7 DEF StreamInductive

-----------------------------------------------------------------------------
(* The theorems.                                                           *)

\* Nothing was posted and nothing was read.
LEMMA StreamInitially ==
    ASSUME StreamInit
    PROVE  StreamInductive
  <1>1. /\ stream = NoStream /\ owner = NewOwner /\ task = "leased"
        /\ overdue = FALSE /\ completing = {}
        /\ events = [seq \in 0..MaxSeq |-> [event |-> "start", consumed |-> TRUE]]
    BY DEF StreamInit
  <1>2. /\ NoStream \in Streams /\ NoStream.state = "none"
        /\ NoStream.next = 0 /\ NoStream.unread = 0 /\ NoStream.usage = 0
    BY StreamAssumption DEF NoStream, Streams
  <1>3. StreamTypes
    BY <1>1, <1>2 DEF StreamTypes, Events
  <1>4. RowsOK
    BY <1>1, <1>2, StreamAssumption DEF RowsOK
  <1>5. UnreadOK
    <2>1. Unread = {}
      BY <1>1, <1>2 DEF Unread
    <2> QED BY <1>1, <1>2, <2>1, FS_EmptySet, StreamAssumption DEF UnreadOK
  <1>6. /\ owner \in OwnerRecords /\ owner.pc = "poll" /\ owner.after = 0
        /\ owner.batch = <<>> /\ owner.sent = <<>> /\ owner.verdict = "none"
        /\ owner.outcome = "none"
    BY <1>1, StreamAssumption DEF NewOwner, OwnerRecords
  <1>7. Len(<<>>) = 0
    BY EmptySeq
  <1>8. OwnerTypes
    BY <1>6, <1>7, StreamAssumption DEF OwnerTypes
  <1>9. ReaderOK
    BY <1>1, <1>2, <1>6 DEF ReaderOK
  <1>10. SenderOK
    BY <1>6, <1>7 DEF SenderOK, SentInOrder
  <1>11. BillOK
    BY <1>6 DEF BillOK, SettledWhole
  <1> QED BY <1>3, <1>4, <1>5, <1>8, <1>9, <1>10, <1>11 DEF StreamInductive

\* One case for each action of NativeStream.
LEMMA StreamStep ==
    StreamInductive /\ [StreamNext]_streamVars => StreamInductive'
  <1> SUFFICES ASSUME StreamInductive, [StreamNext]_streamVars
               PROVE  StreamInductive'
    OBVIOUS
  <1>1. CASE OwnerNext
    BY <1>1, PollSafe, ReadSafe, ReadFailsSafe, EmptySafe, SendSafe, AckSafe,
       JudgeSafe, CancelSafe, AckFailsSafe, CancelFailsSafe, FinishSafe
       DEF OwnerNext
  <1>2. ASSUME NEW seq \in 0..MaxSeq, NEW ev \in Events, AcceptNew(seq, ev)
        PROVE  StreamInductive'
    BY <1>2, AcceptSafe
  <1>3. CASE \/ \E seq \in 0..MaxSeq, ev \in Events : AcceptAgain(seq, ev)
             \/ \E closes \in BOOLEAN : CompleteDirectly(closes)
             \/ \E ev \in Finals : Complete(ev) \/ CompleteLost(ev)
             \/ Disconnect \/ DeadlinePasses \/ OwnerDeadlinePasses
             \/ SessionEnds \/ Expire \/ UNCHANGED streamVars
    BY <1>3, OthersKeep
  <1> QED BY <1>1, <1>2, <1>3, CleanupSafe DEF StreamNext, WorkerNext

\* A sequence of bounded length.
LEMMA Bounded ==
    ASSUME NEW S, NEW s \in Seq(S), NEW max \in Nat, Len(s) \in 0..max
    PROVE  s \in UNION {[1..n -> S] : n \in 0..max}
  <1>1. s \in [1..Len(s) -> S]
    BY LenProperties
  <1>2. [1..Len(s) -> S] \in {[1..n -> S] : n \in 0..max}
    OBVIOUS
  <1> QED BY <1>1, <1>2

\* What the inductive invariant says of the properties that were asked for.
LEMMA StreamEnough == StreamInductive => StreamInvariant
  <1> SUFFICES ASSUME StreamInductive PROVE StreamInvariant
    OBVIOUS
  <1>1. /\ StreamTypes /\ OwnerTypes /\ RowsOK /\ UnreadOK /\ SenderOK /\ BillOK
        /\ MaxSeq \in Nat /\ ReadLimit \in Nat /\ MaxUnread \in Nat
    BY StreamAssumption DEF StreamInductive
  <1>2. SentInOrder /\ SettledWhole
    BY <1>1 DEF SenderOK, BillOK
  <1>3. /\ owner.batch \in Seq(0..MaxSeq) /\ Len(owner.batch) \in 0..ReadLimit
        /\ owner.sent \in Seq(0..MaxSeq) /\ Len(owner.sent) \in Nat
        /\ owner \in OwnerRecords
    BY <1>1, LenProperties DEF OwnerTypes, OwnerRecords
  <1>4. Len(owner.sent) \in 0..MaxSeq + 1
    <2>1. PICK s \in Seq(0..MaxSeq) : s = owner.sent
      BY <1>3
    <2>2. CASE Len(s) > 0
      <3>1. Len(s) \in 1..Len(s) /\ s[Len(s)] \in 0..MaxSeq
        <4>1. Len(s) \in Nat /\ Len(s) \in 1..Len(s)
          BY <2>2, LenProperties
        <4> QED BY <4>1, ElementOfSeq
      <3>2. s[Len(s)] = Len(s)
        BY <1>2, <2>1, <3>1 DEF SentInOrder
      <3> QED BY <1>1, <2>1, <3>1, <3>2
    <2>3. CASE ~(Len(s) > 0)
      BY <1>1, <1>3, <2>1, <2>3
    <2> QED BY <2>2, <2>3
  <1>5. StreamTypeOK
    <2>1. owner.batch \in UNION {[1..n -> 0..MaxSeq] : n \in 0..ReadLimit}
      BY <1>1, <1>3, Bounded
    <2>2. owner.sent \in UNION {[1..n -> 0..MaxSeq] : n \in 0..MaxSeq + 1}
      <3>1. MaxSeq + 1 \in Nat
        BY <1>1
      <3> QED BY <1>3, <1>4, <3>1, Bounded
    <2>3. owner \in Owners
      BY <1>3, <2>1, <2>2 DEF OwnerRecords, Owners
    <2> QED BY <1>1, <2>3 DEF StreamTypes, StreamTypeOK
  <1>6. UnreadCounts
    <2>1. stream.state = "none" => stream.next = 0
      BY <1>1 DEF RowsOK, NoStream
    <2>2. Unread = {seq \in 0..MaxSeq : Stored(seq) /\ ~events[seq].consumed}
      BY <1>1, <2>1 DEF Unread, Stored
    <2> QED BY <1>1, <2>2 DEF UnreadCounts, UnreadOK
  <1>7. SuccessIsWhole
    <2> SUFFICES ASSUME owner.outcome = "succeeded"
                 PROVE  /\ task = "succeeded"
                        /\ stream.state # "none" =>
                              /\ stream.state = "terminal"
                              /\ Len(owner.sent) = stream.next - 2
                              /\ events[owner.sent[Len(owner.sent)]].event = "done"
      BY DEF SuccessIsWhole
    <2>1. task = "succeeded"
      BY <1>1 DEF SenderOK
    <2>2. ASSUME stream.state # "none"
          PROVE  /\ stream.state = "terminal"
                 /\ Len(owner.sent) = stream.next - 2
                 /\ events[owner.sent[Len(owner.sent)]].event = "done"
      <3>1. stream.state = "terminal" /\ Len(owner.sent) + 2 = stream.next
        BY <1>1, <2>2 DEF SenderOK
      <3>2. stream.next \in Nat /\ stream.next >= 3
        BY <1>1, <3>1 DEF RowsOK, StreamTypes, Streams
      <3>3. Len(owner.sent) = stream.next - 2 /\ Len(owner.sent) \in 1..Len(owner.sent)
        BY <1>3, <3>1, <3>2
      <3>4. owner.sent[Len(owner.sent)] = stream.next - 2
        BY <1>2, <3>3 DEF SentInOrder
      <3> QED BY <1>1, <3>1, <3>3, <3>4 DEF RowsOK
    <2> QED BY <2>1, <2>2
  <1> QED BY <1>2, <1>5, <1>6, <1>7 DEF StreamInvariant

\* The unread counter is the number of unread events and stays within its
\* limit; the client receives the frames in order, each once and none left
\* out; a success is the whole stream; and what is billed is all that the
\* stream ever records (StreamInvariant), whatever the worker posts, repeats or
\* delays, for streams of every length.
THEOREM StreamSafe == StreamSpec => []StreamInvariant
  <1>1. StreamInit => StreamInductive
    BY StreamInitially
  <1>2. StreamInductive /\ [StreamNext]_streamVars => StreamInductive'
    BY StreamStep
  <1>3. StreamInductive => StreamInvariant
    BY StreamEnough
  <1> QED BY <1>1, <1>2, <1>3, PTL DEF StreamSpec

\* What a step may do to the state of a stream and to the number of its events.
LEMMA StreamMoves ==
    ASSUME StreamInductive, [StreamNext]_streamVars
    PROVE  /\ stream.state = "terminal" => stream'.state \in {"terminal", "none"}
           /\ task \in Ended => stream'.next <= stream.next
  <1>1. /\ stream \in Streams /\ stream.next \in Nat /\ StreamTypes
    BY StreamAssumption DEF StreamInductive, StreamTypes, Streams
  <1>2. ASSUME stream' = stream
        PROVE  /\ stream.state = "terminal" => stream'.state \in {"terminal", "none"}
               /\ task \in Ended => stream'.next <= stream.next
    BY <1>1, <1>2
  <1>3. ASSUME NEW state, stream' = [stream EXCEPT !.state = state],
               stream.state = "terminal" => state = "terminal"
        PROVE  /\ stream.state = "terminal" => stream'.state \in {"terminal", "none"}
               /\ task \in Ended => stream'.next <= stream.next
    BY <1>1, <1>3 DEF Streams
  <1>4. ASSUME NEW unread, stream' = [stream EXCEPT !.unread = unread]
        PROVE  /\ stream.state = "terminal" => stream'.state \in {"terminal", "none"}
               /\ task \in Ended => stream'.next <= stream.next
    BY <1>1, <1>4 DEF Streams
  <1>5. ASSUME NEW seq \in 0..MaxSeq, NEW ev \in Events, AcceptNew(seq, ev)
        PROVE  /\ stream.state = "terminal" => stream'.state \in {"terminal", "none"}
               /\ task \in Ended => stream'.next <= stream.next
    BY <1>5, AcceptGuards DEF Closed, Ended
  <1>6. ASSUME CancelStream
        PROVE  /\ stream.state = "terminal" => stream'.state \in {"terminal", "none"}
               /\ task \in Ended => stream'.next <= stream.next
    BY <1>3, <1>6 DEF CancelStream, Cancels
  <1>7. ASSUME NEW seq, Acknowledge(seq)
        PROVE  /\ stream.state = "terminal" => stream'.state \in {"terminal", "none"}
               /\ task \in Ended => stream'.next <= stream.next
    BY <1>4, <1>7 DEF Acknowledge
  <1>8. CASE OwnerNext
    BY <1>2, <1>6, <1>7, <1>8 DEF OwnerNext, Poll, Read, ReadFails, Empty, Send,
       Ack, Judge, Cancel, AckFails, CancelFails, Finish, FinishFails, OwnerFrame
  <1>9. CASE \/ \E closes \in BOOLEAN : CompleteDirectly(closes)
             \/ \E ev \in Finals : Complete(ev)
    BY <1>2, <1>3, <1>9 DEF CompleteDirectly, Complete
  <1>10. CASE Cleanup
    <2>1. stream'.state = "none" /\ stream'.next = 0
      BY <1>10 DEF Cleanup, NoStream
    <2> QED BY <1>1, <2>1
  <1>11. CASE \/ \E seq \in 0..MaxSeq, ev \in Events : AcceptAgain(seq, ev)
              \/ \E ev \in Finals : CompleteLost(ev)
              \/ Disconnect \/ DeadlinePasses \/ OwnerDeadlinePasses
              \/ SessionEnds \/ Expire \/ UNCHANGED streamVars
    BY <1>2, <1>11 DEF AcceptAgain, CompleteLost, Disconnect, DeadlinePasses,
       OwnerDeadlinePasses, SessionEnds, Expire, streamVars
  <1> QED BY <1>5, <1>8, <1>9, <1>10, <1>11 DEF StreamNext, WorkerNext

\* Only a cancellation takes the owner from "cancel" to "finish".
LEMMA TerminalSpared ==
    ASSUME StreamInductive, [StreamNext]_streamVars,
           stream.state = "terminal", owner.pc = "cancel", owner'.pc = "finish"
    PROVE  task' = task
  <1>1. owner' # owner
    OBVIOUS
  <1>2. Cancel \/ \E applied \in BOOLEAN : CancelFails(applied)
    BY <1>1 DEF StreamNext, OwnerNext, WorkerNext, Poll, Read, ReadFails, Empty,
       Send, Ack, Judge, AckFails, Finish, FinishFails, AcceptNew, AcceptAgain,
       CompleteDirectly, Complete, CompleteLost, Disconnect, DeadlinePasses,
       OwnerDeadlinePasses, SessionEnds, Expire, Cleanup, streamVars
  <1>3. CancelStream \/ task' = task
    BY <1>2 DEF Cancel, CancelFails
  <1> QED BY <1>3 DEF CancelStream, Cancels

\* A terminal event that is stored is not undone: its stream is never
\* cancelled, and the cancellation of an owner that gave up does not fail the
\* task that is about to succeed with it (TerminalNotCancelled).
THEOREM TerminalKept == StreamSpec => TerminalNotCancelled
  <1>1. StreamInit => StreamInductive
    BY StreamInitially
  <1>2. StreamInductive /\ [StreamNext]_streamVars => StreamInductive'
    BY StreamStep
  <1>3. StreamInductive /\ [StreamNext]_streamVars
            => [stream.state = "terminal" =>
                  /\ stream'.state \in {"terminal", "none"}
                  /\ owner.pc = "cancel" /\ owner'.pc = "finish" => task' = task
               ]_streamVars
    BY StreamMoves, TerminalSpared
  <1> QED BY <1>1, <1>2, <1>3, PTL DEF StreamSpec, TerminalNotCancelled

\* The stream of a task that ended takes no more events, even after its row
\* was cleaned up and the worker starts over (EndedStaysSilent).
THEOREM EndedSilent == StreamSpec => EndedStaysSilent
  <1>1. StreamInit => StreamInductive
    BY StreamInitially
  <1>2. StreamInductive /\ [StreamNext]_streamVars => StreamInductive'
    BY StreamStep
  <1>3. StreamInductive /\ [StreamNext]_streamVars
            => [(task \in Ended) => stream'.next <= stream.next]_streamVars
    BY StreamMoves
  <1> QED BY <1>1, <1>2, <1>3, PTL DEF StreamSpec, EndedStaysSilent
=============================================================================
