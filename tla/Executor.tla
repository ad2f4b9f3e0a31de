------------------------------ MODULE Executor ------------------------------
(***************************************************************************)
(* GatewayExecutor of llm-gateway: a request is tried on a chain of        *)
(* upstream accounts, with retries on one account and fallback to the      *)
(* next, under the account leases of AccountQuotaService in                *)
(* keycompute-ratelimit.  The chain of a request runs beside its timeout,  *)
(* its client, the renewal of its lease and other requests.                *)
(*                                                                         *)
(* An attempt is identified by its index in the chain; every index is      *)
(* tried at most once.  What the upstream answers is an outcome:           *)
(*   ok        a stream that ends with Done                                *)
(*   reject    a 4xx             busy      408, 409 or 429                 *)
(*   server    a 5xx             options   stream_options unsupported      *)
(*   connect   not sent          unclear   no status, perhaps executed     *)
(*   broken    a failure with a 2xx status                                 *)
(*   declared  an error event in an accepted stream                        *)
(*   cut       a stream without its end                                    *)
(*   payload   no memory for the body or an event                          *)
(* and what ends it here: gone (the client), lost (the lease), denied (the *)
(* authority), late (the timeout).                                         *)
(***************************************************************************)
EXTENDS Naturals, Sequences, SequencesExt, FiniteSetsExt

CONSTANTS
    Requests,
    Plan,         \* the routed accounts: the primary and the fallback chain
    Retries,      \* retries_per_account
    OpenAi,       \* accounts whose provider is openai
    Native,       \* requests that are native_openai_responses_request
    Idempotent,   \* requests that carry an idempotency-key
    SlotLimit,    \* in_flight_limit
    MaxFaults     \* bound: failed calls and leases that expire in use

ASSUME ExecutorAssumption ==
    /\ Plan \in Seq(Range(Plan)) /\ Plan # <<>>
    /\ Retries \in Nat /\ OpenAi \subseteq Range(Plan) /\ IsFiniteSet(Requests)
    /\ Native \subseteq Requests /\ Idempotent \subseteq Requests
    /\ SlotLimit \in Nat \ {0} /\ MaxFaults \in Nat

\* targets: each logical attempt, and for openai the place of its retry without
\* stream_options.
Targets ==
    LET Slots(a) ==
            <<[account |-> a, compat |-> FALSE]>>
            \o IF a \in OpenAi THEN <<[account |-> a, compat |-> TRUE]>> ELSE <<>>
        Copies(a) == FlattenSeq([n \in 1..(Retries + 1) |-> Slots(a)])
    IN  FlattenSeq([n \in 1..Len(Plan) |-> Copies(Plan[n])])

Chain == 1..Len(Targets)
Account(i) == Targets[i].account

VARIABLES
    pc,           \* where run_plan is
    at,           \* target_index
    result,       \* of the current attempt
    sent,         \* sent_content
    completed,    \* execution_completed
    deferred,     \* deferred_native_error: the attempt it came from, or 0
    pending,      \* compatibility_retry_pending
    unsupported,  \* stream_usage_unsupported
    full,         \* last_error is upstream_capacity_exhausted
    gone,         \* the client is gone
    allowed,      \* the authority of the request still holds
    response,     \* client_upstream_response: the attempt it came from, 0 for
                  \* none, Len(Targets) + 1 for the gateway's own
    usage,        \* set_usage_provider_account: the attempt, or 0
    executed,     \* set_executed_provider_account: the attempt, or 0
    final,        \* the last event the client gets
    slot,         \* the in-flight slot of each attempt
    tokens,       \* the token record of each attempt
    content,      \* history: the attempts whose content the client got
    native,       \* history: the attempt whose native error the client got, or 0
    outcome,      \* history: how each attempt that was sent ended
    blamed,       \* history: attempts counted against their account's health
    faults

chainVars == <<at, deferred, pending, unsupported, full>>
clientVars == <<gone, allowed, response, final, content, native>>
accountVars == <<usage, executed, blamed>>
leaseVars == <<slot, tokens>>
executorVars ==
    <<pc, result, sent, completed, outcome, faults, chainVars, clientVars,
      accountVars, leaseVars>>

Gateway == Len(Targets) + 1

ExecutorInit ==
    /\ pc = [q \in Requests |-> "new"]
    /\ at = [q \in Requests |-> 1]
    /\ result = [q \in Requests |-> "none"]
    /\ sent = [q \in Requests |-> FALSE]
    /\ completed = [q \in Requests |-> FALSE]
    /\ deferred = [q \in Requests |-> 0]
    /\ pending = [q \in Requests |-> {}]
    /\ unsupported = [q \in Requests |-> {}]
    /\ full = [q \in Requests |-> FALSE]
    /\ gone = [q \in Requests |-> FALSE]
    /\ allowed = [q \in Requests |-> TRUE]
    /\ response = [q \in Requests |-> 0]
    /\ usage = [q \in Requests |-> 0]
    /\ executed = [q \in Requests |-> 0]
    /\ final = [q \in Requests |-> "none"]
    /\ slot = [q \in Requests |-> [i \in Chain |-> "none"]]
    /\ tokens = [q \in Requests |-> [i \in Chain |-> "none"]]
    /\ content = [q \in Requests |-> {}]
    /\ native = [q \in Requests |-> 0]
    /\ outcome = [q \in Requests |-> [i \in Chain |-> "none"]]
    /\ blamed = [q \in Requests |-> {}]
    /\ faults = 0

Fault == faults < MaxFaults /\ faults' = faults + 1

Goto(q, l) == pc' = [pc EXCEPT ![q] = l]

\* run_plan fails: the spawned task sends the error to the client.
Fails(q) ==
    /\ Goto(q, "ended")
    /\ final' = [final EXCEPT ![q] = "error"]

-----------------------------------------------------------------------------
(* Which target is next *)

LeastOr(S, n) == IF S = {} THEN n ELSE Min(S)

\* The next target of another account, after capacity was refused.
NextOther(i) ==
    LeastOr({j \in Chain : j > i /\ Account(j) # Account(i)}, Gateway)

\* classify_execution_error
Retryable(e) == e \in {"busy", "server", "options", "connect"}

\* Mutant: a truncated stream may be tried elsewhere.
StopsMutant(q, e) ==
    \/ e \in {"broken", "unclear", "denied"}
    \/ e = "server" /\ q \in Native \ Idempotent

\* failure_continuation
Stops(q, e) ==
    \/ e \in {"broken", "unclear", "cut", "denied"}
    \/ e = "server" /\ q \in Native \ Idempotent

SameAccountOnly(q, e) == e = "server" /\ q \in Native \cap Idempotent

\* next_runnable_target_index under the continuation, Gateway for none.
NextTarget(q, i, e, compatible) ==
    LET runnable == {j \in Chain :
            /\ j > i
            /\ Targets[j].compat => Account(j) \in compatible
            /\ Retryable(e) \/ Account(j) # Account(i)}
        next == LeastOr(runnable, Gateway)
    IN  IF \/ Stops(q, e)
           \/ SameAccountOnly(q, e) /\ next # Gateway /\ Account(next) # Account(i)
        THEN Gateway ELSE next

-----------------------------------------------------------------------------
(* Before an attempt *)

\* execute spawns run_plan under its timeout.
Start(q) ==
    /\ pc[q] = "new"
    /\ Goto(q, "pick")
    /\ UNCHANGED <<result, sent, completed, outcome, faults, chainVars, clientVars,
                   accountVars, leaseVars>>

InFlight(a) ==
    {x \in Requests \X Chain : slot[x[1]][x[2]] = "held" /\ Account(x[2]) = a}

\* Mutant: one slot too many.
HasSlotMutant(a) == Cardinality(InFlight(a)) <= SlotLimit

HasSlot(a) == Cardinality(InFlight(a)) < SlotLimit

\* The head of the loop: the backoff of a retry and the check for the client.  A
\* compatibility place that is not pending would be skipped here, but the loop
\* never goes to one (NextTarget).
PickTarget(q) ==
    /\ pc[q] = "pick" /\ at[q] \in Chain
    /\ Targets[at[q]].compat => Account(at[q]) \in pending[q]
    /\ pending' = [pending EXCEPT ![q] =
           IF Targets[at[q]].compat THEN @ \ {Account(at[q])} ELSE @]
    /\ IF gone[q] THEN Fails(q) ELSE Goto(q, "queue") /\ UNCHANGED final
    /\ UNCHANGED <<result, sent, completed, outcome, faults, at, deferred,
                   unsupported, full, gone, allowed, response, content, native,
                   accountVars, leaseVars>>

\* Capacity is refused: no retry on this account.
SkipAccount(q) ==
    /\ Goto(q, "pick")
    /\ at' = [at EXCEPT ![q] = NextOther(@)]
    /\ full' = [full EXCEPT ![q] = TRUE]

\* BoundedAdmission grants a permit, refuses it, or the client goes.
AcquirePermit(q) ==
    /\ pc[q] = "queue"
    /\ \/ ~gone[q] /\ Goto(q, "authorize") /\ UNCHANGED <<at, full, final>>
       \/ ~gone[q] /\ SkipAccount(q) /\ UNCHANGED final
       \/ gone[q] /\ Fails(q) /\ UNCHANGED <<at, full>>
    /\ UNCHANGED <<result, sent, completed, outcome, faults, deferred, pending,
                   unsupported, gone, allowed, response, content, native,
                   accountVars, leaseVars>>

\* authorize_dispatch after the queue
Authorize(q) ==
    /\ pc[q] = "authorize"
    /\ IF allowed[q] THEN Goto(q, "quota") /\ UNCHANGED <<final, response>>
       ELSE Fails(q) /\ response' = [response EXCEPT ![q] = Gateway]
    /\ UNCHANGED <<result, sent, completed, outcome, faults, chainVars, gone,
                   allowed, content, native, accountVars, leaseVars>>

Reserve(q, i) ==
    /\ slot' = [slot EXCEPT ![q][i] = "held"]
    /\ tokens' = [tokens EXCEPT ![q][i] = "reserved"]

\* A call of admit that is cut off may have reserved.
MayReserve(q, i) ==
    \/ UNCHANGED leaseVars
    \/ /\ pc[q] = "quota" /\ HasSlot(Account(i))
       /\ Reserve(q, i)

\* admit: a slot, then the tokens and the request count.  A refusal gives back
\* what it took.  A client that goes cancels the call, before or after it
\* reserved.
AdmitAccount(q) ==
    LET i == at[q]
    IN  /\ pc[q] = "quota"
        /\ \/ /\ ~gone[q]
              /\ HasSlot(Account(i))
              /\ Reserve(q, i)
              /\ Goto(q, "snapshot")
              /\ UNCHANGED <<at, full, final>>
           \/ ~gone[q] /\ SkipAccount(q) /\ UNCHANGED <<leaseVars, final>>
           \/ /\ gone[q] /\ Fails(q)
              /\ MayReserve(q, i)
              /\ UNCHANGED <<at, full>>
        /\ UNCHANGED <<result, sent, completed, outcome, faults, deferred, pending,
                       unsupported, gone, allowed, response, content, native,
                       accountVars>>

\* The quota backend fails: nothing is dispatched any more.  A late write may
\* keep the reservation until it expires.
AdmitUnavailable(q) ==
    /\ pc[q] = "quota" /\ ~gone[q]
    /\ Fault
    /\ MayReserve(q, at[q])
    /\ Goto(q, "pick")
    /\ at' = [at EXCEPT ![q] = Gateway]
    /\ full' = [full EXCEPT ![q] = TRUE]
    /\ UNCHANGED <<result, sent, completed, outcome, deferred, pending, unsupported,
                   clientVars, accountVars>>

\* The health snapshot, or its failure: the lease is finished, if that call does
\* not fail as well, and the chain ends.
TakeSnapshot(q) ==
    /\ pc[q] = "snapshot"
    /\ Goto(q, "dispatch")
    /\ UNCHANGED <<result, sent, completed, outcome, faults, chainVars, clientVars,
                   accountVars, leaseVars>>

SnapshotFails(q) ==
    /\ pc[q] = "snapshot"
    /\ Fault
    /\ Fails(q)
    /\ \/ /\ tokens' = [tokens EXCEPT ![q][at[q]] = "charged"]
          /\ slot' = [slot EXCEPT ![q][at[q]] = "free"]
       \/ UNCHANGED leaseVars
    /\ UNCHANGED <<result, sent, completed, outcome, chainVars, gone, allowed,
                   response, content, native, accountVars>>

-----------------------------------------------------------------------------
(* try_execute *)

\* The attempt is over with e.
Yields(q, e) ==
    /\ Goto(q, "settle")
    /\ result' = [result EXCEPT ![q] = e]

\* Mutant: the metadata of earlier attempts is kept.
DispatchMutant(q) ==
    LET e == IF ~allowed[q] THEN "denied" ELSE IF gone[q] THEN "gone" ELSE "none"
    IN  /\ pc[q] = "dispatch"
        /\ IF e = "none"
               THEN /\ Goto(q, "await")
                    /\ outcome' = [outcome EXCEPT ![q][at[q]] = "sent"]
                    /\ UNCHANGED result
               ELSE Yields(q, e) /\ UNCHANGED outcome
        /\ UNCHANGED <<sent, completed, faults, chainVars, clientVars, accountVars,
                       leaseVars>>

\* Metadata of earlier attempts is cleared and the authority is checked again;
\* the client is polled before the provider.
Dispatch(q) ==
    LET e == IF ~allowed[q] THEN "denied" ELSE IF gone[q] THEN "gone" ELSE "none"
    IN  /\ pc[q] = "dispatch"
        /\ response' = [response EXCEPT ![q] = IF allowed[q] THEN 0 ELSE Gateway]
        /\ deferred' = [deferred EXCEPT ![q] = IF q \in Native THEN 0 ELSE @]
        /\ IF e = "none"
               THEN /\ Goto(q, "await")
                    /\ outcome' = [outcome EXCEPT ![q][at[q]] = "sent"]
                    /\ UNCHANGED result
               ELSE Yields(q, e) /\ UNCHANGED outcome
        /\ UNCHANGED <<sent, completed, faults, at, pending, unsupported, full, gone,
                       allowed, final, content, native, accountVars, leaseVars>>

Ends(q, e) ==
    /\ Yields(q, e)
    /\ outcome' = [outcome EXCEPT ![q][at[q]] = e]

\* The upstream answers with an error, which may carry a response for the client.
RefusedWith(q, e) ==
    /\ pc[q] = "await"
    /\ e = "options" =>
           Account(at[q]) \in OpenAi \ unsupported[q]
    /\ Ends(q, e)
    /\ response' = [response EXCEPT ![q] =
           IF e \in {"reject", "busy", "server", "options"} THEN at[q] ELSE @]
    /\ UNCHANGED <<sent, completed, faults, chainVars, gone, allowed, final, content,
                   native, accountVars, leaseVars>>

Refusals ==
    {"reject", "busy", "server", "options", "connect", "unclear", "broken",
     "payload"}

\* The upstream accepts: from here on the usage is this attempt's.
Accepted(q) ==
    /\ pc[q] = "await"
    /\ Goto(q, "stream")
    /\ usage' = [usage EXCEPT ![q] = at[q]]
    /\ UNCHANGED <<result, sent, completed, outcome, faults, chainVars, clientVars,
                   executed, blamed, leaseVars>>

\* Content, or a raw or native event that commits the response.
Content(q) ==
    /\ pc[q] = "stream" /\ ~gone[q]
    /\ sent' = [sent EXCEPT ![q] = TRUE]
    /\ content' = [content EXCEPT ![q] = @ \cup {at[q]}]
    /\ UNCHANGED <<pc, result, completed, outcome, faults, chainVars, gone, allowed,
                   response, final, native, accountVars, leaseVars>>

\* Done
StreamDone(q) ==
    /\ pc[q] = "stream"
    /\ Ends(q, "ok")
    /\ executed' = [executed EXCEPT ![q] = at[q]]
    /\ completed' = [completed EXCEPT ![q] = TRUE]
    /\ UNCHANGED <<sent, faults, chainVars, clientVars, usage, blamed, leaseVars>>

\* An error event, which a native stream defers, a stream that is cut, or an
\* event for which there is no memory.
StreamFails(q, e) ==
    /\ pc[q] = "stream" /\ e \in {"declared", "cut", "payload"}
    /\ Ends(q, e)
    /\ deferred' = [deferred EXCEPT ![q] =
           IF q \in Native /\ e = "declared" THEN at[q] ELSE @]
    /\ UNCHANGED <<sent, completed, faults, at, pending, unsupported, full,
                   clientVars, accountVars, leaseVars>>

\* The client is gone: the upstream call is dropped.
DropUpstream(q) ==
    /\ pc[q] \in {"await", "stream"} /\ gone[q]
    /\ Ends(q, "gone")
    /\ UNCHANGED <<sent, completed, faults, chainVars, clientVars, accountVars,
                   leaseVars>>

\* keep_alive finds that the lease is gone, or cannot renew it.
LoseLease(q) ==
    /\ pc[q] \in {"dispatch", "await", "stream"}
    /\ \/ slot[q][at[q]] # "held" /\ UNCHANGED faults
       \/ slot[q][at[q]] = "held" /\ Fault
    /\ Yields(q, "lost")
    /\ outcome' = [outcome EXCEPT ![q][at[q]] =
           IF pc[q] = "dispatch" THEN @ ELSE "lost"]
    /\ UNCHANGED <<sent, completed, chainVars, clientVars, accountVars, leaseVars>>

-----------------------------------------------------------------------------
(* After an attempt *)

\* finish: the tokens are charged, as predicted when the usage is not known, and
\* the slot is released when the upstream surely is not working any more.
ReleasesSlot(e) ==
    e \in {"ok", "denied", "reject", "busy", "server", "options"}

\* Mutant: unknown usage counts as none.
FinishLeaseMutant(q) ==
    /\ pc[q] = "settle"
    /\ Goto(q, "report")
    /\ tokens' = [tokens EXCEPT ![q][at[q]] =
           IF result[q] = "ok" THEN "charged" ELSE "none"]
    /\ slot' = [slot EXCEPT ![q][at[q]] =
           IF ReleasesSlot(result[q]) THEN "free" ELSE @]
    /\ UNCHANGED <<result, sent, completed, outcome, faults, chainVars, clientVars,
                   accountVars>>

FinishLease(q) ==
    /\ pc[q] = "settle"
    /\ Goto(q, "report")
    /\ tokens' = [tokens EXCEPT ![q][at[q]] = "charged"]
    /\ slot' = [slot EXCEPT ![q][at[q]] =
           IF ReleasesSlot(result[q]) THEN "free" ELSE @]
    /\ UNCHANGED <<result, sent, completed, outcome, faults, chainVars, clientVars,
                   accountVars>>

\* The error is only logged; the tokens may have been charged before it.
FinishFails(q) ==
    /\ pc[q] = "settle"
    /\ Fault
    /\ Goto(q, "report")
    /\ \/ UNCHANGED tokens
       \/ tokens' = [tokens EXCEPT ![q][at[q]] = "charged"]
    /\ UNCHANGED <<result, sent, completed, outcome, chainVars, clientVars,
                   accountVars, slot>>

ReportSuccess(q) ==
    /\ pc[q] = "report" /\ result[q] = "ok"
    /\ Goto(q, "done")
    /\ UNCHANGED <<result, sent, completed, outcome, faults, chainVars, clientVars,
                   accountVars, leaseVars>>

\* complete_successful_execution_attempt
SendDone(q) ==
    /\ pc[q] = "done"
    /\ Goto(q, "ended")
    /\ final' = [final EXCEPT ![q] = "done"]
    /\ UNCHANGED <<result, sent, completed, outcome, faults, chainVars, gone,
                   allowed, response, content, native, accountVars, leaseVars>>

\* quota_lost or payload_exhausted: no health record and no fallback.
ReportLocal(q) ==
    /\ pc[q] = "report" /\ result[q] \in {"lost", "payload"}
    /\ Fails(q)
    /\ response' = [response EXCEPT ![q] = Gateway]
    /\ UNCHANGED <<result, sent, completed, outcome, faults, chainVars, gone,
                   allowed, content, native, accountVars, leaseVars>>

Upstream(q) == result[q] \notin {"ok", "lost", "payload"}

\* A failure that the client did not stay for.
ReportGone(q) ==
    /\ pc[q] = "report" /\ Upstream(q) /\ gone[q]
    /\ Fails(q)
    /\ UNCHANGED <<result, sent, completed, outcome, faults, chainVars, gone,
                   allowed, response, content, native, accountVars, leaseVars>>

\* Mutant: a denied dispatch counts against the account.
BlamesMutant(q) == blamed' = [blamed EXCEPT ![q] = @ \cup {at[q]}]

Blames(q) ==
    blamed' = [blamed EXCEPT ![q] =
        IF result[q] = "denied" THEN @ ELSE @ \cup {at[q]}]

\* A failure after content: no fallback, and a deferred native error is sent.
ReportBroken(q) ==
    /\ pc[q] = "report" /\ Upstream(q) /\ ~gone[q] /\ sent[q]
    /\ Fails(q)
    /\ Blames(q)
    /\ native' = [native EXCEPT ![q] = IF deferred[q] = 0 THEN @ ELSE deferred[q]]
    /\ UNCHANGED <<result, sent, completed, outcome, faults, chainVars, gone,
                   allowed, response, content, usage, executed, leaseVars>>

\* Mutant: fallback after content.
ReportFailureMutant(q) ==
    /\ pc[q] = "report" /\ Upstream(q) /\ ~gone[q]
    /\ Blames(q)
    /\ Goto(q, "pick")
    /\ at' = [at EXCEPT ![q] = NextTarget(q, @, result[q], pending[q])]
    /\ full' = [full EXCEPT ![q] = FALSE]
    /\ UNCHANGED <<result, sent, completed, outcome, faults, deferred, pending,
                   unsupported, clientVars, usage, executed, leaseVars>>

\* A failure before content: retry, fallback or the end of the chain.
ReportFailure(q) ==
    LET account == Account(at[q])
        compatible == IF result[q] = "options" THEN pending[q] \cup {account}
                      ELSE pending[q]
    IN  /\ pc[q] = "report" /\ Upstream(q) /\ ~gone[q] /\ ~sent[q]
        /\ Blames(q)
        /\ Goto(q, "pick")
        /\ pending' = [pending EXCEPT ![q] = compatible]
        /\ unsupported' = [unsupported EXCEPT ![q] =
               IF result[q] = "options" THEN @ \cup {account} ELSE @]
        /\ at' = [at EXCEPT ![q] = NextTarget(q, @, result[q], compatible)]
        /\ full' = [full EXCEPT ![q] = FALSE]
        /\ UNCHANGED <<result, sent, completed, outcome, faults, deferred,
                       clientVars, usage, executed, leaseVars>>

\* The chain is exhausted.
AllFailed(q) ==
    /\ pc[q] = "pick" /\ at[q] \notin Chain
    /\ Fails(q)
    /\ native' = [native EXCEPT ![q] = IF deferred[q] = 0 THEN @ ELSE deferred[q]]
    /\ response' = [response EXCEPT ![q] = IF full[q] THEN Gateway ELSE @]
    /\ UNCHANGED <<result, sent, completed, outcome, faults, chainVars, gone,
                   allowed, content, accountVars, leaseVars>>

\* Mutants: the timeout does not look at execution_completed, or ends with the
\* start of the stream.
TimeOutMutant(q) ==
    /\ pc[q] \notin {"new", "done", "ended"}
    /\ Fails(q)
    /\ UNCHANGED <<result, sent, completed, outcome, faults, chainVars, gone,
                   allowed, response, content, native, accountVars, leaseVars>>

TimeOutOfSetup(q) ==
    /\ pc[q] \notin {"new", "stream", "done", "ended"}
    /\ Fails(q)
    /\ UNCHANGED <<result, sent, completed, outcome, faults, chainVars, gone,
                   allowed, response, content, native, accountVars, leaseVars>>

\* The execution timeout cancels run_plan, and the lease with it.
TimeOut(q) ==
    /\ pc[q] \notin {"new", "done", "ended"}
    /\ Goto(q, "ended")
    /\ final' = [final EXCEPT ![q] = IF completed[q] THEN "done" ELSE "error"]
    /\ outcome' = [outcome EXCEPT ![q] =
           IF pc[q] \in {"await", "stream"} THEN [@ EXCEPT ![at[q]] = "late"]
           ELSE @]
    /\ MayReserve(q, at[q])
    /\ UNCHANGED <<result, sent, completed, faults, chainVars, gone, allowed,
                   response, content, native, accountVars>>

-----------------------------------------------------------------------------
(* Around the request *)

ClientGoes(q) ==
    /\ pc[q] \notin {"new", "ended"} /\ ~gone[q]
    /\ gone' = [gone EXCEPT ![q] = TRUE]
    /\ UNCHANGED <<pc, result, sent, completed, outcome, faults, chainVars, allowed,
                   response, final, content, native, accountVars, leaseVars>>

RevokeAuthority(q) ==
    /\ pc[q] \notin {"new", "ended"} /\ allowed[q]
    /\ allowed' = [allowed EXCEPT ![q] = FALSE]
    /\ UNCHANGED <<pc, result, sent, completed, outcome, faults, chainVars, gone,
                   response, final, content, native, accountVars, leaseVars>>

\* The lease of attempt i is kept alive while try_execute runs.
KeptAlive(q, i) ==
    at[q] = i /\ pc[q] \in {"snapshot", "dispatch", "await", "stream", "settle"}

\* Mutant: what a cancelled request holds is renewed for ever.
ExpireLeaseMutant(q, i) ==
    /\ slot[q][i] = "held" /\ pc[q] # "ended"
    /\ IF KeptAlive(q, i) THEN Fault ELSE UNCHANGED faults
    /\ slot' = [slot EXCEPT ![q][i] = "free"]
    /\ UNCHANGED <<pc, result, sent, completed, outcome, chainVars, clientVars,
                   accountVars, tokens>>

\* A reservation that nobody keeps alive expires; one in use only by a fault.
ExpireLease(q, i) ==
    /\ slot[q][i] = "held"
    /\ IF KeptAlive(q, i) THEN Fault ELSE UNCHANGED faults
    /\ slot' = [slot EXCEPT ![q][i] = "free"]
    /\ tokens' = [tokens EXCEPT ![q][i] = IF @ = "reserved" THEN "expired" ELSE @]
    /\ UNCHANGED <<pc, result, sent, completed, outcome, chainVars, clientVars,
                   accountVars>>

-----------------------------------------------------------------------------

RunStep(q) ==
    \/ PickTarget(q) \/ AcquirePermit(q) \/ Authorize(q)
    \/ AdmitAccount(q) \/ TakeSnapshot(q) \/ Dispatch(q)
    \/ DropUpstream(q) \/ FinishLease(q)
    \/ ReportSuccess(q) \/ SendDone(q) \/ ReportLocal(q) \/ ReportGone(q)
    \/ ReportBroken(q) \/ ReportFailure(q) \/ AllFailed(q)

UpstreamStep(q) ==
    \/ \E e \in Refusals : RefusedWith(q, e)
    \/ Accepted(q) \/ Content(q) \/ StreamDone(q)
    \/ \E e \in {"declared", "cut", "payload"} : StreamFails(q, e)

ExecutorNext ==
    \E q \in Requests :
        \/ Start(q) \/ RunStep(q) \/ UpstreamStep(q)
        \/ AdmitUnavailable(q) \/ SnapshotFails(q) \/ LoseLease(q)
        \/ FinishFails(q) \/ TimeOut(q)
        \/ ClientGoes(q) \/ RevokeAuthority(q)
        \/ \E i \in Chain : ExpireLease(q, i)

ExecutorSpec == ExecutorInit /\ [][ExecutorNext]_executorVars

\* The executor runs, its timeout fires, and reservations expire; an upstream
\* may never answer.
ExecutorFairSpec ==
    /\ ExecutorSpec
    /\ \A q \in Requests :
          /\ WF_executorVars(RunStep(q)) /\ WF_executorVars(TimeOut(q))
          /\ WF_executorVars(\E i \in Chain : ExpireLease(q, i))

-----------------------------------------------------------------------------
(* Properties *)

Outcomes ==
    {"none", "sent", "ok", "declared", "cut", "gone", "lost", "late"}
    \cup Refusals

\* Type correctness.
ExecutorTypeOK ==
    /\ pc \in [Requests -> {"new", "pick", "queue", "authorize", "quota", "snapshot",
                            "dispatch", "await", "stream", "settle", "report",
                            "done", "ended"}]
    /\ at \in [Requests -> 1..Gateway]
    /\ result \in [Requests -> (Outcomes \ {"sent", "late"}) \cup {"denied"}]
    /\ sent \in [Requests -> BOOLEAN] /\ completed \in [Requests -> BOOLEAN]
    /\ deferred \in [Requests -> 0..Len(Targets)]
    /\ pending \in [Requests -> SUBSET OpenAi]
    /\ unsupported \in [Requests -> SUBSET OpenAi]
    /\ full \in [Requests -> BOOLEAN]
    /\ gone \in [Requests -> BOOLEAN] /\ allowed \in [Requests -> BOOLEAN]
    /\ response \in [Requests -> 0..Gateway]
    /\ usage \in [Requests -> 0..Len(Targets)]
    /\ executed \in [Requests -> 0..Len(Targets)]
    /\ final \in [Requests -> {"none", "done", "error"}]
    /\ slot \in [Requests -> [Chain -> {"none", "held", "free"}]]
    /\ tokens \in [Requests -> [Chain -> {"none", "reserved", "charged", "expired"}]]
    /\ content \in [Requests -> SUBSET Chain]
    /\ native \in [Requests -> 0..Len(Targets)]
    /\ outcome \in [Requests -> [Chain -> Outcomes]]
    /\ blamed \in [Requests -> SUBSET Chain]
    /\ faults \in 0..MaxFaults

Sent(q) == {i \in Chain : outcome[q][i] # "none"}

\* The upstream may have executed, and billed, an attempt that ended so.
PerhapsExecuted(q, e) ==
    \/ e \in {"ok", "unclear", "broken", "cut", "gone", "lost", "late", "payload"}
    \/ e = "server" /\ q \in Native

\* A request that an upstream may have executed is not sent again, unless it
\* failed with a 5xx and carries an idempotency key.
NotSentTwice ==
    \A q \in Requests : \A i, j \in Sent(q) :
        i < j /\ PerhapsExecuted(q, outcome[q][i])
            => outcome[q][i] = "server" /\ q \in Idempotent

\* "A forwarded idempotency key permits retries only inside the same upstream
\* account namespace": this does not hold.
KeyStaysWithAccount ==
    \A q \in Native : \A i, j \in Sent(q) :
        i < j /\ outcome[q][i] = "server" => Account(i) = Account(j)

\* The client never gets content of two attempts, and a response that ends with
\* Done is wholly of the account that executed it, to which the usage goes.
OneSource ==
    \A q \in Requests :
        /\ Cardinality(content[q]) <= 1
        /\ final[q] = "done" =>
               executed[q] # 0 /\ usage[q] = executed[q]
               /\ content[q] \subseteq {executed[q]}

\* A request whose provider completed is never turned into a failure by what is
\* still to be written when its timeout fires.
CompletedIsDone ==
    \A q \in Requests : pc[q] = "ended" /\ completed[q] => final[q] = "done"

\* What the client is shown of an upstream error is of the last attempt that was
\* sent, whatever ended the chain.
ErrorIsLast ==
    \A q \in Requests :
        pc[q] = "ended" =>
            /\ response[q] \in Chain => response[q] = Max(Sent(q))
            /\ native[q] # 0 => native[q] = Max(Sent(q))

\* The client gets one answer, and the right one.
OneAnswer ==
    /\ OneSource
    /\ CompletedIsDone
    /\ ErrorIsLast

\* An account's health suffers only for what its upstream did.
BlameIsDue ==
    \A q \in Requests : \A i \in blamed[q] :
        outcome[q][i] \notin {"none", "ok", "gone", "lost", "payload", "late"}

\* Every attempt that was sent is charged to its account, or its reservation is
\* still there or ran out.
SentIsMetered ==
    \A q \in Requests : \A i \in Sent(q) : tokens[q][i] # "none"

\* Without faults, the executor waits for no more attempts of an account, or
\* reads from no more of them, than it has slots.
InFlightBounded ==
    faults = 0 =>
        \A a \in Range(Plan) :
            Cardinality({x \in Requests \X Chain :
                /\ Account(x[2]) = a /\ at[x[1]] = x[2]
                /\ pc[x[1]] \in {"await", "stream"}}) <= SlotLimit

\* Every account is used within its slots, charged what it was sent and blamed
\* for what it did, whichever side ended the attempt.
AccountsTreatedFairly ==
    /\ ExecutorTypeOK
    /\ BlameIsDue
    /\ SentIsMetered
    /\ InFlightBounded

\* Every request that was started ends.
RequestsEnd == []<>(\A q \in Requests : pc[q] \in {"new", "ended"})

\* Every slot comes back.
SlotsReturn == []<>(\A q \in Requests : \A i \in Chain : slot[q][i] # "held")
=============================================================================
