--------------------------- MODULE RequestWindow ----------------------------
(***************************************************************************)
(* The requests-per-minute window of one key in MemoryRateLimiter of       *)
(* keycompute-ratelimit.  check_and_record_with_config is three separate   *)
(* atomic steps on a shared entry (reset the window if it is over, count   *)
(* the request, take it back if it is over the limit), run by threads in   *)
(* parallel.                                                               *)
(***************************************************************************)
EXTENDS Integers, FiniteSets

CONSTANTS
    Threads,
    RpmLimit,     \* rpm_limit
    Width,        \* request_count is a counter modulo Width
    MaxWindows    \* bound: windows that end

\* The counter is a u64 and the limit a u32: no number of threads fills the rest.
ASSUME RequestAssumption ==
    /\ IsFiniteSet(Threads)
    /\ RpmLimit \in Nat \ {0} /\ MaxWindows \in Nat
    /\ Width \in Nat /\ Width > RpmLimit + Cardinality(Threads)

VARIABLES
    count,     \* request_count
    over,      \* window_start is longer ago than window_size
    windows,   \* how many windows have ended
    pc,        \* of each thread
    counted,   \* the window in which each thread counted its request
    window,    \* history: the windows that were reset
    admitted,  \* history: requests admitted in this window
    stale      \* history: requests taken back from this window that were counted
               \* in an earlier one

requestVars == <<count, over, windows, pc, counted, window, admitted, stale>>

RequestInit ==
    /\ count = 0 /\ over = FALSE /\ windows = 0
    /\ pc = [t \in Threads |-> "idle"]
    /\ counted = [t \in Threads |-> 0]
    /\ window = 0 /\ admitted = 0 /\ stale = 0

WindowEnds ==
    /\ ~over /\ windows < MaxWindows
    /\ over' = TRUE
    /\ windows' = windows + 1
    /\ UNCHANGED <<count, pc, counted, window, admitted, stale>>

\* reset_if_expired, in check_and_record_with_config
Reset(t) ==
    /\ pc[t] = "idle"
    /\ pc' = [pc EXCEPT ![t] = "count"]
    /\ over' = FALSE
    /\ IF over
           THEN /\ count' = 0 /\ window' = window + 1
                /\ admitted' = 0 /\ stale' = 0
           ELSE UNCHANGED <<count, window, admitted, stale>>
    /\ UNCHANGED <<windows, counted>>

\* increment_request and the check
Count(t) ==
    LET new == (count + 1) % Width
    IN  /\ pc[t] = "count"
        /\ count' = new
        /\ counted' = [counted EXCEPT ![t] = window]
        /\ IF new > RpmLimit
               THEN pc' = [pc EXCEPT ![t] = "undo"] /\ UNCHANGED admitted
               ELSE /\ pc' = [pc EXCEPT ![t] = "idle"]
                    /\ admitted' = admitted + 1
        /\ UNCHANGED <<over, windows, window, stale>>

\* Mutant: a refused request stays counted.
UndoMutant(t) ==
    /\ pc[t] = "undo"
    /\ pc' = [pc EXCEPT ![t] = "idle"]
    /\ UNCHANGED <<count, over, windows, counted, window, admitted, stale>>

\* Mutant: the counter is set back to the limit, whatever others have counted.
UndoToLimit(t) ==
    /\ pc[t] = "undo"
    /\ count' = RpmLimit - 1
    /\ stale' = stale + IF counted[t] = window THEN 0 ELSE 1
    /\ pc' = [pc EXCEPT ![t] = "idle"]
    /\ UNCHANGED <<over, windows, counted, window, admitted>>

\* decrement_request
Undo(t) ==
    /\ pc[t] = "undo"
    /\ count' = (count + Width - 1) % Width
    /\ stale' = stale + IF counted[t] = window THEN 0 ELSE 1
    /\ pc' = [pc EXCEPT ![t] = "idle"]
    /\ UNCHANGED <<over, windows, counted, window, admitted>>

RequestNext == WindowEnds \/ \E t \in Threads : Reset(t) \/ Count(t) \/ Undo(t)

RequestSpec == RequestInit /\ [][RequestNext]_requestVars

-----------------------------------------------------------------------------
(* Properties *)

\* A window admits at most rpm_limit requests.
LimitHolds == admitted <= RpmLimit

\* The limit is only ever passed by the requests that were counted in one window
\* and taken back from the next.
ExcessIsStale == admitted <= RpmLimit + stale

\* Between calls the counter is the number of requests admitted in the window,
\* less those that were taken back from the wrong one.
CountIsAdmitted ==
    (\A t \in Threads : pc[t] = "idle") => (count + stale) % Width = admitted % Width

\* However the three steps of concurrent calls interleave, what is admitted
\* beyond the limit, and what the counter misses, are requests taken back from
\* the wrong window.
WindowInvariant == ExcessIsStale /\ CountIsAdmitted
=============================================================================
