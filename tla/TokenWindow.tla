---------------------------- MODULE TokenWindow -----------------------------
(***************************************************************************)
(* The token window of one rate limit key, as the scripts of redis.rs in   *)
(* keycompute-ratelimit keep it: every script first prunes what expired,   *)
(* so the window is the records that are live.  left is the score of the   *)
(* record in the expirations key, counted from now.                        *)
(*                                                                         *)
(* This is also what the in-memory cache of lib.rs promises.               *)
(***************************************************************************)
EXTENDS Naturals, FiniteSetsExt

CONSTANTS
    Ids,     \* reservation ids and terminal ids
    None,
    Limit,   \* tpm_limit
    Window,  \* WINDOW_SECS
    Tokens   \* bound: numbers of tokens

VARIABLE live

Kind(id) == IF live[id] = None THEN "none" ELSE live[id].kind

\* The total key.
Total(records) ==
    LET Weight(id) == IF records[id] = None THEN 0 ELSE records[id].tokens
    IN  MapThenSumSet(Weight, Ids)

Rec(kind, tokens, left) == [kind |-> kind, tokens |-> tokens, left |-> left]

Init == live = [id \in Ids |-> None]

\* The clock of the server moves.
Pass ==
    live' = [id \in Ids |->
                IF live[id] = None \/ live[id].left = 1 THEN None
                ELSE [live[id] EXCEPT !.left = @ - 1]]

\* Mode reserve of RESERVE_TOKENS_SCRIPT.
Reserve(res, term, n) ==
    /\ Kind(term) # "terminal" /\ live[res] = None
    /\ Total(live) + n <= Limit
    /\ live' = [live EXCEPT ![res] = Rec("reserved", n, Window)]

\* Modes renew and restore of RESERVE_TOKENS_SCRIPT.
Renew(res, term, n) ==
    /\ Kind(term) # "terminal"
    /\ Kind(res) = "reserved" /\ live[res].tokens = n
    /\ live' = [live EXCEPT ![res].left = Window]

Restore(res, term, n) ==
    /\ Kind(term) # "terminal" /\ live[res] = None
    /\ live' = [live EXCEPT ![res] = Rec("reserved", n, Window)]

\* RECONCILE_TOKENS_SCRIPT, for usage that is age old.
Reconcile(res, term, n, age) ==
    LET without == [live EXCEPT ![res] =
                       IF Kind(res) = "reserved" THEN None ELSE @]
    IN  live' = IF without[term] # None \/ age >= Window THEN without
                ELSE [without EXCEPT ![term] = Rec("terminal", n, Window - age)]

\* RELEASE_TOKENS_SCRIPT
Release(res) ==
    /\ Kind(res) = "reserved"
    /\ live' = [live EXCEPT ![res] = None]

\* The store restarts without its data.
Restart == live' = [id \in Ids |-> None]

Next ==
    \/ Pass
    \/ Restart
    \/ \E res \in Ids :
          \/ Release(res)
          \/ \E term \in Ids, n \in Tokens :
                \/ Reserve(res, term, n)
                \/ Renew(res, term, n)
                \/ Restore(res, term, n)
                \/ \E age \in 0..Window : Reconcile(res, term, n, age)

Spec == Init /\ [][Next]_live
=============================================================================
