--------------------------- MODULE TenantWallets ---------------------------
(***************************************************************************)
(* The wallets one user has in two tenants, and the sweeper that goes      *)
(* through both (reclaim_expired, called by main.rs every 30 seconds).     *)
(*                                                                         *)
(* A wallet is a row of user_balances, one for each tenant and user, and   *)
(* every other transaction keeps to one of them.  The sweeper's statement  *)
(* finds the reservations by user alone.                                   *)
(***************************************************************************)
EXTENDS Naturals

CONSTANTS NumRequests, NumKeys, Owners, Amounts, MinAvailable, MaxCredit, None

VARIABLES
    wallet1, resv1, issued1, usage1, spent1, credited1, ops1,
    wallet2, resv2, issued2, usage2, spent2, credited2, ops2

First ==
    INSTANCE Balance WITH
        wallet <- wallet1, resv <- resv1, issued <- issued1, usage <- usage1,
        spent <- spent1, credited <- credited1, ops <- ops1

Second ==
    INSTANCE Balance WITH
        wallet <- wallet2, resv <- resv2, issued <- issued2, usage <- usage2,
        spent <- spent2, credited <- credited2, ops <- ops2

firstVars == <<wallet1, resv1, issued1, usage1, spent1, credited1, ops1>>
secondVars == <<wallet2, resv2, issued2, usage2, spent2, credited2, ops2>>
walletsVars == <<firstVars, secondVars>>

WalletsInit == First!BalanceInit /\ Second!BalanceInit

Held1 == First!ActiveReserved(resv1)

Held2 == Second!ActiveReserved(resv2)

\* One batch of the sweeper: each wallet is reclaimed if its frozen money
\* covers what is reserved in both, and is left as it is otherwise.
Sweep ==
    LET covers1 == First!Lapsed # {} /\ Held1 + Held2 <= wallet1.frozen
        covers2 == Second!Lapsed # {} /\ Held1 + Held2 <= wallet2.frozen
    IN  /\ covers1 \/ covers2
        /\ IF covers1 THEN First!ReclaimExpired(Held2)
                      ELSE UNCHANGED firstVars
        /\ IF covers2 THEN Second!ReclaimExpired(Held1)
                      ELSE UNCHANGED secondVars

WalletsNext ==
    \/ (First!OfficeNext \/ First!RequestNext) /\ UNCHANGED secondVars
    \/ (Second!OfficeNext \/ Second!RequestNext) /\ UNCHANGED firstVars
    \/ Sweep

\* Clocks go on and the sweeper runs.  Nothing is assumed of requests and
\* administrators.
WalletsFairSpec ==
    /\ WalletsInit
    /\ [][WalletsNext]_walletsVars
    /\ \A r \in 1..NumRequests :
           /\ WF_walletsVars(First!Lapse(r) /\ UNCHANGED secondVars)
           /\ WF_walletsVars(Second!Lapse(r) /\ UNCHANGED firstVars)
    /\ WF_walletsVars(Sweep)

\* "Reclaim request-owned funds even when no later request or balance query
\* touches the user" (spawn_balance_reservation_sweeper): what a reservation
\* holds after it expired does not stay frozen for ever.
OrphansReclaimed ==
    []<>(First!Lapsed = {}) /\ []<>(Second!Lapsed = {})
=============================================================================
