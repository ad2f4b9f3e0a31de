--------------------------- MODULE WalletContract ---------------------------
(***************************************************************************)
(* What a wallet promises to its owner and to the house, without columns,  *)
(* tokens, statuses or expiry: there is an amount of money, requests may   *)
(* hold parts of it, an administrator may pin a part of it, holds may be   *)
(* dropped at any time, and every request is charged at most once.  Only   *)
(* the charge of a request may overdraw the wallet.                        *)
(***************************************************************************)
EXTENDS Sums

CONSTANTS NumRequests, Amounts, None

VARIABLES
    money,      \* all the money in the wallet; a debt if negative
    held,       \* what each request holds
    pinned,     \* what administrators have frozen
    charged     \* what each request was charged, or None

contractVars == <<money, held, pinned, charged>>

Holders == 1..NumRequests

Free(h) == money - pinned - Sum(h, NumRequests)

\* held after the holds of S are dropped.
Without(S) == [r \in Holders |-> IF r \in S THEN 0 ELSE held[r]]

Init ==
    /\ money = 0
    /\ held = [r \in Holders |-> 0]
    /\ pinned = 0
    /\ charged = [r \in Holders |-> None]

Drop(S) ==
    /\ held' = Without(S)
    /\ UNCHANGED <<money, pinned, charged>>

Hold(S, r, amount) ==
    LET kept == Without(S \cup {r}) IN
    /\ Free(kept) >= amount
    /\ held' = [kept EXCEPT ![r] = amount]
    /\ UNCHANGED <<money, pinned, charged>>

Charge(S, r, amount) ==
    /\ charged[r] = None
    /\ charged' = [charged EXCEPT ![r] = amount]
    /\ money' = money - amount
    /\ held' = Without(S)
    /\ pinned' = pinned

Credit(amount) ==
    /\ money' = money + amount
    /\ UNCHANGED <<held, pinned, charged>>

Withdraw(S, amount) ==
    /\ Free(Without(S)) >= amount
    /\ money' = money - amount
    /\ held' = Without(S)
    /\ UNCHANGED <<pinned, charged>>

Pin(S, amount) ==
    /\ Free(Without(S)) >= amount
    /\ pinned' = pinned + amount
    /\ held' = Without(S)
    /\ UNCHANGED <<money, charged>>

Unpin(S, amount) ==
    /\ pinned >= amount
    /\ pinned' = pinned - amount
    /\ held' = Without(S)
    /\ UNCHANGED <<money, charged>>

Next ==
    \/ \E amount \in Amounts : Credit(amount)
    \/ \E S \in SUBSET Holders :
          \/ Drop(S)
          \/ \E amount \in Amounts :
                \/ Withdraw(S, amount)
                \/ Pin(S, amount)
                \/ Unpin(S, amount)
                \/ \E r \in Holders :
                      Hold(S, r, amount) \/ Charge(S, r, amount)

Spec == Init /\ [][Next]_contractVars
=============================================================================
