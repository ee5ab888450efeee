------------------------ MODULE SubscriptionAccount ------------------------
(***************************************************************************)
(* What a subscription promises the requests that draw on it: an account   *)
(* with a limit.  A request consumes once, and then either adjusts what it *)
(* holds once or gives it back once; amount_used follows.                  *)
(* SubscriptionLedger is the code that has to keep this promise.           *)
(***************************************************************************)
EXTENDS Integers

CONSTANTS
    Requests,
    Total,     \* amount_total (0: unlimited)
    Amounts,   \* what a request may pre-consume
    Deltas     \* differences a settlement may bring

VARIABLES
    used,      \* amount_used
    hold,      \* what each request holds of it
    stage      \* "new", "holding" or "closed", for each request
vars == <<used, hold, stage>>

Fits(n) == n >= 0 /\ (Total > 0 => n <= Total)

Init ==
    /\ used = 0
    /\ hold = [q \in Requests |-> 0]
    /\ stage = [q \in Requests |-> "new"]

Change(q, n, s) ==
    /\ used' = used + n /\ Fits(used')
    /\ hold' = [hold EXCEPT ![q] = @ + n]
    /\ stage' = [stage EXCEPT ![q] = s]

Consume(q) == stage[q] = "new" /\ \E n \in Amounts : Change(q, n, "holding")
Settle(q) == stage[q] = "holding" /\ \E d \in Deltas : Change(q, d, "closed")
GiveBack(q) == stage[q] = "holding" /\ Change(q, -hold[q], "closed")

Next == \E q \in Requests : Consume(q) \/ Settle(q) \/ GiveBack(q)

Spec == Init /\ [][Next]_vars
=============================================================================
