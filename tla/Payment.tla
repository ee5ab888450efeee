------------------------------- MODULE Payment -------------------------------
(***************************************************************************)
(* The completion of one order: the payment provider's notifications       *)
(* (controller/topup*.go, subscription_payment_epay.go), the               *)
(* administrator's completion, the order locks of each node and the        *)
(* transactions of model/topup.go, model/subscription.go and               *)
(* model/redemption.go.                                                    *)
(*                                                                         *)
(* A request is served by a handler on some node.  Its steps are those     *)
(* others can observe: the sections under createLock, the order's mutex,   *)
(* and each access to the database.  A transaction's read and its commit   *)
(* are two steps: the row lock it asks for ("gorm:query_option") is a      *)
(* setting of gorm v1 that the gorm in go.mod ignores.  The affiliate      *)
(* reward and the log that follow are left out, and so is verifying the    *)
(* signature: the notifications here are genuine.                          *)
(***************************************************************************)
EXTENDS Naturals, FiniteSets

CONSTANTS
    Nodes,      \* nodes of the gateway
    Handlers,   \* bound on the requests served at once
    Methods,    \* kinds of order to consider
    MaxFaults,  \* bound on failed database accesses and crashes
    Unit        \* QuotaPerUnit

\* An online top-up, a subscription bought through epay, or a redemption code.
AllMethods == {"epay", "yipay", "stripe", "creem", "waffo", "subscription", "code"}

Mutexes == Handlers         \* names for the mutexes; one per handler is enough
NoMutex == "none"

ASSUME PaymentAssumption ==
    /\ IsFiniteSet(Handlers) /\ NoMutex \notin Handlers
    /\ Methods \subseteq AllMethods
    /\ MaxFaults \in Nat /\ Unit \in Nat \ {0}

VARIABLES
    method,     \* the order's kind
    session,    \* the provider's side: "open", "paid" or "closed" (not paid)
    acked,      \* the provider was told of success and need not notify again
    status,     \* the order's row: "pending", "success", "failed" or "expired"
    credits,    \* how often it was credited
    quota,      \* what was credited
    faults,     \* failures so far
    entry,      \* entry[n]: the mutex orderLocks of node n holds for the order
    refCount,   \* refCount[n][m]
    locked,     \* locked[n][m]
    pc,         \* pc[h]: the step the handler is at, "idle" if there is none
    node,       \* node[h]: the node that serves it
    op,         \* op[h]: what the request is, see MayArrive
    rcm         \* rcm[h]: the mutex it works with

locks == <<entry, refCount, locked>>
row   == <<status, credits, quota>>
who   == <<node, op>>
vars  == <<method, session, acked, row, faults, locks, pc, who, rcm>>

Steps == {"idle", "lock", "wait", "check", "read", "write", "credit", "unlock", "release"}

Requests == {"notify", "return", "close", "admin", "redeem"}

TypeOK ==
    /\ method \in Methods
    /\ session \in {"open", "paid", "closed"} /\ acked \in BOOLEAN
    /\ status \in {"pending", "success", "failed", "expired"}
    /\ credits \in Nat /\ quota \in Nat /\ faults \in 0..MaxFaults
    /\ entry \in [Nodes -> Mutexes \cup {NoMutex}]
    /\ refCount \in [Nodes -> [Mutexes -> Nat]]
    /\ locked \in [Nodes -> [Mutexes -> BOOLEAN]]
    /\ pc \in [Handlers -> Steps]
    /\ node \in [Handlers -> Nodes]
    /\ op \in [Handlers -> Requests]
    /\ rcm \in [Handlers -> Mutexes \cup {NoMutex}]

Init ==
    /\ method \in Methods
    /\ session = "open" /\ acked = FALSE
    /\ status = "pending" /\ credits = 0 /\ quota = 0 /\ faults = 0
    /\ entry = [n \in Nodes |-> NoMutex]
    /\ refCount = [n \in Nodes |-> [m \in Mutexes |-> 0]]
    /\ locked = [n \in Nodes |-> [m \in Mutexes |-> FALSE]]
    /\ pc = [h \in Handlers |-> "idle"]
    /\ node \in [Handlers -> Nodes]
    /\ op = [h \in Handlers |-> "notify"]
    /\ rcm = [h \in Handlers |-> NoMutex]

-----------------------------------------------------------------------------
(* Requests *)

\* The user pays, or the session at the provider ends without a payment.
Pay ==
    /\ session = "open" /\ session' = "paid"
    /\ UNCHANGED <<method, acked, row, faults, locks, pc, who, rcm>>

Close ==
    /\ session = "open" /\ session' = "closed"
    /\ UNCHANGED <<method, acked, row, faults, locks, pc, who, rcm>>

\* Which requests may arrive: notifications of a payment, any number of times;
\* the browser's return from the payment of a subscription, which completes it
\* too; Stripe's and Waffo's notification that there will be none; completions
\* by an administrator; users redeeming a code.
MayArrive(o) ==
    \/ o = "notify" /\ session = "paid" /\ method # "code"
    \/ o = "return" /\ session = "paid" /\ method = "subscription"
    \/ o = "close" /\ session = "closed" /\ method \in {"stripe", "waffo"}
    \/ o = "admin" /\ method \notin {"code", "subscription"}
    \/ o = "redeem" /\ method = "code"

\* Mutant: the notifications rely on the row lock of their transaction.
LockFreeNotify(o) == o \in {"redeem", "notify"} \/ (o = "close" /\ method = "waffo")

\* Waffo's failure notification and the redemption of a code take no order lock.
LockFree(o) == o = "redeem" \/ (o = "close" /\ method = "waffo")

\* The request is verified.
Arrive(h, n, o) ==
    /\ pc[h] = "idle" /\ MayArrive(o)
    /\ op' = [op EXCEPT ![h] = o] /\ node' = [node EXCEPT ![h] = n]
    /\ pc' = [pc EXCEPT ![h] = IF LockFree(o) THEN "read" ELSE "lock"]
    /\ UNCHANGED <<method, session, acked, row, faults, locks, rcm>>

-----------------------------------------------------------------------------
(* Order locks *)

\* A mutex nobody on the node refers to.
Fresh(n) == {m \in Mutexes : /\ m # entry[n] /\ refCount[n][m] = 0 /\ ~locked[n][m]
                             /\ \A h \in Handlers : node[h] = n => rcm[h] # m}

\* LockOrder under createLock: the order's mutex is found or made, and counted.
LockOrder(h) ==
    LET n == node[h] IN
    /\ pc[h] = "lock" /\ pc' = [pc EXCEPT ![h] = "wait"]
    /\ \E m \in IF entry[n] # NoMutex THEN {entry[n]} ELSE Fresh(n) :
          /\ entry' = [entry EXCEPT ![n] = m]
          /\ refCount' = [refCount EXCEPT ![n][m] = @ + 1]
          /\ rcm' = [rcm EXCEPT ![h] = m]
    /\ UNCHANGED <<method, session, acked, row, faults, locked, who>>

\* rcm.mu.Lock().  Creem's handler then looks at the order on its own first.
LockMutex(h) ==
    /\ pc[h] = "wait" /\ ~locked[node[h]][rcm[h]]
    /\ locked' = [locked EXCEPT ![node[h]][rcm[h]] = TRUE]
    /\ pc' = [pc EXCEPT ![h] = IF method = "creem" /\ op[h] = "notify"
                               THEN "check" ELSE "read"]
    /\ UNCHANGED <<method, session, acked, row, faults, entry, refCount, who, rcm>>

\* UnlockOrder: the mutex orderLocks has now is unlocked, if it has one.
UnlockMutex(h) ==
    LET n == node[h]  m == entry[n] IN
    /\ pc[h] = "unlock"
    /\ pc' = [pc EXCEPT ![h] = IF m = NoMutex THEN "idle" ELSE "release"]
    /\ locked' = IF m = NoMutex THEN locked ELSE [locked EXCEPT ![n][m] = FALSE]
    /\ rcm' = [rcm EXCEPT ![h] = m]
    /\ UNCHANGED <<method, session, acked, row, faults, entry, refCount, who>>

\* Mutant: off by one in the count, and the entry stays.
UnlockOrderKeeps(h) ==
    LET n == node[h]  m == rcm[h] IN
    /\ pc[h] = "release" /\ pc' = [pc EXCEPT ![h] = "idle"]
    /\ entry' = [entry EXCEPT ![n] = IF refCount[n][m] = 0 THEN NoMutex ELSE @]
    /\ refCount' = [refCount EXCEPT ![n][m] = @ - 1]
    /\ rcm' = [rcm EXCEPT ![h] = NoMutex]
    /\ UNCHANGED <<method, session, acked, row, faults, locked, who>>

\* UnlockOrder under createLock: the last one deletes the entry.
UnlockOrder(h) ==
    LET n == node[h]  m == rcm[h] IN
    /\ pc[h] = "release" /\ pc' = [pc EXCEPT ![h] = "idle"]
    /\ refCount' = [refCount EXCEPT ![n][m] = @ - 1]
    /\ entry' = [entry EXCEPT ![n] = IF refCount[n][m] = 1 THEN NoMutex ELSE @]
    /\ rcm' = [rcm EXCEPT ![h] = NoMutex]
    /\ UNCHANGED <<method, session, acked, row, faults, locked, who>>

-----------------------------------------------------------------------------
(* Handlers *)

\* Mutant: Waffo and Creem are told of success even if completing failed.
repliesAlways(h, ok) == op[h] = "notify"

\* What a notification is answered: EpayNotify writes "success" for epay before it
\* does anything, StripeWebhook answers 200 whatever happened.
replies(h, ok) == op[h] = "notify" /\ (ok \/ method \in {"epay", "stripe"})

\* Mutant: no deferred unlock, and the error path forgets it.
finishForgets(h, ok) ==
    /\ pc' = [pc EXCEPT ![h] = IF LockFree(op[h]) \/ ~ok THEN "idle" ELSE "unlock"]
    /\ acked' = (acked \/ replies(h, ok))

\* The handler is done with the order: it replies and its deferred unlock runs.
finish(h, ok) ==
    /\ pc' = [pc EXCEPT ![h] = IF LockFree(op[h]) THEN "idle" ELSE "unlock"]
    /\ acked' = (acked \/ replies(h, ok))

\* A database access that fails.
Fault == faults < MaxFaults /\ faults' = faults + 1

\* handleCheckoutCompleted looks for the order before RechargeCreem does.
Check(h) ==
    /\ pc[h] = "check"
    /\ \/ /\ IF status = "pending"
             THEN pc' = [pc EXCEPT ![h] = "read"] /\ UNCHANGED acked
             ELSE finish(h, TRUE)
          /\ UNCHANGED faults
       \/ Fault /\ finish(h, FALSE)
    /\ UNCHANGED <<method, session, row, locks, who, rcm>>

\* The order is read: a pending one is completed.  Stripe's expiry goes on
\* whatever the status is.  Otherwise it is an error, except where the handler
\* treats it as done: epay and yipay always, Waffo and subscriptions if it is a
\* success.
Read(h) ==
    /\ pc[h] = "read"
    /\ \/ /\ IF status = "pending" \/ (op[h] = "close" /\ method = "stripe")
             THEN pc' = [pc EXCEPT ![h] = "write"] /\ UNCHANGED acked
             ELSE finish(h, \/ method \in {"epay", "yipay"}
                            \/ method \in {"waffo", "subscription"} /\ status = "success")
          /\ UNCHANGED faults
       \/ Fault /\ finish(h, FALSE)
    /\ UNCHANGED <<method, session, row, locks, who, rcm>>

\* What a payment is worth: a Creem order says so itself, the amount (or, for
\* Stripe, the money) of the others is in units.  ManualCompleteTopUp multiplies
\* for every method.
Worth(o) == IF method \in {"creem", "subscription", "code"} /\ o # "admin" THEN 1 ELSE Unit

\* EpayNotify saves the order before it credits the user, in two steps.
TwoSteps(h) == method \in {"epay", "yipay"} /\ op[h] = "notify"

\* Saving the order.  The others do it with the credit in one transaction.
Write(h) ==
    /\ pc[h] = "write"
    /\ \/ /\ op[h] = "close"
          /\ status' = IF method = "stripe" THEN "expired" ELSE "failed"
          /\ finish(h, TRUE) /\ UNCHANGED <<credits, quota, faults>>
       \/ /\ op[h] # "close" /\ status' = "success"
          /\ IF TwoSteps(h)
             THEN pc' = [pc EXCEPT ![h] = "credit"] /\ UNCHANGED <<acked, credits, quota>>
             ELSE /\ credits' = credits + 1 /\ quota' = quota + Worth(op[h])
                  /\ finish(h, TRUE)
          /\ UNCHANGED faults
       \/ Fault /\ finish(h, op[h] = "close") /\ UNCHANGED row
    /\ UNCHANGED <<method, session, locks, who, rcm>>

\* IncreaseUserQuota of EpayNotify.
Credit(h) ==
    /\ pc[h] = "credit"
    /\ \/ /\ credits' = credits + 1 /\ quota' = quota + Worth(op[h])
          /\ finish(h, TRUE) /\ UNCHANGED faults
       \/ Fault /\ finish(h, FALSE) /\ UNCHANGED <<credits, quota>>
    /\ UNCHANGED <<method, session, status, locks, who, rcm>>

\* A node stops and starts again: its handlers and its locks are gone.
Crash(n) ==
    /\ \E h \in Handlers : node[h] = n /\ pc[h] # "idle"
    /\ Fault
    /\ pc' = [h \in Handlers |-> IF node[h] = n THEN "idle" ELSE pc[h]]
    /\ rcm' = [h \in Handlers |-> IF node[h] = n THEN NoMutex ELSE rcm[h]]
    /\ entry' = [entry EXCEPT ![n] = NoMutex]
    /\ refCount' = [refCount EXCEPT ![n] = [m \in Mutexes |-> 0]]
    /\ locked' = [locked EXCEPT ![n] = [m \in Mutexes |-> FALSE]]
    /\ UNCHANGED <<method, session, acked, row, who>>

-----------------------------------------------------------------------------

Serve(h) ==
    \/ LockOrder(h) \/ LockMutex(h) \/ Check(h) \/ Read(h) \/ Write(h) \/ Credit(h)
    \/ UnlockMutex(h) \/ UnlockOrder(h)

Next ==
    \/ Pay \/ Close
    \/ \E h \in Handlers, n \in Nodes, o \in Requests :
          Arrive(h, n, o)
    \/ \E h \in Handlers : Serve(h)
    \/ \E n \in Nodes : Crash(n)

\* Handlers go on, a mutex goes to one of those who wait, and the provider
\* notifies again until it is told of success.
Fairness ==
    /\ \A h \in Handlers : WF_vars(Serve(h)) /\ SF_vars(LockMutex(h))
    /\ SF_vars(~acked /\ \E h \in Handlers, n \in Nodes : Arrive(h, n, "notify"))

Spec == Init /\ [][Next]_vars /\ Fairness

-----------------------------------------------------------------------------
(* Properties *)

\* An order is credited at most once, whichever of its repeated notifications
\* and manual completions overlap, fail or are cut off by a crash.
CreditedOnce == credits <= 1

\* Outside a lock section nothing of it stays: orderLocks has an entry for the
\* order exactly as long as some handler of the node refers to its mutex ("the
\* last user deletes it from the map"), and two never refer to different ones.
LocksAreExact ==
    \A n \in Nodes :
        /\ entry[n] # NoMutex <=> \E h \in Handlers : node[h] = n /\ rcm[h] # NoMutex
        /\ \A h \in Handlers : node[h] = n /\ rcm[h] # NoMutex => rcm[h] = entry[n]

\* Every request ends: nobody waits for an order lock for ever.
HandlersEnd == \A h \in Handlers : pc[h] # "idle" ~> pc[h] = "idle"

\* What was paid is credited in the end, although accesses fail and nodes crash
\* between any two steps: the provider notifies again until it is told of
\* success, and it is told so only once the order is complete.
AlwaysCredited == session = "paid" ~> credits > 0

\* The same for the orders completed in one transaction before the reply.
PaidIsCredited ==
    session = "paid" /\ method \in {"creem", "waffo", "subscription"} ~> credits > 0

\* An order that was credited stays a success.
SuccessStays == [][status = "success" => status' = "success"]_vars

\* A manual completion credits what the notification would have credited.
CreditIsDue == quota \in {0, Worth("notify")}

=============================================================================
