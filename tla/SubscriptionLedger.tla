------------------------- MODULE SubscriptionLedger -------------------------
(***************************************************************************)
(* amount_used of one user subscription under concurrent requests and the  *)
(* periodic reset (model/subscription.go), one step per read and per       *)
(* commit.                                                                 *)
(*                                                                         *)
(* Every operation is a transaction that reads the row, computes the new   *)
(* amount_used and saves the row.  The locking read the code asks for      *)
(* (gorm:query_option) is not issued by the gorm version in use, so what   *)
(* happens to a row that changed since it was read is left to the database *)
(* (Isolation): the commit fails, or the change is overwritten.            *)
(*                                                                         *)
(* RefundSubscriptionPreConsume reads the record of the request in one     *)
(* transaction and calls PostConsumeUserSubscriptionDelta, which opens     *)
(* another one and commits it, before it saves the record in the first;    *)
(* refundWithRetry runs it up to three times (service/funding_source.go).  *)
(***************************************************************************)
EXTENDS Integers, FiniteSets, FiniteSetsExt

CONSTANTS
    Requests,
    Total,         \* amount_total (0: unlimited)
    Amounts,       \* what a request may pre-consume
    Deltas,        \* differences a settlement may bring
    Isolation,     \* "serializable" or "read_committed"
    MaxPeriods,    \* bound on quota periods that end
    MaxFaults,     \* bound on transactions that fail
    MaxSaveFaults  \* bound on failing saves of a record

maxAttempts == 3

ASSUME LedgerAssumption ==
    /\ Total \in Nat /\ Amounts \subseteq Nat \ {0} /\ Deltas \subseteq Int
    /\ Isolation \in {"serializable", "read_committed"}
    /\ MaxPeriods \in Nat /\ MaxFaults \in Nat /\ MaxSaveFaults \in Nat

VARIABLES
    sub,      \* the row: amount_used and next_reset_time, counted in periods
    version,  \* number of writes of the row so far
    clock,    \* quota periods that have ended
    pc,       \* the step a request is at
    amount,   \* what it pre-consumes (SubscriptionFunding.amount)
    delta,    \* what its settlement takes in addition
    rec,      \* its SubscriptionPreConsumeRecord: "none", "consumed", "refunded"
    seen,     \* the row as its current transaction is to save it, but for
              \* amount_used; with the version it was read at
    attempt,  \* attempts of refundWithRetry
    settled,  \* what its settlement changed amount_used by
    given,    \* how often its pre-consumption was given back
    task,     \* the reset task: "idle", or "read" with the row in taskSeen
    taskSeen,
    faults, saveFaults

row == <<sub, version>>
txs == <<pc, amount, delta, seen, attempt>>
effects == <<rec, settled, given>>
reset == <<task, taskSeen, clock>>
vars == <<row, txs, effects, reset, faults, saveFaults>>

Steps == {"new", "preConsume", "rejected", "active", "settle", "served",
          "refund", "giveBack", "saveRecord", "refunded", "abandoned"}
Subs == [used : Nat, next : Nat]
NewSub == [used |-> 0, next |-> 1]
NothingSeen == [row |-> NewSub, version |-> 0]

Init ==
    /\ sub = NewSub /\ version = 0 /\ clock = 0
    /\ pc = [q \in Requests |-> "new"]
    /\ amount = [q \in Requests |-> 0]
    /\ delta = [q \in Requests |-> 0]
    /\ rec = [q \in Requests |-> "none"]
    /\ seen = [q \in Requests |-> NothingSeen]
    /\ attempt = [q \in Requests |-> 0]
    /\ settled = [q \in Requests |-> 0]
    /\ given = [q \in Requests |-> 0]
    /\ task = "idle" /\ taskSeen = NothingSeen
    /\ faults = 0 /\ saveFaults = 0

-----------------------------------------------------------------------------
(* Transactions *)

Goto(q, s) == pc' = [pc EXCEPT ![q] = s]
Read(q, s) == seen' = [seen EXCEPT ![q] = [row |-> s, version |-> version]]

Fits(n) == Total = 0 \/ n <= Total

\* The transaction that read s may commit.
MayCommit(s) == Isolation = "serializable" => version = s.version

\* tx.Save writes every column of the row that was read, amount_used changed.
Save(s, n) == sub' = [s.row EXCEPT !.used = n] /\ version' = version + 1

\* It fails: the row has changed (serializable), or for any other reason.
Conflict(s) == Isolation = "serializable" /\ version # s.version /\ UNCHANGED faults
Fault == faults < MaxFaults /\ faults' = faults + 1
TxFails(s) == (Conflict(s) \/ Fault) /\ UNCHANGED row

-----------------------------------------------------------------------------
(* maybeResetUserSubscriptionWithPlanTx *)

Due == sub.next <= clock
AfterReset == IF Due THEN [used |-> 0, next |-> clock + 1] ELSE sub

-----------------------------------------------------------------------------
(* PreConsumeUserSubscription *)

\* The transaction reads the row, resets it if that is due, and gives up if
\* what is left is less than the amount.
PreConsumeRead(q) ==
    /\ pc[q] = "new"
    /\ \E n \in Amounts :
        /\ amount' = [amount EXCEPT ![q] = n]
        /\ Read(q, AfterReset)
        /\ Goto(q, IF Fits(AfterReset.used + n) THEN "preConsume" ELSE "rejected")
    /\ UNCHANGED <<row, delta, attempt, effects, reset, faults, saveFaults>>

PreConsumeCommit(q) ==
    /\ pc[q] = "preConsume"
    /\ \/ /\ MayCommit(seen[q])
          /\ Save(seen[q], seen[q].row.used + amount[q])
          /\ rec' = [rec EXCEPT ![q] = "consumed"]
          /\ Goto(q, "active")
          /\ UNCHANGED faults
       \/ TxFails(seen[q]) /\ Goto(q, "rejected") /\ UNCHANGED rec
    /\ UNCHANGED <<amount, delta, seen, attempt, settled, given, reset, saveFaults>>

-----------------------------------------------------------------------------
(* PostConsumeUserSubscriptionDelta, for the settlement of a request *)

\* Mutant: without the bound at zero.
AfterDeltaUnclamped(u, d) == u + d

AfterDelta(u, d) == IF u + d < 0 THEN 0 ELSE u + d

SettleRead(q) ==
    /\ pc[q] = "active"
    /\ \E d \in Deltas :
        /\ amount[q] + d >= 0
        /\ delta' = [delta EXCEPT ![q] = d]
        /\ Read(q, sub)
        /\ Goto(q, IF d # 0 /\ Fits(AfterDelta(sub.used, d)) THEN "settle" ELSE "served")
    /\ UNCHANGED <<row, amount, attempt, effects, reset, faults, saveFaults>>

SettleCommit(q) ==
    /\ pc[q] = "settle"
    /\ \/ /\ MayCommit(seen[q])
          /\ Save(seen[q], AfterDelta(seen[q].row.used, delta[q]))
          /\ settled' = [settled EXCEPT ![q] = delta[q]]
          /\ UNCHANGED faults
       \/ TxFails(seen[q]) /\ UNCHANGED settled
    /\ Goto(q, "served")
    /\ UNCHANGED <<amount, delta, seen, attempt, rec, given, reset, saveFaults>>

-----------------------------------------------------------------------------
(* refundWithRetry(RefundSubscriptionPreConsume) *)

\* The request failed: the refund goroutine starts its first attempt.
Refund(q) ==
    /\ pc[q] = "active"
    /\ Goto(q, "refund")
    /\ attempt' = [attempt EXCEPT ![q] = 1]
    /\ UNCHANGED <<row, amount, delta, seen, effects, reset, faults, saveFaults>>

\* An attempt returns an error: another one, or give up after the third.
AttemptFails(q) ==
    IF attempt[q] < maxAttempts
    THEN Goto(q, "refund") /\ attempt' = [attempt EXCEPT ![q] = @ + 1]
    ELSE Goto(q, "abandoned") /\ UNCHANGED attempt

\* The outer transaction reads the record, the inner one the subscription.
RefundRead(q) ==
    /\ pc[q] = "refund"
    /\ \/ /\ rec[q] = "refunded"
          /\ Goto(q, "refunded")
          /\ UNCHANGED seen
       \/ /\ rec[q] = "consumed"
          /\ Read(q, sub)
          /\ Goto(q, "giveBack")
    /\ UNCHANGED <<row, amount, delta, attempt, effects, reset, faults, saveFaults>>

\* Mutant: the row is saved outside the transaction that reports the error.
GiveBackUnatomic(q) ==
    /\ pc[q] = "giveBack"
    /\ MayCommit(seen[q])
    /\ Save(seen[q], AfterDelta(seen[q].row.used, -amount[q]))
    /\ given' = [given EXCEPT ![q] = @ + 1]
    /\ \/ Goto(q, "saveRecord") /\ UNCHANGED <<attempt, faults>>
       \/ Fault /\ AttemptFails(q)
    /\ UNCHANGED <<amount, delta, seen, rec, settled, reset, saveFaults>>

\* The inner transaction commits.
GiveBack(q) ==
    /\ pc[q] = "giveBack"
    /\ \/ /\ MayCommit(seen[q])
          /\ Save(seen[q], AfterDelta(seen[q].row.used, -amount[q]))
          /\ given' = [given EXCEPT ![q] = @ + 1]
          /\ Goto(q, "saveRecord")
          /\ UNCHANGED <<attempt, faults>>
       \/ TxFails(seen[q]) /\ AttemptFails(q) /\ UNCHANGED given
    /\ UNCHANGED <<amount, delta, seen, rec, settled, reset, saveFaults>>

\* The outer transaction saves the record and commits.
SaveRecord(q) ==
    /\ pc[q] = "saveRecord"
    /\ \/ /\ rec' = [rec EXCEPT ![q] = "refunded"]
          /\ Goto(q, "refunded")
          /\ UNCHANGED <<attempt, saveFaults>>
       \/ /\ saveFaults < MaxSaveFaults /\ saveFaults' = saveFaults + 1
          /\ AttemptFails(q)
          /\ UNCHANGED rec
    /\ UNCHANGED <<row, amount, delta, seen, settled, given, reset, faults>>

-----------------------------------------------------------------------------
(* ResetDueSubscriptions, run by the master node *)

PeriodEnds ==
    /\ clock < MaxPeriods /\ clock' = clock + 1
    /\ UNCHANGED <<row, txs, effects, task, taskSeen, faults, saveFaults>>

ResetRead ==
    /\ task = "idle" /\ Due
    /\ task' = "read" /\ taskSeen' = [row |-> AfterReset, version |-> version]
    /\ UNCHANGED <<row, clock, txs, effects, faults, saveFaults>>

\* Mutant: an error leaves the flag that the task is running set.
ResetCommitStaysRunning ==
    /\ task = "read"
    /\ \/ MayCommit(taskSeen) /\ Save(taskSeen, 0) /\ task' = "idle" /\ UNCHANGED faults
       \/ TxFails(taskSeen) /\ task' = "running"
    /\ UNCHANGED <<clock, txs, effects, taskSeen, saveFaults>>

ResetCommit ==
    /\ task = "read"
    /\ \/ MayCommit(taskSeen) /\ Save(taskSeen, 0) /\ UNCHANGED faults
       \/ TxFails(taskSeen)
    /\ task' = "idle"
    /\ UNCHANGED <<clock, txs, effects, taskSeen, saveFaults>>

\* Every request is through and every period has ended.
AllDone ==
    /\ \A q \in Requests : pc[q] \in {"rejected", "served", "refunded", "abandoned"}
    /\ clock = MaxPeriods
    /\ UNCHANGED vars

Next ==
    \/ \E q \in Requests :
        \/ PreConsumeRead(q) \/ PreConsumeCommit(q) \/ SettleRead(q) \/ SettleCommit(q)
        \/ Refund(q) \/ RefundRead(q) \/ GiveBack(q) \/ SaveRecord(q)
    \/ PeriodEnds \/ ResetRead \/ ResetCommit
    \/ AllDone

\* The master node's ticker keeps running the reset task; nothing is assumed
\* of the requests.
Fairness == WF_vars(ResetRead) /\ WF_vars(ResetCommit)

Spec == Init /\ [][Next]_vars /\ Fairness

-----------------------------------------------------------------------------
(* Properties *)

TypeOK ==
    /\ sub \in Subs /\ version \in Nat /\ clock \in Nat
    /\ pc \in [Requests -> Steps]
    /\ amount \in [Requests -> Nat]
    /\ delta \in [Requests -> Int]
    /\ rec \in [Requests -> {"none", "consumed", "refunded"}]
    /\ seen \in [Requests -> [row : Subs, version : Nat]]
    /\ attempt \in [Requests -> 0 .. maxAttempts]
    /\ settled \in [Requests -> Int]
    /\ given \in [Requests -> Nat]
    /\ task \in {"idle", "read"} /\ taskSeen \in [row : Subs, version : Nat]
    /\ faults \in Nat /\ saveFaults \in Nat

\* amount_used stays between zero and the total through concurrent requests,
\* resets and refunds, even where the database lets one overwrite another.
UsedInRange == sub.used >= 0 /\ Fits(sub.used)

\* "RefundSubscriptionPreConsume is idempotent": the pre-consumption of a
\* request is given back at most once, however often it is retried.
RefundIdempotent == \A q \in Requests : given[q] <= 1

\* What a request holds of amount_used, by the effects of its transactions.
Hold(q) ==
    (IF rec[q] = "none" THEN 0 ELSE amount[q]) + settled[q] - given[q] * amount[q]

\* amount_used is the sum of what the requests hold: no update is lost
\* ("creates a pre-consume record and locks the subscription").
UsedIsSum == sub.used = MapThenSumSet(Hold, Requests)

\* While no period ends and no save of a record fails, the transactions
\* implement the account a subscription promises.
Stage(q) ==
    IF rec[q] = "none" THEN "new"
    ELSE IF given[q] > 0 \/ settled[q] # 0 THEN "closed" ELSE "holding"
Account == INSTANCE SubscriptionAccount WITH
    used <- sub.used,
    hold <- [q \in Requests |-> Hold(q)],
    stage <- [q \in Requests |-> Stage(q)]
ImplementsAccount == Account!Spec

\* Every quota period that ends is followed by its reset for good: a request
\* that read the row before the reset and saves it afterwards puts the old
\* next_reset_time back, and the task then resets again.
ResetsPrevail == <>[](sub.next > clock)

=============================================================================
