---------------------------- MODULE TaskBilling ----------------------------
(***************************************************************************)
(* Billing of asynchronous tasks (video and Suno) from submission to the   *)
(* final state, with the workers that race for a task:                     *)
(*                                                                         *)
(*   - pollers: TaskPollingLoop on each master node; sweepTimedOutTasks,   *)
(*     then one round over the unfinished tasks (service/task_polling.go); *)
(*   - fetchers: user requests for a task that ask the upstream at once    *)
(*     (tryRealtimeFetch of relay/relay_task.go).                          *)
(*                                                                         *)
(* A worker loads rows, asks the upstream, writes the row back (guarded by *)
(* the status it had loaded, except for Suno) and then adjusts the user's  *)
(* funding and token one statement at a time.  It works on the copy it     *)
(* loaded, which may be stale by then.  Each statement may fail and each   *)
(* worker's process may crash (MaxFaults of these between them); after     *)
(* that nobody repeats the billing of the task, which is noted in lost.    *)
(*                                                                         *)
(* SUBMITTED, QUEUED and IN_PROGRESS are one status.  The wallet or the    *)
(* subscription that funds a task is the account "funding".                *)
(***************************************************************************)
EXTENDS Integers, FiniteSets

CONSTANTS
    Tasks,        \* tasks, numbered in the order of their rows
    Pollers,      \* master nodes
    Fetchers,     \* concurrent user queries
    Suno,         \* the tasks of the Suno platform
    Quotas,       \* quotas a task may be submitted with
    SubmitTime,   \* Unix time at which the tasks are submitted
    Limit,        \* rows a poller loads at a time (TASK_QUERY_LIMIT; 100)
    Scenarios,    \* the scenarios a behaviour may be in, see Scenario
    MaxFaults     \* bound on failed statements and crashes

Workers == Pollers \cup Fetchers

\* timeout:   TASK_TIMEOUT_MINUTES > 0 and tasks may exceed it
\* flaky:     pollers may take an error of the upstream, or a missing channel
\*            or upstream id, for the failure of a task that goes on
\* earlyFull: the upstream may report progress "100%" (Suno: a fail reason) for
\*            a task in progress
\* refusal:   the settlement at submission may be refused (subscription full)
AllConditions == {"timeout", "flaky", "earlyFull", "refusal"}

\* workers:    who runs
\* conditions: what may happen
\* actual:     the quota computed at completion (0: none, keep the estimate)
Scenario == [workers : SUBSET Workers, conditions : SUBSET AllConditions, actual : Nat]

ASSUME TaskAssumption ==
    /\ Tasks \subseteq Nat /\ IsFiniteSet(Tasks) /\ Suno \subseteq Tasks
    /\ Pollers \cap Fetchers = {}
    /\ Quotas \subseteq Nat /\ SubmitTime \in Nat
    /\ Limit \in Nat \ {0} /\ MaxFaults \in Nat
    /\ Scenarios \subseteq Scenario

VARIABLES
    scene,    \* the scenario of this behaviour
    row,      \* the tasks table: status, quota, and progress = "100%"
    up,       \* the task at the upstream
    old,      \* tasks whose submit_time is before the sweep's cutoff
    charged,  \* charged[t][a]: what task t has cost account a so far
    shares,   \* shares[t]: profit shares posted for t
    at,       \* the step a worker is at
    then,     \* where it goes after the billing of the current task
    batch,    \* rows a poller has loaded and not yet handled
    cur,      \* the task a worker handles
    snap,     \* the row as it was loaded
    mem,      \* the worker's copy of it, with the updates made so far
    lost,     \* tasks for which a billing step went wrong for good
    faults

vars == <<scene, row, up, old, charged, shares, at, then, batch, cur, snap, mem, lost, faults>>
held == <<cur, snap, mem>>
world == <<scene, up, old>>
money == <<charged, shares>>

Conditions == scene.conditions
Actual == scene.actual
Accounts == {"funding", "token"}
Terminal == {"SUCCESS", "FAILURE"}
Live == {"NOT_START", "IN_PROGRESS"}
Rows == [status : Live \cup Terminal, quota : Nat, full : BOOLEAN]
NoTask == [status |-> "none", quota |-> 0, full |-> FALSE]
NoRows == [t \in {} |-> NoTask]
NoOne == CHOOSE t \in Tasks : TRUE
Stored(t) == row[t] # NoTask

Steps == {"idle", "sweep", "poll", "reported", "fetching", "refund", "refundToken",
          "settle", "settleToken", "saveQuota", "share", "save"}
Billing == {"refund", "refundToken", "settle", "settleToken", "saveQuota", "share"}

\* 2025-02-22 00:00:00 UTC
legacyTaskCutoff == 1740182400
IsLegacy == SubmitTime > 0 /\ SubmitTime < legacyTaskCutoff

Init ==
    /\ scene \in Scenarios
    /\ row = [t \in Tasks |-> NoTask]
    /\ up = [t \in Tasks |-> "IN_PROGRESS"]
    /\ old = {}
    /\ charged = [t \in Tasks |-> [a \in Accounts |-> 0]]
    /\ shares = [t \in Tasks |-> 0]
    /\ at = [w \in Workers |-> "idle"]
    /\ then = [w \in Workers |-> "idle"]
    /\ batch = [w \in Workers |-> NoRows]
    /\ cur = [w \in Workers |-> NoOne]
    /\ snap = [w \in Workers |-> NoTask]
    /\ mem = [w \in Workers |-> NoTask]
    /\ lost = {}
    /\ faults = 0

-----------------------------------------------------------------------------
(* Helpers *)

Goto(w, s) == at' = [at EXCEPT ![w] = s]
Fault == faults < MaxFaults /\ faults' = faults + 1
Lose(t) == lost' = lost \cup {t}
Charge(t, a, n) == charged' = [charged EXCEPT ![t][a] = @ + n]

\* Mutant: the write is reported as won whoever wrote the row before.
WonAlways(t, from) == Stored(t)

\* Mutant: Save, which writes whatever the status is now.
UpdateUnguarded(t, from, new) == row' = [row EXCEPT ![t] = new]

\* UpdateWithStatus: the whole row, quota included, if the status is still from.
Won(t, from) == row[t].status = from
UpdateWithStatus(t, from, new) ==
    row' = IF Won(t, from) THEN [row EXCEPT ![t] = new] ELSE row

\* The rows the queries of model/task.go return: unfinished, in order, at
\* most Limit of them.
Unfinished == {t \in Tasks : row[t].status \in Live /\ ~row[t].full}
FirstOf(S) == {t \in S : Cardinality({s \in S : s < t}) < Limit}
Load(S) == [t \in FirstOf(S) |-> row[t]]
Rest(w, t) == [s \in DOMAIN batch[w] \ {t} |-> batch[w][s]]

Failed(r) == [r EXCEPT !.status = "FAILURE", !.full = TRUE]

-----------------------------------------------------------------------------
(* Submission (RelayTask): charge, then insert the row *)

Submit(t) ==
    /\ ~Stored(t) /\ t \notin lost
    /\ \E q \in Quotas :
        /\ \E p \in Quotas :
            /\ p = q \/ ("refusal" \in Conditions /\ p < q)
            /\ charged' = [charged EXCEPT ![t] = [a \in Accounts |-> p]]
        /\ \/ /\ row' = [row EXCEPT ![t] = [status |-> "NOT_START", quota |-> q, full |-> FALSE]]
              /\ UNCHANGED <<lost, faults>>
           \/ Fault /\ Lose(t) /\ UNCHANGED row
    /\ UNCHANGED <<world, shares, at, then, batch, held>>

UpstreamMoves(t) ==
    /\ Stored(t) /\ up[t] = "IN_PROGRESS"
    /\ \E s \in Terminal : up' = [up EXCEPT ![t] = s]
    /\ UNCHANGED <<scene, row, old, money, at, then, batch, held, lost, faults>>

Age(t) ==
    /\ "timeout" \in Conditions
    /\ Stored(t) /\ t \notin old
    /\ old' = old \cup {t}
    /\ UNCHANGED <<scene, row, up, money, at, then, batch, held, lost, faults>>

-----------------------------------------------------------------------------
(* What a worker does with the task it holds, once the row is written *)

Handle(w, t, loaded, r) ==
    /\ cur' = [cur EXCEPT ![w] = t]
    /\ snap' = [snap EXCEPT ![w] = loaded]
    /\ mem' = [mem EXCEPT ![w] = r]
Drop(w) == Handle(w, NoOne, NoTask, NoTask)

\* The billing of the current task is over.
Done(w) ==
    /\ Goto(w, then[w])
    /\ IF then[w] = "save" THEN UNCHANGED held ELSE Drop(w)
    /\ UNCHANGED then

\* RefundTaskQuota gives back the quota of the copy: the funding first, whose
\* error ends it, then the token, whose error is only logged.
Refund(w) ==
    /\ at[w] = "refund"
    /\ \/ /\ Charge(cur[w], "funding", -mem[w].quota)
          /\ Goto(w, "refundToken")
          /\ UNCHANGED <<then, held, lost, faults>>
       \/ /\ Fault /\ Lose(cur[w])
          /\ UNCHANGED charged \/ Charge(cur[w], "funding", -mem[w].quota)
          /\ Done(w)
    /\ UNCHANGED <<row, world, shares, batch>>

RefundToken(w) ==
    /\ at[w] = "refundToken"
    /\ \/ Charge(cur[w], "token", -mem[w].quota) /\ UNCHANGED <<lost, faults>>
       \/ Fault /\ Lose(cur[w]) /\ UNCHANGED charged
    /\ Done(w)
    /\ UNCHANGED <<row, world, shares, batch>>

\* settleTaskBillingOnComplete and SettleTaskBillingOnFetch, which compute the
\* same quota.  RecalculateTaskQuota takes the difference between it and the
\* quota of the copy, from the funding first, whose error ends it.
Difference(w) == IF Actual > 0 THEN Actual - mem[w].quota ELSE 0
Settle(w) ==
    /\ at[w] = "settle"
    /\ \/ Difference(w) = 0 /\ Goto(w, "share") /\ UNCHANGED <<charged, lost, faults>>
       \/ /\ Difference(w) # 0
          /\ Charge(cur[w], "funding", Difference(w))
          /\ Goto(w, "settleToken")
          /\ UNCHANGED <<lost, faults>>
       \/ /\ Difference(w) # 0
          /\ Fault /\ Lose(cur[w])
          /\ UNCHANGED charged \/ Charge(cur[w], "funding", Difference(w))
          /\ Goto(w, "share")
    /\ UNCHANGED <<row, world, shares, then, batch, held>>

SettleToken(w) ==
    /\ at[w] = "settleToken"
    /\ \/ Charge(cur[w], "token", Difference(w)) /\ UNCHANGED <<lost, faults>>
       \/ Fault /\ Lose(cur[w]) /\ UNCHANGED charged
    /\ mem' = [mem EXCEPT ![w].quota = Actual]
    /\ Goto(w, "saveQuota")
    /\ UNCHANGED <<row, world, shares, then, batch, cur, snap>>

\* Mutant: the actual quota is kept in memory only.
SaveQuotaForgotten(w) ==
    /\ at[w] = "saveQuota"
    /\ Goto(w, "share")
    /\ UNCHANGED <<row, world, money, then, batch, held, lost, faults>>

\* UPDATE tasks SET quota = ... WHERE id = ...
SaveQuota(w) ==
    /\ at[w] = "saveQuota"
    /\ \/ row' = [row EXCEPT ![cur[w]].quota = Actual] /\ UNCHANGED <<lost, faults>>
       \/ Fault /\ Lose(cur[w]) /\ UNCHANGED row
    /\ Goto(w, "share")
    /\ UNCHANGED <<world, money, then, batch, held>>

\* TryPostWalletProfitShareForTaskBilledQuota, deferred by both.
Share(w) ==
    /\ at[w] = "share"
    /\ shares' = [shares EXCEPT ![cur[w]] = IF mem[w].quota > 0 THEN @ + 1 ELSE @]
    /\ Done(w)
    /\ UNCHANGED <<row, world, charged, batch, lost, faults>>

BillingStep(w) ==
    Refund(w) \/ RefundToken(w) \/ Settle(w) \/ SettleToken(w) \/ SaveQuota(w) \/ Share(w)

\* A worker leaves a task it need not bill for the step back; or bills it and
\* goes there afterwards.
Leave(w, back) == Goto(w, back) /\ Drop(w) /\ UNCHANGED then
Bill(w, t, loaded, r, step, back) ==
    /\ Handle(w, t, loaded, r)
    /\ Goto(w, step)
    /\ then' = [then EXCEPT ![w] = back]

\* The guarded write returns an error: the row may have been written all the
\* same, and a poller does not bill.
WriteError(t, from, new) ==
    /\ Fault
    /\ \/ UNCHANGED <<row, lost>>
       \/ Won(t, from) /\ row' = [row EXCEPT ![t] = new] /\ Lose(t)

-----------------------------------------------------------------------------
(* A poller *)

\* Mutant: the sweep passes over tasks that never started.
SweepLoadStarted(w) ==
    /\ at[w] = "idle"
    /\ batch' = [batch EXCEPT ![w] = Load({t \in Unfinished \cap old : row[t].status = "IN_PROGRESS"})]
    /\ Goto(w, "sweep")
    /\ UNCHANGED <<row, world, money, then, held, lost, faults>>

\* sweepTimedOutTasks: load, then one task after the other.
SweepLoad(w) ==
    /\ at[w] = "idle"
    /\ batch' = [batch EXCEPT ![w] = IF "timeout" \in Conditions THEN Load(Unfinished \cap old)
                                     ELSE NoRows]
    /\ Goto(w, "sweep")
    /\ UNCHANGED <<row, world, money, then, held, lost, faults>>

\* The loaded row r of t goes to FAILURE, with a refund if this worker won.
FailAndRefund(w, t, r, refundable, back) ==
    /\ batch' = [batch EXCEPT ![w] = Rest(w, t)]
    /\ \/ /\ UpdateWithStatus(t, r.status, Failed(r))
          /\ IF Won(t, r.status) /\ refundable /\ r.quota # 0
             THEN Bill(w, t, r, Failed(r), "refund", back)
             ELSE Leave(w, back)
          /\ UNCHANGED <<lost, faults>>
       \/ WriteError(t, r.status, Failed(r)) /\ Leave(w, back)
    /\ UNCHANGED <<world, money>>

SweepTask(w) ==
    /\ at[w] = "sweep"
    /\ \E t \in DOMAIN batch[w] : FailAndRefund(w, t, batch[w][t], ~IsLegacy, "sweep")

\* GetAllUnFinishSyncTasks, when the sweep is through.
PollLoad(w) ==
    /\ at[w] = "sweep" /\ batch[w] = NoRows
    /\ batch' = [batch EXCEPT ![w] = Load(Unfinished)]
    /\ Goto(w, "poll")
    /\ UNCHANGED <<row, world, money, then, held, lost, faults>>

PollDone(w) ==
    /\ at[w] = "poll" /\ batch[w] = NoRows
    /\ Goto(w, "idle")
    /\ UNCHANGED <<row, world, money, then, batch, held, lost, faults>>

\* failTaskAndRefund: there is no upstream id, or the channel is gone.
failTaskAndRefund(w) ==
    /\ at[w] = "poll" /\ "flaky" \in Conditions
    /\ \E t \in DOMAIN batch[w] : FailAndRefund(w, t, batch[w][t], TRUE, "poll")

\* What a copy r of the row becomes by the upstream's report on t.
Report(t, r) ==
    {[r EXCEPT !.status = up[t], !.full = up[t] \in Terminal]} \cup
    IF up[t] = "IN_PROGRESS" /\ "earlyFull" \in Conditions
    THEN {[r EXCEPT !.status = "IN_PROGRESS", !.full = TRUE]} ELSE {}

\* updateVideoSingleTask takes an error body, other than 429, for a failure.
PollReport(t, r) ==
    Report(t, r) \cup IF "flaky" \in Conditions /\ t \notin Suno THEN {Failed(r)} ELSE {}

\* The poller asks the upstream for one task.  No usable answer (an error of
\* the call, 429, an unknown status) leaves the task for the next round.
PollAsk(w) ==
    /\ at[w] = "poll"
    /\ \E t \in DOMAIN batch[w] : LET r == batch[w][t] IN
        /\ batch' = [batch EXCEPT ![w] = Rest(w, t)]
        /\ \/ /\ \E new \in PollReport(t, r) : Handle(w, t, r, new)
              /\ Goto(w, "reported")
           \/ UNCHANGED <<at, held>>
    /\ UNCHANGED <<row, world, money, then, lost, faults>>

\* Mutant: a success is settled whether or not the write was won.
PollApplySettlesAlways(w) ==
    /\ at[w] = "reported" /\ w \in Pollers /\ cur[w] \notin Suno
    /\ UpdateWithStatus(cur[w], snap[w].status, mem[w])
    /\ IF mem[w].status = "SUCCESS"
       THEN Bill(w, cur[w], snap[w], mem[w], "settle", "poll")
       ELSE Leave(w, "poll")
    /\ UNCHANGED <<world, money, batch, lost, faults>>

\* updateVideoSingleTask after the answer.  Only who wins the write of a final
\* status settles or refunds.
PollApply(w) ==
    /\ at[w] = "reported" /\ w \in Pollers /\ cur[w] \notin Suno
    /\ LET t == cur[w]
           new == mem[w]
           won == Won(t, snap[w].status)
       IN \/ /\ UpdateWithStatus(t, snap[w].status, new)
             /\ \/ /\ won /\ new.status = "SUCCESS"
                   /\ Bill(w, t, snap[w], new, "settle", "poll")
                \/ /\ won /\ new.status = "FAILURE" /\ new.quota # 0
                   /\ Bill(w, t, snap[w], new, "refund", "poll")
                \/ /\ ~won \/ new.status = "IN_PROGRESS" \/ (new.status = "FAILURE" /\ new.quota = 0)
                   /\ Leave(w, "poll")
             /\ UNCHANGED <<lost, faults>>
          \/ WriteError(t, snap[w].status, new) /\ Leave(w, "poll")
    /\ UNCHANGED <<world, money, batch>>

\* updateSunoTasks: a failure is refunded first, the row is saved afterwards.
\* A success is not settled.
SunoApply(w) ==
    /\ at[w] = "reported" /\ w \in Pollers /\ cur[w] \in Suno
    /\ IF mem[w].full /\ mem[w].status # "SUCCESS" /\ mem[w].quota # 0
       THEN Bill(w, cur[w], snap[w], mem[w], "refund", "save")
       ELSE Goto(w, "save") /\ UNCHANGED <<then, held>>
    /\ UNCHANGED <<row, world, money, batch, lost, faults>>

\* task.Update(): Save without any guard; its error is only logged.
SunoSave(w) ==
    /\ at[w] = "save"
    /\ \/ row' = [row EXCEPT ![cur[w]] = mem[w]] /\ UNCHANGED faults
       \/ Fault /\ UNCHANGED row
    /\ Leave(w, "poll")
    /\ UNCHANGED <<world, money, batch, lost>>

PollerStep(w) ==
    \/ SweepLoad(w) \/ SweepTask(w) \/ PollLoad(w) \/ PollDone(w) \/ failTaskAndRefund(w)
    \/ PollAsk(w) \/ PollApply(w) \/ SunoApply(w) \/ SunoSave(w) \/ BillingStep(w)

-----------------------------------------------------------------------------
(* A user's query of a video task *)

\* The query loads the row, whatever its status.
FetchLoad(w) ==
    /\ at[w] = "idle"
    /\ \E t \in Tasks \ Suno : Stored(t) /\ Handle(w, t, row[t], row[t])
    /\ Goto(w, "fetching")
    /\ UNCHANGED <<row, world, money, then, batch, lost, faults>>

\* The upstream answers, or the query goes on without it.
FetchAsk(w) ==
    /\ at[w] = "fetching"
    /\ \/ /\ \E new \in Report(cur[w], mem[w]) : mem' = [mem EXCEPT ![w] = new]
          /\ Goto(w, "reported")
          /\ UNCHANGED <<cur, snap, then>>
       \/ Leave(w, "idle")
    /\ UNCHANGED <<row, world, money, batch, lost, faults>>

\* tryRealtimeFetch after the answer.  The row is written if its snapshot has
\* changed (the result URL or a time may change alone); an error of the write
\* counts as not won.  The refund asks who won, the settlement does not.
FetchApply(w) ==
    /\ at[w] = "reported" /\ w \in Fetchers
    /\ LET t == cur[w]
           new == mem[w]
           from == snap[w].status
       IN \E write \in {TRUE, new # snap[w]} :
            /\ \/ /\ write
                  /\ UpdateWithStatus(t, from, new)
                  /\ UNCHANGED <<lost, faults>>
               \/ /\ write
                  /\ WriteError(t, from, new)
               \/ ~write /\ UNCHANGED <<row, lost, faults>>
            /\ \/ /\ new.status = "SUCCESS" /\ from # "SUCCESS"
                  /\ Bill(w, t, snap[w], new, "settle", "idle")
               \/ /\ new.status = "FAILURE" /\ from # "FAILURE" /\ new.quota # 0
                  /\ write /\ Won(t, from) /\ faults' = faults
                  /\ Bill(w, t, snap[w], new, "refund", "idle")
               \/ /\ new.status \in Terminal =>
                        \/ new.status = from
                        \/ new.status = "FAILURE" /\ ~(new.quota # 0 /\ Won(t, from) /\ faults' = faults)
                  /\ Leave(w, "idle")
    /\ UNCHANGED <<world, money, batch>>

FetcherStep(w) == FetchLoad(w) \/ FetchAsk(w) \/ FetchApply(w) \/ BillingStep(w)

-----------------------------------------------------------------------------
\* The process of a worker stops and is started again: what it held is gone.
Crash(w) ==
    /\ at[w] # "idle"
    /\ Fault
    /\ lost' = IF at[w] \in Billing /\ then[w] # "save" THEN lost \cup {cur[w]} ELSE lost
    /\ batch' = [batch EXCEPT ![w] = NoRows]
    /\ Leave(w, "idle")
    /\ UNCHANGED <<row, world, money>>

World == \E t \in Tasks : Submit(t) \/ UpstreamMoves(t) \/ Age(t)

Next ==
    \/ World
    \/ \E w \in Pollers \cap scene.workers : PollerStep(w)
    \/ \E w \in Fetchers \cap scene.workers : FetcherStep(w)
    \/ \E w \in scene.workers : Crash(w)

\* The polling loops run for ever and time passes.  Nothing makes the upstream
\* finish a task or users ask for it.
Fairness ==
    /\ \A w \in Pollers : WF_vars(w \in scene.workers /\ PollerStep(w))
    /\ \A t \in Tasks : WF_vars(Age(t))

Spec == Init /\ [][Next]_vars /\ Fairness

-----------------------------------------------------------------------------
(* Properties *)

TypeOK ==
    /\ scene \in Scenarios
    /\ row \in [Tasks -> Rows \cup {NoTask}]
    /\ up \in [Tasks -> {"IN_PROGRESS"} \cup Terminal]
    /\ old \subseteq Tasks
    /\ charged \in [Tasks -> [Accounts -> Int]]
    /\ shares \in [Tasks -> Nat]
    /\ at \in [Workers -> Steps]
    /\ then \in [Workers -> {"idle", "sweep", "poll", "save"}]
    /\ \A w \in Workers : DOMAIN batch[w] \subseteq Tasks
                          /\ \A t \in DOMAIN batch[w] : batch[w][t] \in Rows
    /\ cur \in [Workers -> Tasks]
    /\ snap \in [Workers -> Rows \cup {NoTask}]
    /\ mem \in [Workers -> Rows \cup {NoTask}]
    /\ lost \subseteq Tasks
    /\ faults \in Nat

Bills(w, t) == at[w] \in Billing /\ cur[w] = t
InBilling(t) == \E w \in Workers : Bills(w, t)

\* Between billing steps the columns agree with the tasks table: a failed task
\* costs nothing (or, if the sweep found it legacy, still its quota), any other
\* exactly the quota its row says, on both accounts.
Costs(t, q) == \A a \in Accounts : charged[t][a] = q
CostsWhatRowSays ==
    \A t \in Tasks \ lost : Stored(t) /\ ~InBilling(t) =>
        \/ row[t].status # "FAILURE" /\ Costs(t, row[t].quota)
        \/ row[t].status = "FAILURE" /\ Costs(t, 0)
        \/ row[t].status = "FAILURE" /\ IsLegacy /\ t \in old /\ Costs(t, row[t].quota)

\* No task ever gives back more than it cost, however its workers race,
\* crash and repeat.
NeverRefundsMore ==
    \A t \in Tasks, a \in Accounts : charged[t][a] >= 0

\* At most one profit share is posted for a task: "only who won the
\* transition into SUCCESS settles, to avoid repeated settlement and sharing".
ShareOnce == \A t \in Tasks : shares[t] <= 1

\* The same among pollers, for a task that no user asks for meanwhile.
PollersShareOnce == scene.workers \subseteq Pollers => ShareOnce

\* A task that is SUCCESS or FAILURE stays so.
FinalStaysFinal ==
    [][\A t \in Tasks : row[t].status \in Terminal => row'[t].status = row[t].status]_vars

\* A stored task is eventually SUCCESS or FAILURE, even when the upstream never
\* finishes it and it is not among the first Limit rows.
EventuallyFinal ==
    \A t \in Tasks : Stored(t) ~> row[t].status \in Terminal

=============================================================================
