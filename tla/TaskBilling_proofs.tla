---------------------------- MODULE TaskBilling_proofs ----------------------------
(***************************************************************************)
(* The guarded write makes any number of pollers bill any number of video  *)
(* tasks once, through any number of failing statements and crashes.       *)
(* Users' queries do no harm where tasks are billed per call and fail only *)
(* when the upstream says so.                                              *)
(***************************************************************************)
EXTENDS TaskBilling, TLAPS

\* Nobody asks for tasks, which are charged what they were submitted with.
Polled(s) == s.workers \subseteq Pollers /\ "refusal" \notin s.conditions

\* Users may ask too; tasks keep their estimate and fail only at the upstream.
Queried(s) == s.actual = 0 /\ s.conditions \subseteq {"earlyFull"}

VideoTasks == Suno = {} /\ \A s \in Scenarios : Polled(s) \/ Queried(s)

\* The behaviour at hand is of the one kind or of the other.
VideoPollers == Suno = {} /\ Polled(scene)
VideoQueries == Suno = {} /\ Queried(scene)

-----------------------------------------------------------------------------
(* The inductive invariant *)

\* A copy of the row of t that was loaded while t was unfinished: as long as it
\* is, the quota in the copy is the one in the row.
Copy(t, r) ==
  /\ r \in Rows /\ r.status \in Live /\ row[t] \in Rows
  /\ row[t].status \in Live => r.quota = row[t].quota

\* w is in its sweep, or bills a task that the sweep found.
Sweeping(w) == at[w] = "sweep" \/ (at[w] \in Billing /\ then[w] = "sweep")

Refunding == {"refund", "refundToken"}

\* What a worker holds is an old copy of a row; when it bills, the row is final.
WorkerInv(w) ==
  /\ at[w] \in {"idle", "sweep", "poll", "reported"} \cup Billing
  /\ DOMAIN batch[w] \subseteq Tasks
  /\ \A t \in DOMAIN batch[w] : Copy(t, batch[w][t])
  /\ Sweeping(w) => DOMAIN batch[w] \subseteq old
  /\ at[w] = "reported" =>
       /\ cur[w] \in Tasks /\ Copy(cur[w], snap[w])
       /\ mem[w] \in Rows /\ mem[w].quota = snap[w].quota
       /\ mem[w].status \in {"IN_PROGRESS"} \cup Terminal
  /\ at[w] \in Billing =>
       /\ cur[w] \in Tasks /\ mem[w] \in Rows /\ row[cur[w]] \in Rows
       /\ then[w] \in {"sweep", "poll"}
       /\ row[cur[w]].status = IF at[w] \in Refunding THEN "FAILURE" ELSE "SUCCESS"

\* How far the worker that bills t has come.  A step that went wrong (t is in
\* lost) leaves the last amounts open.
BillInv(w, t) ==
  /\ at[w] \in {"refund", "settle"} => Costs(t, mem[w].quota)
  /\ at[w] = "refundToken" => charged[t]["funding"] = 0 /\ charged[t]["token"] = mem[w].quota
  /\ at[w] \in {"settle", "settleToken"} => row[t].quota = mem[w].quota
  /\ at[w] = "settleToken" => Actual > 0 /\ charged[t]["funding"] = Actual /\ charged[t]["token"] = mem[w].quota
  /\ at[w] = "saveQuota" /\ t \notin lost => Costs(t, Actual)
  /\ at[w] = "share" /\ t \notin lost => Costs(t, row[t].quota)
  /\ at[w] \notin Refunding => shares[t] = 0

\* A task costs its quota until it is final; then one worker bills it.
MoneyInv(t) ==
  /\ \A a \in Accounts : charged[t][a] >= 0
  /\ shares[t] <= 1
  /\ row[t] \notin Rows => shares[t] = 0
  /\ row[t].status \in Live => Costs(t, row[t].quota) /\ shares[t] = 0
  /\ \A w \in Workers : Bills(w, t) => BillInv(w, t)
  /\ \A v, w \in Workers : Bills(v, t) /\ Bills(w, t) => v = w
  /\ row[t] \in Rows /\ t \notin lost /\ ~InBilling(t) =>
       \/ row[t].status # "FAILURE" /\ Costs(t, row[t].quota)
       \/ row[t].status = "FAILURE" /\ Costs(t, 0)
       \/ row[t].status = "FAILURE" /\ IsLegacy /\ t \in old /\ Costs(t, row[t].quota)

TypeInv ==
  /\ scene \in Scenarios
  /\ row \in [Tasks -> Rows \cup {NoTask}]
  /\ old \subseteq Tasks /\ lost \subseteq Tasks
  /\ up \in [Tasks -> {"IN_PROGRESS"} \cup Terminal]
  /\ charged \in [Tasks -> [Accounts -> Int]]
  /\ shares \in [Tasks -> Nat]
  /\ at \in [Workers -> Steps] /\ then \in [Workers -> {"idle", "sweep", "poll", "save"}]
  /\ cur \in [Workers -> Tasks \cup {NoOne}] /\ DOMAIN batch = Workers
  /\ snap \in [Workers -> Rows \cup {NoTask}] /\ mem \in [Workers -> Rows \cup {NoTask}]

IInv == TypeInv /\ (\A w \in Workers : WorkerInv(w)) /\ (\A t \in Tasks : MoneyInv(t))

-----------------------------------------------------------------------------
(* What a step does to the workers and tasks that it is not about *)

\* The row of t, once final, keeps its status; before, a write keeps its quota
\* unless it makes it final.
RowStep(t) ==
  \/ row'[t] = row[t]
  \/ row[t] = NoTask /\ row'[t] \in Rows
  \/ /\ row[t] \in Rows /\ row'[t] \in Rows /\ row[t].status \in Live
     /\ row'[t].status \in Live => row'[t].quota = row[t].quota
  \/ /\ row[t] \in Rows /\ row'[t] \in Rows /\ row[t].status \in Terminal
     /\ row'[t].status = row[t].status

SameWorker(v) ==
  /\ at'[v] = at[v] /\ then'[v] = then[v] /\ batch'[v] = batch[v]
  /\ cur'[v] = cur[v] /\ snap'[v] = snap[v] /\ mem'[v] = mem[v]

SameTask(u) ==
  /\ row'[u] = row[u] /\ charged'[u] = charged[u] /\ shares'[u] = shares[u]
  /\ u \in lost' <=> u \in lost

\* NoTask is no row of the table, and a status is live or final.
LEMMA RowFacts ==
  /\ NoTask \notin Rows
  /\ \A r \in Rows : r.status \in Live \cup Terminal /\ r.quota \in Nat
  /\ \A r \in Rows : r.status \in Live => r.status \notin Terminal
  /\ NoTask.status \notin Live \cup Terminal
BY DEF NoTask, Rows, Live, Terminal

\* A copy stays one.
LEMMA CopyStays ==
  ASSUME NEW t \in Tasks, NEW r, Copy(t, r), RowStep(t)
  PROVE  Copy(t, r)'
BY RowFacts DEF Copy, RowStep

\* A worker that is left alone keeps its invariant.
LEMMA OtherWorkers ==
  ASSUME NEW v \in Workers, WorkerInv(v), SameWorker(v), \A t \in Tasks : RowStep(t), old \subseteq old'
  PROVE  WorkerInv(v)'
<1>1. \A t \in Tasks : \A r : Copy(t, r) => Copy(t, r)'
  BY CopyStays
<1>2. \A t \in Tasks : row[t] \in Rows /\ row[t].status \in Terminal =>
         row'[t] \in Rows /\ row'[t].status = row[t].status
  BY RowFacts DEF RowStep
<1>3. DOMAIN batch'[v] \subseteq Tasks /\ \A t \in DOMAIN batch'[v] : Copy(t, batch[v][t])'
  BY <1>1 DEF WorkerInv, SameWorker
<1>4. Sweeping(v)' => DOMAIN batch'[v] \subseteq old'
  BY DEF WorkerInv, SameWorker, Sweeping
<1>5. at'[v] = "reported" =>
       /\ cur'[v] \in Tasks /\ Copy(cur[v], snap[v])'
       /\ mem'[v] \in Rows /\ mem'[v].quota = snap'[v].quota
       /\ mem'[v].status \in {"IN_PROGRESS"} \cup Terminal
  BY <1>1 DEF WorkerInv, SameWorker
<1>6. at'[v] \in Billing =>
       /\ cur'[v] \in Tasks /\ mem'[v] \in Rows /\ row'[cur'[v]] \in Rows
       /\ then'[v] \in {"sweep", "poll"}
       /\ row'[cur'[v]].status = IF at'[v] \in Refunding THEN "FAILURE" ELSE "SUCCESS"
  BY <1>2 DEF WorkerInv, SameWorker, Terminal
<1> QED
  BY <1>3, <1>4, <1>5, <1>6 DEF WorkerInv, SameWorker

\* So does a task that is left alone and whose bill nobody takes or leaves.
LEMMA OtherTasks ==
  ASSUME NEW u \in Tasks, MoneyInv(u), SameTask(u), scene' = scene, old \subseteq old',
         \A v \in Workers : /\ Bills(v, u)' <=> Bills(v, u)
                            /\ Bills(v, u) => at'[v] = at[v] /\ mem'[v] = mem[v]
  PROVE  MoneyInv(u)'
<1>1. \A q : Costs(u, q)' <=> Costs(u, q)
  BY DEF Costs, SameTask
<1>2. InBilling(u)' <=> InBilling(u)
  BY DEF InBilling
<1>3. \A v \in Workers : Bills(v, u)' => BillInv(v, u)'
  BY DEF MoneyInv, BillInv, Costs, SameTask, Actual
<1>4. IsLegacy' <=> IsLegacy
  BY DEF IsLegacy
<1>5. \A v, w \in Workers : Bills(v, u)' /\ Bills(w, u)' => v = w
  BY DEF MoneyInv
<1>6. (row[u] \in Rows /\ u \notin lost /\ ~InBilling(u))' =>
       \/ (row[u].status # "FAILURE" /\ Costs(u, row[u].quota))'
       \/ (row[u].status = "FAILURE" /\ Costs(u, 0))'
       \/ (row[u].status = "FAILURE" /\ IsLegacy /\ u \in old /\ Costs(u, row[u].quota))'
  BY <1>1, <1>2, <1>4 DEF MoneyInv, SameTask
<1> QED
  BY <1>1, <1>3, <1>5, <1>6 DEF MoneyInv, SameTask

\* A step of w about t, if it does its part, keeps the invariant.
StepOK(w, t) ==
  /\ TypeInv' /\ scene' = scene /\ old' = old
  /\ \A v \in Workers \ {w} : SameWorker(v)
  /\ \A u \in Tasks \ {t} : SameTask(u)
  /\ at[w] \in Billing => cur[w] = t
  /\ at'[w] \in Billing => cur'[w] = t
  /\ RowStep(t) /\ WorkerInv(w)' /\ MoneyInv(t)'

\* The other workers and tasks keep theirs.
LEMMA StepKeeps ==
  ASSUME IInv, NEW w \in Workers, NEW t \in Tasks, StepOK(w, t)
  PROVE  IInv'
<1>1. \A u \in Tasks : RowStep(u)
  BY DEF StepOK, SameTask, RowStep
<1>2. ASSUME NEW v \in Workers PROVE WorkerInv(v)'
  BY <1>1, OtherWorkers DEF IInv, StepOK
<1>3. ASSUME NEW u \in Tasks PROVE MoneyInv(u)'
  <2>1. CASE u # t
    <3>1. \A v \in Workers : /\ Bills(v, u)' <=> Bills(v, u)
                             /\ Bills(v, u) => at'[v] = at[v] /\ mem'[v] = mem[v]
      BY <2>1 DEF StepOK, SameWorker, Bills
    <3> QED
      BY <2>1, <3>1, OtherTasks DEF StepOK, IInv
  <2> QED
    BY <2>1 DEF StepOK
<1> QED
  BY <1>2, <1>3 DEF IInv, StepOK

\* A step of w that only moves w, which bills nothing before and after.
LEMMA QuietKeeps ==
  ASSUME IInv, NEW w \in Workers, TypeInv', UNCHANGED <<scene, row, charged, shares, lost, old>>,
         \A v \in Workers \ {w} : SameWorker(v),
         at[w] \notin Billing, at'[w] \notin Billing, WorkerInv(w)'
  PROVE  IInv'
<1>1. \A u \in Tasks : RowStep(u) /\ SameTask(u)
  BY DEF SameTask, RowStep
<1>2. ASSUME NEW v \in Workers PROVE WorkerInv(v)'
  BY <1>1, OtherWorkers DEF IInv
<1>3. ASSUME NEW u \in Tasks PROVE MoneyInv(u)'
  <2>1. \A v \in Workers : /\ Bills(v, u)' <=> Bills(v, u)
                           /\ Bills(v, u) => at'[v] = at[v] /\ mem'[v] = mem[v]
    BY DEF SameWorker, Bills
  <2> QED
    BY <1>1, <2>1, OtherTasks DEF IInv
<1> QED
  BY <1>2, <1>3 DEF IInv

-----------------------------------------------------------------------------
(* Steps that only move a worker, and steps of the environment *)

\* Rows come into the table with a submission, tasks get old and are finished by
\* the upstream: what they cost is as it was.
LEMMA WorldKeeps ==
  ASSUME IInv, VideoPollers, World
  PROVE  IInv'
<1> USE RowFacts
<1>s. scene' = scene /\ (\A v \in Workers : SameWorker(v)) /\ old \subseteq old'
  BY DEF World, Submit, UpstreamMoves, Age, world, held, SameWorker
<1>1. ASSUME NEW t \in Tasks, Submit(t) PROVE IInv'
  <2>1. PICK q \in Quotas :
          /\ \E p \in Quotas :
              /\ p = q \/ ("refusal" \in Conditions /\ p < q)
              /\ charged' = [charged EXCEPT ![t] = [a \in Accounts |-> p]]
          /\ \/ /\ row' = [row EXCEPT ![t] = [status |-> "NOT_START", quota |-> q, full |-> FALSE]]
                /\ UNCHANGED <<lost, faults>>
             \/ Fault /\ Lose(t) /\ UNCHANGED row
    BY <1>1 DEF Submit
  <2>2. "refusal" \notin Conditions
    BY DEF VideoPollers, Polled, Conditions
  <2>3. charged' = [charged EXCEPT ![t] = [a \in Accounts |-> q]]
    BY <2>1, <2>2
  <2>4. q \in Nat /\ row[t] = NoTask /\ row[t].status \notin Live \cup Terminal
    BY <1>1, TaskAssumption DEF Submit, Stored
  <2>5. UNCHANGED <<shares, at, then, batch, cur, snap, mem, up, old>>
    BY <1>1 DEF Submit, held, world
  <2>6. DEFINE new == [status |-> "NOT_START", quota |-> q, full |-> FALSE]
  <2>7. new \in Rows /\ new.status \in Live /\ new.status # "FAILURE" /\ new.quota = q
    BY <2>4 DEF Rows, Live
  <2> HIDE DEF new
  <2>8. \/ row' = [row EXCEPT ![t] = new] /\ lost' = lost
        \/ row' = row /\ lost' = lost \cup {t}
    BY <2>1 DEF new, Lose
  <2>9. row'[t] \in {new, NoTask} /\ (row'[t] = new => lost' = lost) /\ \A u \in Tasks : u # t => SameTask(u)
    <3>1. row \in [Tasks -> Rows \cup {NoTask}] /\ charged \in [Tasks -> [Accounts -> Int]] /\ new # NoTask
      BY <2>7 DEF IInv, TypeInv
    <3>2. \A u \in Tasks : u # t => SameTask(u)
      BY <2>3, <2>5, <2>8, <3>1 DEF SameTask
    <3>3. CASE row' = [row EXCEPT ![t] = new] /\ lost' = lost
      BY <3>1, <3>2, <3>3
    <3>4. CASE row' = row
      BY <2>4, <3>1, <3>2, <3>4
    <3> QED
      BY <2>8, <3>3, <3>4
  <2>10. Costs(t, q)' /\ \A a \in Accounts : charged'[t][a] = q
    BY <2>3 DEF IInv, TypeInv, Costs
  <2>11. TypeInv'
    <3>1. [a \in Accounts |-> q] \in [Accounts -> Int]
      BY <2>4
    <3>2. charged' \in [Tasks -> [Accounts -> Int]]
      BY <2>3, <3>1 DEF IInv, TypeInv
    <3> QED
      BY <1>s, <2>5, <2>7, <2>8, <3>2 DEF IInv, TypeInv
  <2>12. \A u \in Tasks : RowStep(u)
    BY <2>4, <2>7, <2>9 DEF RowStep, SameTask
  <2>13. \A v \in Workers : WorkerInv(v)'
    BY <1>s, <2>12, OtherWorkers DEF IInv
  <2>14. \A v \in Workers : ~Bills(v, t) /\ ~Bills(v, t)'
    BY <2>4, <2>5 DEF IInv, WorkerInv, Bills
  <2>15. MoneyInv(t)'
    BY <2>4, <2>5, <2>7, <2>9, <2>10, <2>14 DEF IInv, MoneyInv
  <2>16. ASSUME NEW u \in Tasks, u # t PROVE MoneyInv(u)'
    BY <1>s, <2>5, <2>9, <2>16, OtherTasks DEF IInv, Bills
  <2> QED
    BY <2>11, <2>13, <2>15, <2>16 DEF IInv
<1>2. ASSUME NEW t \in Tasks, UpstreamMoves(t) \/ Age(t) PROVE IInv'
  <2>1. UNCHANGED <<row, charged, shares, at, then, batch, cur, snap, mem, lost>>
    BY <1>2 DEF UpstreamMoves, Age, money, held
  <2>2. TypeInv'
    BY <1>s, <1>2, <2>1 DEF UpstreamMoves, Age, IInv, TypeInv
  <2>3. \A u \in Tasks : RowStep(u) /\ SameTask(u)
    BY <2>1 DEF RowStep, SameTask
  <2>4. \A v \in Workers : WorkerInv(v)'
    BY <1>s, <2>3, OtherWorkers DEF IInv
  <2>5. ASSUME NEW u \in Tasks PROVE MoneyInv(u)'
    BY <1>s, <2>1, <2>3, OtherTasks DEF IInv, Bills
  <2> QED
    BY <2>2, <2>4, <2>5 DEF IInv
<1> QED
  BY <1>1, <1>2 DEF World

\* What is loaded is a copy of unfinished rows.
LEMMA LoadCopies ==
  ASSUME IInv, NEW S, S \subseteq Unfinished
  PROVE  DOMAIN Load(S) \subseteq S /\ S \subseteq Tasks /\ \A t \in DOMAIN Load(S) : Copy(t, Load(S)[t])
BY RowFacts DEF Load, FirstOf, Unfinished, Copy, IInv, TypeInv

\* What a report, or a failure, makes of a copy.
LEMMA ChangedRow ==
  ASSUME NEW r \in Rows, NEW s \in Live \cup Terminal, NEW f \in BOOLEAN
  PROVE  /\ [r EXCEPT !.status = s, !.full = f] \in Rows
         /\ [r EXCEPT !.status = s, !.full = f].quota = r.quota
         /\ [r EXCEPT !.status = s, !.full = f].status = s
BY DEF Rows

\* A poller loads rows, or takes one of them to the upstream.
LEMMA PollerMoves ==
  ASSUME IInv, NEW w \in Workers, SweepLoad(w) \/ PollLoad(w) \/ PollDone(w) \/ PollAsk(w)
  PROVE  IInv'
<1> USE RowFacts
<1>t. TypeInv /\ WorkerInv(w)
  BY DEF IInv
<1>s. UNCHANGED <<scene, row, charged, shares, lost, old, up, then>>
  BY DEF SweepLoad, PollLoad, PollDone, PollAsk, world, money
<1>c. \A t, r : Copy(t, r)' <=> Copy(t, r)
  BY <1>s DEF Copy
<1>1. ASSUME NEW S, S \subseteq Unfinished, NEW b, b = Load(S) \/ b = NoRows, NEW s \in {"sweep", "poll"},
             s = "sweep" => S \subseteq old,
             at[w] \in {"idle", "sweep"}, batch' = [batch EXCEPT ![w] = b], Goto(w, s), UNCHANGED held
      PROVE  IInv'
  <2>1. DOMAIN b \subseteq S /\ \A t \in DOMAIN b : t \in Tasks /\ Copy(t, b[t])
    BY <1>1, LoadCopies DEF NoRows
  <2>2. at'[w] = s /\ batch'[w] = b
    BY <1>1, <1>t DEF Goto, TypeInv
  <2>3. WorkerInv(w)'
    BY <1>1, <1>c, <1>s, <2>1, <2>2 DEF WorkerInv, Sweeping, Billing
  <2>4. TypeInv'
    BY <1>1, <1>t, <1>s DEF TypeInv, Goto, Steps, held
  <2>5. \A v \in Workers \ {w} : SameWorker(v)
    BY <1>1, <1>t, <1>s DEF TypeInv, Goto, SameWorker, held
  <2> QED
    BY <1>1, <1>s, <2>2, <2>3, <2>4, <2>5, QuietKeeps DEF Billing
<1>2. CASE SweepLoad(w)
  BY <1>1, <1>2 DEF SweepLoad, Unfinished
<1>3. CASE PollLoad(w)
  BY <1>1, <1>3 DEF PollLoad
<1>4. CASE PollDone(w)
  <2>1. at[w] = "poll" /\ at'[w] = "idle"
    BY <1>4, <1>t DEF PollDone, Goto, TypeInv
  <2>2. UNCHANGED <<batch, cur, snap, mem>>
    BY <1>4 DEF PollDone, held
  <2>3. WorkerInv(w)'
    BY <1>t, <1>c, <1>s, <2>1, <2>2 DEF WorkerInv, Sweeping, Billing
  <2>4. TypeInv' /\ \A v \in Workers \ {w} : SameWorker(v)
    BY <1>4, <1>t, <1>s, <2>2 DEF PollDone, TypeInv, Goto, Steps, SameWorker
  <2> QED
    BY <1>s, <2>1, <2>3, <2>4, QuietKeeps DEF Billing
<1>5. CASE PollAsk(w)
  <2>1. PICK t \in DOMAIN batch[w] :
          /\ batch' = [batch EXCEPT ![w] = Rest(w, t)]
          /\ \/ /\ \E new \in PollReport(t, batch[w][t]) : Handle(w, t, batch[w][t], new)
                /\ Goto(w, "reported")
             \/ UNCHANGED <<at, held>>
    BY <1>5 DEF PollAsk
  <2>2. at[w] = "poll" /\ t \in Tasks /\ Copy(t, batch[w][t])
    BY <1>5, <1>t DEF PollAsk, WorkerInv
  <2>3. batch'[w] = Rest(w, t) /\ DOMAIN batch' = Workers /\ \A v \in Workers \ {w} : batch'[v] = batch[v]
    BY <1>t, <2>1 DEF TypeInv
  <2>4. DOMAIN batch'[w] \subseteq Tasks /\ \A u \in DOMAIN batch'[w] : Copy(u, batch'[w][u])
    BY <1>t, <2>3 DEF Rest, WorkerInv
  <2>5. CASE UNCHANGED <<at, held>>
    <3>1. WorkerInv(w)'
      BY <1>t, <1>c, <1>s, <2>2, <2>4, <2>5 DEF WorkerInv, Sweeping, Billing, held
    <3>2. TypeInv' /\ \A v \in Workers \ {w} : SameWorker(v)
      BY <1>t, <1>s, <2>3, <2>5 DEF TypeInv, SameWorker, held
    <3> QED
      BY <1>s, <2>2, <2>5, <3>1, <3>2, QuietKeeps DEF Billing
  <2>6. ASSUME NEW new \in PollReport(t, batch[w][t]), Handle(w, t, batch[w][t], new), Goto(w, "reported")
        PROVE  IInv'
    <3>1. batch[w][t] \in Rows /\ up[t] \in {"IN_PROGRESS"} \cup Terminal
      BY <1>t, <2>2 DEF Copy, TypeInv
    <3>2. new \in Rows /\ new.quota = batch[w][t].quota /\ new.status \in {"IN_PROGRESS"} \cup Terminal
      <4>1. "IN_PROGRESS" \in Live \cup Terminal /\ "FAILURE" \in Terminal
            /\ "FAILURE" \in Live \cup Terminal /\ up[t] \in Live \cup Terminal
        BY <3>1 DEF Live, Terminal
      <4>2. ASSUME NEW f \in BOOLEAN, new = [batch[w][t] EXCEPT !.status = up[t], !.full = f]
            PROVE  new \in Rows /\ new.quota = batch[w][t].quota /\ new.status \in {"IN_PROGRESS"} \cup Terminal
        <5>1. CASE f = TRUE
          <6>1. new = [batch[w][t] EXCEPT !.status = up[t], !.full = TRUE]
            BY <4>2, <5>1
          <6> QED
            BY <3>1, <4>1, <6>1, ChangedRow
        <5>2. CASE f = FALSE
          <6>1. new = [batch[w][t] EXCEPT !.status = up[t], !.full = FALSE]
            BY <4>2, <5>2
          <6> QED
            BY <3>1, <4>1, <6>1, ChangedRow
        <5> QED
          BY <5>1, <5>2
      <4>3. CASE new = [batch[w][t] EXCEPT !.status = up[t], !.full = up[t] \in Terminal]
        <5>1. (up[t] \in Terminal) \in BOOLEAN
          OBVIOUS
        <5> QED
          BY <4>2, <4>3, <5>1, Zenon
      <4>4. CASE new = [batch[w][t] EXCEPT !.status = "IN_PROGRESS", !.full = TRUE]
        BY <3>1, <4>1, <4>4, ChangedRow
      <4>5. CASE new = [batch[w][t] EXCEPT !.status = "FAILURE", !.full = TRUE]
        BY <3>1, <4>1, <4>5, ChangedRow
      <4> QED
        BY <2>6, <4>3, <4>4, <4>5, Zenon DEF PollReport, Report, Failed
    <3>3. at'[w] = "reported" /\ cur'[w] = t /\ snap'[w] = batch[w][t] /\ mem'[w] = new
      BY <1>t, <2>6 DEF TypeInv, Goto, Handle
    <3>4. WorkerInv(w)'
      BY <1>c, <2>2, <2>4, <3>2, <3>3 DEF WorkerInv, Sweeping, Billing
    <3>5. TypeInv' /\ \A v \in Workers \ {w} : SameWorker(v)
      BY <1>t, <1>s, <2>2, <2>3, <2>6, <3>1, <3>2 DEF TypeInv, SameWorker, Goto, Handle, Steps
    <3> QED
      BY <1>s, <2>2, <3>3, <3>4, <3>5, QuietKeeps DEF Billing
  <2> QED
    BY <2>1, <2>5, <2>6
<1> QED
  BY <1>2, <1>3, <1>4, <1>5

-----------------------------------------------------------------------------
(* The guarded write *)

\* w writes new, made of its copy r, over the row of t: it loses, or wins and
\* bills, or wins and has nothing to bill (or an error that hides that it won).
Writes(w, t, r, new) ==
  \/ row' = row /\ lost' = lost /\ at'[w] \in {"sweep", "poll"}
  \/ /\ Won(t, r.status) /\ row' = [row EXCEPT ![t] = new]
     /\ at'[w] = IF new.status = "FAILURE" THEN "refund" ELSE "settle"
     /\ new.status \in Terminal /\ cur'[w] = t /\ mem'[w] = new /\ lost' = lost
     /\ then'[w] \in {"sweep", "poll"}
  \/ /\ Won(t, r.status) /\ row' = [row EXCEPT ![t] = new]
     /\ at'[w] \in {"sweep", "poll"} /\ lost' \in {lost, lost \cup {t}}
     /\ \/ t \in lost' \/ new.status \in Live
        \/ new.status = "FAILURE" /\ (new.quota = 0 \/ (IsLegacy /\ t \in old))

\* It finds t unbilled if it wins, and bills it alone.
LEMMA GuardedWrite ==
  ASSUME IInv, NEW w \in Workers, NEW t \in Tasks, NEW r, Copy(t, r),
         NEW new \in Rows, new.quota = r.quota, Writes(w, t, r, new),
         TypeInv', UNCHANGED <<scene, charged, shares, old>>,
         at[w] \notin Billing, Sweeping(w)' => Sweeping(w),
         DOMAIN batch'[w] \subseteq DOMAIN batch[w],
         \A u \in DOMAIN batch'[w] : batch'[w][u] = batch[w][u],
         \A v \in Workers \ {w} : SameWorker(v)
  PROVE  IInv'
<1> USE RowFacts
<1>t. TypeInv /\ WorkerInv(w) /\ MoneyInv(t) /\ row[t] \in Rows
  BY DEF IInv, Copy
<1>b. Billing \cap {"sweep", "poll", "idle", "reported"} = {} /\ {"refund", "settle"} \subseteq Billing
  BY DEF Billing
<1>1. RowStep(t)
  BY <1>t DEF Writes, RowStep, Copy, TypeInv, Won
<1>2. \A u \in Tasks \ {t} : SameTask(u)
  BY <1>t DEF Writes, SameTask, TypeInv
<1>3. WorkerInv(w)'
  <2>1. \A u \in Tasks : RowStep(u)
    BY <1>1, <1>2 DEF SameTask, RowStep
  <2>2. \A u \in DOMAIN batch'[w] : u \in Tasks /\ Copy(u, batch[w][u])'
    BY <1>t, <2>1, CopyStays DEF WorkerInv
  <2>3. DOMAIN batch'[w] \subseteq Tasks
    BY <2>2
  <2>4. Sweeping(w)' => DOMAIN batch'[w] \subseteq old'
    BY <1>t DEF WorkerInv
  <2>5. at'[w] \in {"sweep", "poll", "refund", "settle"}
    BY DEF Writes
  <2>6. at'[w] \in Billing =>
         /\ cur'[w] \in Tasks /\ mem'[w] \in Rows /\ row'[cur'[w]] \in Rows
         /\ then'[w] \in {"sweep", "poll"}
         /\ row'[cur'[w]].status = IF at'[w] \in Refunding THEN "FAILURE" ELSE "SUCCESS"
    BY <1>t, <1>b DEF Writes, TypeInv, Refunding, Terminal
  <2> QED
    BY <1>b, <2>2, <2>3, <2>4, <2>5, <2>6 DEF WorkerInv
<1>4. \A q : Costs(t, q)' <=> Costs(t, q)
  BY DEF Costs
<1>5. MoneyInv(t)'
  <2>1. CASE row' = row /\ lost' = lost /\ at'[w] \in {"sweep", "poll"}
    <3>1. SameTask(t)
      BY <2>1 DEF SameTask
    <3>2. \A v \in Workers : /\ Bills(v, t)' <=> Bills(v, t)
                             /\ Bills(v, t) => at'[v] = at[v] /\ mem'[v] = mem[v]
      BY <1>b, <2>1 DEF SameWorker, Bills
    <3> QED
      BY <1>t, <3>1, <3>2, OtherTasks
  <2>2. CASE Won(t, r.status) /\ row' = [row EXCEPT ![t] = new]
    <3>1. /\ row[t].status \in Live /\ Costs(t, new.quota) /\ shares[t] = 0 /\ row'[t] = new
          /\ row[t].status \notin Terminal
      BY <1>t, <2>2 DEF Won, Copy, MoneyInv, TypeInv
    <3>2. \A v \in Workers : ~Bills(v, t)
      BY <3>1 DEF IInv, WorkerInv, Bills, Terminal
    <3>3. \A v \in Workers \ {w} : ~Bills(v, t)'
      BY <3>2 DEF SameWorker, Bills
    <3>4. /\ \A a \in Accounts : charged'[t][a] >= 0
          /\ shares'[t] = 0 /\ Costs(t, row[t].quota)'
      BY <1>t, <1>4, <3>1 DEF MoneyInv
    <3>5. Bills(w, t)' => BillInv(w, t)'
      BY <1>b, <3>1, <3>4, <2>2 DEF Writes, Bills, BillInv, Refunding
    <3>6. CASE Bills(w, t)'
      BY <3>3, <3>4, <3>5, <3>6 DEF MoneyInv, InBilling
    <3>7. CASE ~Bills(w, t)'
      <4>1. ~InBilling(t)' /\ at'[w] \notin Billing
        BY <1>b, <2>2, <3>3, <3>7, <3>1 DEF InBilling, Writes, Bills
      <4>2. \/ t \in lost' \/ new.status \in Live
            \/ new.status = "FAILURE" /\ (new.quota = 0 \/ (IsLegacy /\ t \in old))
        BY <1>b, <2>2, <3>1, <4>1 DEF Writes
      <4>3. new.status \in Live => new.status # "FAILURE"
        BY DEF Live
      <4> QED
        BY <3>1, <3>3, <3>4, <3>5, <3>7, <4>2, <4>3 DEF MoneyInv, IsLegacy
    <3> QED
      BY <3>6, <3>7
  <2> QED
    BY <2>1, <2>2 DEF Writes
<1> QED
  <2>1. at'[w] \in Billing => cur'[w] = t
    BY <1>b DEF Writes
  <2>2. StepOK(w, t)
    BY <1>1, <1>2, <1>3, <1>5, <2>1 DEF StepOK
  <2> QED
    BY <2>2, StepKeeps


\* The sweep, failTaskAndRefund and updateVideoSingleTask write this way.
LEMMA WritesKeep ==
  ASSUME IInv, VideoPollers, NEW w \in Workers, SweepTask(w) \/ failTaskAndRefund(w) \/ PollApply(w)
  PROVE  IInv'
<1> USE RowFacts
<1>t. TypeInv /\ WorkerInv(w)
  BY DEF IInv
<1>1. ASSUME NEW back \in {"sweep", "poll"}, at[w] = back, NEW t \in DOMAIN batch[w], NEW refundable \in BOOLEAN,
             ~refundable => back = "sweep" /\ IsLegacy,
             FailAndRefund(w, t, batch[w][t], refundable, back)
      PROVE  IInv'
  <2> DEFINE r == batch[w][t]
  <2> DEFINE new == Failed(r)
  <2>1. t \in Tasks /\ Copy(t, r) /\ r \in Rows /\ (back = "sweep" => t \in old)
    BY <1>1, <1>t DEF WorkerInv, Copy, Sweeping
  <2>2. new \in Rows /\ new.quota = r.quota /\ new.status = "FAILURE"
    BY <2>1 DEF Failed, Rows, Terminal
  <2>3. /\ batch' = [batch EXCEPT ![w] = Rest(w, t)]
        /\ \/ /\ UpdateWithStatus(t, r.status, new)
              /\ IF Won(t, r.status) /\ refundable /\ r.quota # 0
                 THEN Bill(w, t, r, new, "refund", back)
                 ELSE Leave(w, back)
              /\ UNCHANGED <<lost, faults>>
           \/ WriteError(t, r.status, new) /\ Leave(w, back)
        /\ UNCHANGED <<world, money>>
    BY <1>1 DEF FailAndRefund
  <2> HIDE DEF r, new
  <2>4. /\ batch'[w] = Rest(w, t) /\ DOMAIN batch' = Workers
        /\ \A v \in Workers \ {w} : batch'[v] = batch[v]
    BY <1>t, <2>3 DEF TypeInv
  <2>5. DOMAIN batch'[w] \subseteq DOMAIN batch[w] /\ \A u \in DOMAIN batch'[w] : batch'[w][u] = batch[w][u]
    BY <2>4 DEF Rest
  <2>6. ASSUME Bill(w, t, r, new, "refund", back)
        PROVE  /\ at'[w] = "refund" /\ cur'[w] = t /\ mem'[w] = new /\ then'[w] = back
               /\ at' \in [Workers -> Steps] /\ then' \in [Workers -> {"idle", "sweep", "poll", "save"}]
               /\ cur' \in [Workers -> Tasks \cup {NoOne}]
               /\ snap' \in [Workers -> Rows \cup {NoTask}] /\ mem' \in [Workers -> Rows \cup {NoTask}]
               /\ \A v \in Workers \ {w} : SameWorker(v)
    BY <1>t, <2>1, <2>2, <2>4, <2>6 DEF Bill, Handle, Goto, TypeInv, Steps, SameWorker
  <2>7. ASSUME Leave(w, back)
        PROVE  /\ at'[w] = back
               /\ at' \in [Workers -> Steps] /\ then' \in [Workers -> {"idle", "sweep", "poll", "save"}]
               /\ cur' \in [Workers -> Tasks \cup {NoOne}]
               /\ snap' \in [Workers -> Rows \cup {NoTask}] /\ mem' \in [Workers -> Rows \cup {NoTask}]
               /\ \A v \in Workers \ {w} : SameWorker(v)
    BY <1>t, <2>4, <2>7 DEF Leave, Drop, Handle, Goto, TypeInv, Steps, SameWorker
  <2>8. Bill(w, t, r, new, "refund", back) \/ Leave(w, back)
    BY <2>3
  <2>9. TypeInv'
    <3>1. row' = row \/ row' = [row EXCEPT ![t] = new]
      BY <2>3 DEF UpdateWithStatus, WriteError
    <3>2. lost' \subseteq Tasks
      BY <1>t, <2>1, <2>3 DEF WriteError, Lose, TypeInv
    <3>3. UNCHANGED <<scene, old, up, charged, shares>>
      BY <2>3 DEF world, money
    <3> QED
      BY <1>t, <2>1, <2>2, <2>4, <2>6, <2>7, <2>8, <3>1, <3>2, <3>3 DEF TypeInv
  <2>10. Writes(w, t, r, new)
    <3>1. CASE UpdateWithStatus(t, r.status, new) /\ Bill(w, t, r, new, "refund", back) /\ Won(t, r.status) /\ lost' = lost
      BY <2>2, <2>6, <3>1 DEF Writes, UpdateWithStatus, Terminal
    <3>2. CASE UpdateWithStatus(t, r.status, new) /\ Leave(w, back) /\ lost' = lost /\ ~Won(t, r.status)
      BY <2>7, <3>2 DEF Writes, UpdateWithStatus
    <3>3. CASE UpdateWithStatus(t, r.status, new) /\ Leave(w, back) /\ lost' = lost /\ Won(t, r.status)
               /\ (~refundable \/ r.quota = 0)
      BY <1>1, <2>1, <2>2, <2>7, <3>3 DEF Writes, UpdateWithStatus
    <3>4. CASE WriteError(t, r.status, new) /\ Leave(w, back)
      BY <2>2, <2>7, <3>4 DEF Writes, WriteError, Lose
    <3> QED
      BY <2>3, <3>1, <3>2, <3>3, <3>4
  <2>11. Sweeping(w)' => Sweeping(w)
    BY <1>1, <2>6, <2>7, <2>8 DEF Sweeping, Billing
  <2>12. at[w] \notin Billing /\ (\A v \in Workers \ {w} : SameWorker(v)) /\ UNCHANGED <<scene, charged, shares, old>>
    BY <1>1, <2>3, <2>6, <2>7, <2>8 DEF Billing, world, money
  <2> QED
    BY <2>1, <2>2, <2>5, <2>9, <2>10, <2>11, <2>12, GuardedWrite
<1>2. CASE SweepTask(w)
  <2>1. (~IsLegacy) \in BOOLEAN /\ (~(~IsLegacy) => IsLegacy)
    BY DEF IsLegacy
  <2> QED
    BY <1>1, <1>2, <2>1 DEF SweepTask
<1>3. CASE failTaskAndRefund(w)
  BY <1>1, <1>3 DEF failTaskAndRefund
<1>4. CASE PollApply(w)
  <2> DEFINE t == cur[w]
  <2> DEFINE r == snap[w]
  <2> DEFINE new == mem[w]
  <2>1. /\ at[w] = "reported" /\ t \in Tasks /\ Copy(t, r) /\ r \in Rows /\ new \in Rows
        /\ new.quota = r.quota /\ new.status \in {"IN_PROGRESS"} \cup Terminal
    BY <1>4, <1>t DEF PollApply, WorkerInv, Copy
  <2>2. UNCHANGED <<scene, up, old, charged, shares, batch>>
    BY <1>4 DEF PollApply, world, money
  <2>3. \/ /\ UpdateWithStatus(t, r.status, new) /\ lost' = lost
           /\ \/ /\ Won(t, r.status) /\ new.status = "SUCCESS"
                 /\ Bill(w, t, r, new, "settle", "poll")
              \/ /\ Won(t, r.status) /\ new.status = "FAILURE" /\ new.quota # 0
                 /\ Bill(w, t, r, new, "refund", "poll")
              \/ /\ ~Won(t, r.status) \/ new.status = "IN_PROGRESS" \/ (new.status = "FAILURE" /\ new.quota = 0)
                 /\ Leave(w, "poll")
        \/ WriteError(t, r.status, new) /\ Leave(w, "poll")
    BY <1>4 DEF PollApply
  <2> HIDE DEF t, r, new
  <2>6. ASSUME NEW s \in {"refund", "settle"}, Bill(w, t, r, new, s, "poll")
        PROVE  /\ at'[w] = s /\ cur'[w] = t /\ mem'[w] = new /\ then'[w] = "poll"
               /\ at' \in [Workers -> Steps] /\ then' \in [Workers -> {"idle", "sweep", "poll", "save"}]
               /\ cur' \in [Workers -> Tasks \cup {NoOne}]
               /\ snap' \in [Workers -> Rows \cup {NoTask}] /\ mem' \in [Workers -> Rows \cup {NoTask}]
               /\ \A v \in Workers \ {w} : SameWorker(v)
    BY <1>t, <2>1, <2>2, <2>6 DEF Bill, Handle, Goto, TypeInv, Steps, SameWorker
  <2>7. ASSUME Leave(w, "poll")
        PROVE  /\ at'[w] = "poll"
               /\ at' \in [Workers -> Steps] /\ then' \in [Workers -> {"idle", "sweep", "poll", "save"}]
               /\ cur' \in [Workers -> Tasks \cup {NoOne}]
               /\ snap' \in [Workers -> Rows \cup {NoTask}] /\ mem' \in [Workers -> Rows \cup {NoTask}]
               /\ \A v \in Workers \ {w} : SameWorker(v)
    BY <1>t, <2>2, <2>7 DEF Leave, Drop, Handle, Goto, TypeInv, Steps, SameWorker
  <2>8. (\E s \in {"refund", "settle"} : Bill(w, t, r, new, s, "poll")) \/ Leave(w, "poll")
    BY <2>3
  <2>9. TypeInv'
    <3>1. row' = row \/ row' = [row EXCEPT ![t] = new]
      BY <2>3 DEF UpdateWithStatus, WriteError
    <3>2. lost' \subseteq Tasks
      BY <1>t, <2>1, <2>3 DEF WriteError, Lose, TypeInv
    <3> QED
      BY <1>t, <2>1, <2>2, <2>6, <2>7, <2>8, <3>1, <3>2 DEF TypeInv
  <2>10. Writes(w, t, r, new)
    <3>1. CASE UpdateWithStatus(t, r.status, new) /\ Won(t, r.status) /\ lost' = lost
               /\ new.status = "SUCCESS" /\ Bill(w, t, r, new, "settle", "poll")
      BY <2>6, <3>1 DEF Writes, UpdateWithStatus, Terminal
    <3>2. CASE UpdateWithStatus(t, r.status, new) /\ Won(t, r.status) /\ lost' = lost
               /\ new.status = "FAILURE" /\ Bill(w, t, r, new, "refund", "poll")
      BY <2>6, <3>2 DEF Writes, UpdateWithStatus, Terminal
    <3>3. CASE UpdateWithStatus(t, r.status, new) /\ Leave(w, "poll") /\ lost' = lost /\ ~Won(t, r.status)
      BY <2>7, <3>3 DEF Writes, UpdateWithStatus
    <3>4. CASE UpdateWithStatus(t, r.status, new) /\ Leave(w, "poll") /\ lost' = lost /\ Won(t, r.status)
               /\ (new.status = "IN_PROGRESS" \/ (new.status = "FAILURE" /\ new.quota = 0))
      BY <2>7, <3>4 DEF Writes, UpdateWithStatus, Live
    <3>5. CASE WriteError(t, r.status, new) /\ Leave(w, "poll")
      BY <2>7, <3>5 DEF Writes, WriteError, Lose
    <3> QED
      BY <2>3, <3>1, <3>2, <3>3, <3>4, <3>5
  <2>11. Sweeping(w)' => Sweeping(w)
    BY <2>6, <2>7, <2>8 DEF Sweeping, Billing
  <2>12. at[w] \notin Billing /\ \A v \in Workers \ {w} : SameWorker(v)
    BY <2>1, <2>6, <2>7, <2>8 DEF Billing
  <2> QED
    BY <2>1, <2>2, <2>9, <2>10, <2>11, <2>12, GuardedWrite
<1> QED
  BY <1>2, <1>3, <1>4

-----------------------------------------------------------------------------
(* Billing *)

\* What the cost of a task must be when nobody bills it.
Agrees(t) ==
  \/ row[t].status # "FAILURE" /\ Costs(t, row[t].quota)
  \/ row[t].status = "FAILURE" /\ Costs(t, 0)
  \/ row[t].status = "FAILURE" /\ IsLegacy /\ t \in old /\ Costs(t, row[t].quota)

\* A charge changes one amount of one task.
LEMMA ChargeEffect ==
  ASSUME TypeInv, NEW t \in Tasks, NEW a \in Accounts, NEW n \in Int, Charge(t, a, n)
  PROVE  /\ charged' \in [Tasks -> [Accounts -> Int]]
         /\ charged'[t][a] = charged[t][a] + n
         /\ \A b \in Accounts : b # a => charged'[t][b] = charged[t][b]
         /\ \A u \in Tasks : u # t => charged'[u] = charged[u]
<1>1. charged \in [Tasks -> [Accounts -> Int]]
  BY DEF TypeInv
<1>2. charged' = [charged EXCEPT ![t] = [charged[t] EXCEPT ![a] = charged[t][a] + n]]
  BY DEF Charge
<1>3. [charged[t] EXCEPT ![a] = charged[t][a] + n] \in [Accounts -> Int]
  BY <1>1
<1> QED
  BY <1>1, <1>2, <1>3

\* The amounts on the two accounts.
LEMMA TwoAccounts ==
  ASSUME NEW t, NEW q
  PROVE  /\ Costs(t, q) <=> charged[t]["funding"] = q /\ charged[t]["token"] = q
         /\ Costs(t, q)' <=> charged'[t]["funding"] = q /\ charged'[t]["token"] = q
         /\ (\A a \in Accounts : charged'[t][a] >= 0) <=> charged'[t]["funding"] >= 0 /\ charged'[t]["token"] >= 0
BY DEF Costs, Accounts

\* The worker that bills t goes on billing it, or is through and leaves it with
\* the right cost.
Onward(w, t) ==
  /\ at'[w] \in Billing /\ cur'[w] = cur[w] /\ then'[w] = then[w] /\ mem'[w] \in Rows
  /\ at'[w] \in Refunding <=> at[w] \in Refunding
  /\ BillInv(w, t)'
Through(w, t) == at'[w] \in {"idle", "sweep", "poll"} /\ (t \in lost' \/ Agrees(t)')

\* It keeps the invariant.
LEMMA BillKeeps ==
  ASSUME IInv, NEW w \in Workers, at[w] \in Billing, NEW t \in Tasks, t = cur[w], TypeInv',
         scene' = scene, old' = old,
         \A v \in Workers \ {w} : SameWorker(v), \A u \in Tasks \ {t} : SameTask(u),
         row'[t] \in Rows, row'[t].status = row[t].status,
         DOMAIN batch'[w] \subseteq DOMAIN batch[w],
         \A u \in DOMAIN batch'[w] : batch'[w][u] = batch[w][u],
         at'[w] = "sweep" => then[w] = "sweep",
         \A a \in Accounts : charged'[t][a] >= 0, shares'[t] <= 1,
         Onward(w, t) \/ Through(w, t)
  PROVE  IInv'
<1> USE RowFacts
<1>t. /\ TypeInv /\ WorkerInv(w) /\ MoneyInv(t) /\ row[t] \in Rows
      /\ row[t].status \in Terminal /\ row[t].status \notin Live
  BY DEF IInv, WorkerInv, Terminal
<1>b. Billing \cap {"sweep", "poll", "idle", "reported"} = {}
  BY DEF Billing
<1>1. RowStep(t)
  BY <1>t DEF RowStep
<1>2. \A v \in Workers \ {w} : ~Bills(v, t) /\ ~Bills(v, t)'
  BY <1>t DEF MoneyInv, Bills, SameWorker
<1>3. WorkerInv(w)'
  <2>1. \A u \in Tasks : RowStep(u)
    BY <1>1 DEF SameTask, RowStep
  <2>2. \A u \in DOMAIN batch'[w] : u \in Tasks /\ Copy(u, batch[w][u])'
    BY <1>t, <2>1, CopyStays DEF WorkerInv
  <2>3. DOMAIN batch'[w] \subseteq Tasks
    BY <2>2
  <2>4. Sweeping(w)' => DOMAIN batch'[w] \subseteq old'
    BY <1>t, <1>b DEF WorkerInv, Onward, Through, Sweeping
  <2>5. CASE Onward(w, t)
    <3>1. /\ cur'[w] \in Tasks /\ mem'[w] \in Rows /\ row'[cur'[w]] \in Rows
          /\ then'[w] \in {"sweep", "poll"}
          /\ row'[cur'[w]].status = IF at'[w] \in Refunding THEN "FAILURE" ELSE "SUCCESS"
      BY <1>t, <2>5 DEF Onward, WorkerInv
    <3> QED
      BY <1>b, <2>2, <2>3, <2>4, <2>5, <3>1 DEF Onward, WorkerInv
  <2>6. CASE Through(w, t)
    BY <1>b, <2>2, <2>3, <2>4, <2>6 DEF Through, WorkerInv
  <2> QED
    BY <2>5, <2>6
<1>4. MoneyInv(t)'
  <2>1. CASE Onward(w, t)
    <3>1. Bills(w, t)' /\ InBilling(t)'
      BY <2>1 DEF Onward, Bills, InBilling
    <3> QED
      BY <1>t, <1>2, <2>1, <3>1 DEF MoneyInv, Onward
  <2>2. CASE Through(w, t)
    <3>1. ~Bills(w, t)' /\ ~InBilling(t)'
      BY <1>b, <1>2, <2>2 DEF Through, Bills, InBilling
    <3> QED
      BY <1>t, <1>2, <2>2, <3>1 DEF MoneyInv, Through, Agrees
  <2> QED
    BY <2>1, <2>2
<1>5. at'[w] \in Billing => cur'[w] = t
  BY <1>b DEF Onward, Through
<1>6. StepOK(w, t)
  BY <1>1, <1>3, <1>4, <1>5 DEF StepOK
<1> QED
  BY <1>6, StepKeeps


\* Where a worker is when it is through with a task.
LEMMA DoneEffect ==
  ASSUME TypeInv, NEW w \in Workers, then[w] \in {"sweep", "poll"}, Done(w)
  PROVE  /\ at'[w] = then[w] /\ at' \in [Workers -> Steps] /\ then' = then
         /\ cur' \in [Workers -> Tasks \cup {NoOne}]
         /\ snap' \in [Workers -> Rows \cup {NoTask}] /\ mem' \in [Workers -> Rows \cup {NoTask}]
         /\ \A v \in Workers \ {w} : /\ at'[v] = at[v] /\ cur'[v] = cur[v]
                                     /\ snap'[v] = snap[v] /\ mem'[v] = mem[v]
BY DEF Done, Drop, Handle, Goto, TypeInv, Steps

\* Where it is when it goes on.
LEMMA GotoEffect ==
  ASSUME TypeInv, NEW w \in Workers, NEW s \in Steps, Goto(w, s)
  PROVE  at'[w] = s /\ at' \in [Workers -> Steps] /\ \A v \in Workers \ {w} : at'[v] = at[v]
BY DEF Goto, TypeInv

\* Each step of the billing, failing or not.
LEMMA BillingKeeps ==
  ASSUME IInv, NEW w \in Workers, BillingStep(w)
  PROVE  IInv'
<1> USE RowFacts
<1>b. at[w] \in Billing /\ Billing \subseteq Steps
  BY DEF BillingStep, Refund, RefundToken, Settle, SettleToken, SaveQuota, Share, Billing, Steps
<1>0. cur[w] \in Tasks /\ mem[w].quota \in Nat
  BY <1>b DEF IInv, WorkerInv
<1>p. PICK t \in Tasks : t = cur[w]
  BY <1>0
<1>q. PICK m \in Nat : m = mem[w].quota
  BY <1>0
<1>t. /\ TypeInv /\ t \in Tasks /\ mem[w] \in Rows /\ m \in Nat /\ row[t] \in Rows /\ row[t].quota \in Nat
      /\ then[w] \in {"sweep", "poll"} /\ Actual \in Nat
      /\ row[t].status = IF at[w] \in Refunding THEN "FAILURE" ELSE "SUCCESS"
      /\ shares[t] \in Nat /\ shares[t] <= 1
      /\ charged[t] \in [Accounts -> Int]
  <2>1. TypeInv /\ WorkerInv(w)
    BY DEF IInv
  <2>2. t \in Tasks /\ MoneyInv(t)
    BY DEF IInv
  <2>3. Actual \in Nat
    BY <2>1, TaskAssumption DEF TypeInv, Scenario, Actual
  <2>4. mem[w] \in Rows /\ row[t] \in Rows
    BY <1>b, <1>p, <2>1 DEF WorkerInv
  <2> QED
    BY <1>b, <1>p, <1>q, <2>1, <2>2, <2>3, <2>4 DEF WorkerInv, MoneyInv, TypeInv
<1>m. BillInv(w, t) /\ charged[t]["funding"] >= 0 /\ charged[t]["token"] >= 0
      /\ charged[t]["funding"] \in Int /\ charged[t]["token"] \in Int
  BY <1>b, <1>p, <1>t DEF IInv, MoneyInv, Bills, Accounts
<1>a. "funding" \in Accounts /\ "token" \in Accounts
  BY DEF Accounts
<1>s. scene' = scene /\ old' = old /\ up' = up /\ batch' = batch
  BY DEF BillingStep, Refund, RefundToken, Settle, SettleToken, SaveQuota, Share, world
<1>o. DOMAIN batch'[w] \subseteq DOMAIN batch[w] /\ \A u \in DOMAIN batch'[w] : batch'[w][u] = batch[w][u]
  BY <1>s
<1>l. lost' \in {lost, lost \cup {t}} => lost' \subseteq Tasks /\ \A u \in Tasks \ {t} : u \in lost' <=> u \in lost
  BY <1>t DEF TypeInv
<1>1. CASE Refund(w)
  <2>0. at[w] = "refund" /\ charged[t]["funding"] = m /\ charged[t]["token"] = m
    BY <1>q, <1>1, <1>m, TwoAccounts DEF Refund, BillInv
  <2>1. UNCHANGED <<row, shares>>
    BY <1>1 DEF Refund
  <2>2. ASSUME Charge(t, "funding", -m)
        PROVE  /\ charged' \in [Tasks -> [Accounts -> Int]]
               /\ charged'[t]["funding"] = 0 /\ charged'[t]["token"] = m
               /\ \A u \in Tasks \ {t} : charged'[u] = charged[u]
    <3>1. -m \in Int
      BY <1>t
    <3> QED
      BY <1>t, <1>a, <2>0, <2>2, <3>1, ChargeEffect
  <2>3. CASE Charge(t, "funding", -m) /\ Goto(w, "refundToken") /\ UNCHANGED <<then, held, lost, faults>>
    <3>1. at'[w] = "refundToken" /\ at' \in [Workers -> Steps] /\ \A v \in Workers \ {w} : at'[v] = at[v]
      BY <1>t, <2>3, GotoEffect DEF Steps
    <3>2. UNCHANGED <<then, cur, snap, mem, lost>>
      BY <2>3 DEF held
    <3>3. TypeInv'
      BY <1>t, <1>s, <2>1, <2>2, <2>3, <3>1, <3>2 DEF TypeInv
    <3>4. (\A v \in Workers \ {w} : SameWorker(v)) /\ \A u \in Tasks \ {t} : SameTask(u)
      BY <1>s, <2>1, <2>2, <2>3, <3>1, <3>2 DEF SameWorker, SameTask
    <3>5. \A a \in Accounts : charged'[t][a] >= 0
      BY <1>t, <2>2, <2>3 DEF Accounts
    <3>6. Onward(w, t)
      BY <1>q, <1>t, <2>0, <2>2, <2>3, <3>1, <3>2 DEF Onward, BillInv, Billing, Refunding
    <3> QED
      BY <1>p, <1>b, <1>t, <1>s, <1>o, <2>1, <3>1, <3>3, <3>4, <3>5, <3>6, BillKeeps
  <2>4. CASE Lose(t) /\ (UNCHANGED charged \/ Charge(t, "funding", -m)) /\ Done(w)
    <3>1. lost' = lost \cup {t} /\ t \in lost'
      BY <2>4 DEF Lose
    <3>2. /\ charged' \in [Tasks -> [Accounts -> Int]] /\ \A u \in Tasks \ {t} : charged'[u] = charged[u]
          /\ \A a \in Accounts : charged'[t][a] >= 0
      <4>1. CASE charged' = charged
        BY <1>t, <1>m, <4>1 DEF TypeInv, Accounts
      <4>2. CASE Charge(t, "funding", -m)
        BY <1>t, <2>2, <4>2 DEF Accounts
      <4> QED
        BY <2>4, <4>1, <4>2
    <3>3. TypeInv'
      BY <1>t, <1>s, <1>l, <2>1, <2>4, <3>1, <3>2, DoneEffect DEF TypeInv
    <3>4. (\A v \in Workers \ {w} : SameWorker(v)) /\ \A u \in Tasks \ {t} : SameTask(u)
      BY <1>t, <1>s, <1>l, <2>1, <2>4, <3>1, <3>2, DoneEffect DEF SameWorker, SameTask
    <3>5. Through(w, t) /\ at'[w] = then[w]
      BY <1>t, <2>4, <3>1, DoneEffect DEF Through
    <3> QED
      BY <1>p, <1>b, <1>t, <1>s, <1>o, <2>1, <3>2, <3>3, <3>4, <3>5, BillKeeps
  <2> QED
    BY <1>p, <1>q, <1>1, <2>3, <2>4 DEF Refund
<1>2. CASE RefundToken(w)
  <2>0. at[w] = "refundToken" /\ charged[t]["funding"] = 0 /\ charged[t]["token"] = m
    BY <1>q, <1>2, <1>m DEF RefundToken, BillInv
  <2>1. UNCHANGED <<row, shares>> /\ Done(w)
    BY <1>2 DEF RefundToken
  <2>2. \/ Charge(t, "token", -m) /\ lost' = lost
        \/ lost' = lost \cup {t} /\ charged' = charged
    BY <1>p, <1>q, <1>2 DEF RefundToken, Lose
  <2>3. /\ charged' \in [Tasks -> [Accounts -> Int]] /\ \A u \in Tasks \ {t} : charged'[u] = charged[u]
        /\ charged'[t]["funding"] = 0 /\ (charged'[t]["token"] = 0 \/ (t \in lost' /\ charged'[t]["token"] = m))
    <3>1. -m \in Int
      BY <1>t
    <3>2. CASE Charge(t, "token", -m)
      BY <1>t, <1>a, <2>0, <3>1, <3>2, ChargeEffect
    <3>3. CASE lost' = lost \cup {t} /\ charged' = charged
      BY <1>t, <2>0, <3>3 DEF TypeInv
    <3> QED
      BY <2>2, <3>2, <3>3
  <2>4. TypeInv'
    BY <1>t, <1>s, <1>l, <2>1, <2>2, <2>3, DoneEffect DEF TypeInv
  <2>5. (\A v \in Workers \ {w} : SameWorker(v)) /\ \A u \in Tasks \ {t} : SameTask(u)
    BY <1>t, <1>s, <1>l, <2>1, <2>2, <2>3, DoneEffect DEF SameWorker, SameTask
  <2>6. \A a \in Accounts : charged'[t][a] >= 0
    BY <1>t, <2>3 DEF Accounts
  <2>7. t \in lost' \/ Agrees(t)'
    BY <1>t, <2>0, <2>1, <2>3, TwoAccounts DEF Agrees, Refunding
  <2>8. Through(w, t) /\ at'[w] = then[w]
    BY <1>t, <2>1, <2>7, DoneEffect DEF Through
  <2> QED
    BY <1>p, <1>b, <1>t, <1>s, <1>o, <2>1, <2>4, <2>5, <2>6, <2>8, BillKeeps
<1>3. CASE Settle(w)
  <2>0. /\ at[w] = "settle" /\ charged[t]["funding"] = m /\ charged[t]["token"] = m
        /\ row[t].quota = m /\ shares[t] = 0
    BY <1>q, <1>3, <1>m, TwoAccounts DEF Settle, BillInv, Refunding
  <2>1. UNCHANGED <<row, shares, then, cur, snap, mem>>
    BY <1>3 DEF Settle, held
  <2>2. Difference(w) \in Int /\ (Difference(w) # 0 => Actual > 0 /\ Difference(w) = Actual - m)
    BY <1>q, <1>t DEF Difference
  <2>3. ASSUME Charge(t, "funding", Difference(w)), Difference(w) # 0
        PROVE  /\ charged' \in [Tasks -> [Accounts -> Int]]
               /\ charged'[t]["funding"] = Actual /\ charged'[t]["token"] = m
               /\ \A u \in Tasks \ {t} : charged'[u] = charged[u]
    <3>1. /\ charged' \in [Tasks -> [Accounts -> Int]]
          /\ charged'[t]["funding"] = charged[t]["funding"] + Difference(w)
          /\ charged'[t]["token"] = charged[t]["token"]
          /\ \A u \in Tasks \ {t} : charged'[u] = charged[u]
      BY <1>t, <1>a, <2>2, <2>3, ChargeEffect
    <3>2. m + (Actual - m) = Actual
      BY <1>t
    <3> QED
      BY <2>0, <2>2, <2>3, <3>1, <3>2
  <2>4. \/ charged' = charged /\ Goto(w, "share") /\ lost' = lost
        \/ Difference(w) # 0 /\ Charge(t, "funding", Difference(w)) /\ Goto(w, "settleToken") /\ lost' = lost
        \/ /\ Difference(w) # 0 /\ Goto(w, "share") /\ lost' = lost \cup {t}
           /\ charged' = charged \/ Charge(t, "funding", Difference(w))
    BY <1>p, <1>3 DEF Settle, Lose
  <2>5. /\ charged' \in [Tasks -> [Accounts -> Int]] /\ \A u \in Tasks \ {t} : charged'[u] = charged[u]
        /\ \A a \in Accounts : charged'[t][a] >= 0
    <3>1. CASE charged' = charged
      BY <1>t, <1>m, <3>1 DEF TypeInv, Accounts
    <3>2. CASE Charge(t, "funding", Difference(w)) /\ Difference(w) # 0
      BY <1>t, <2>3, <3>2 DEF Accounts
    <3> QED
      BY <2>4, <3>1, <3>2
  <2>6. at'[w] \in {"share", "settleToken"} /\ at' \in [Workers -> Steps] /\ \A v \in Workers \ {w} : at'[v] = at[v]
    BY <1>t, <2>4, GotoEffect DEF Steps
  <2>7. TypeInv'
    BY <1>t, <1>s, <1>l, <2>1, <2>4, <2>5, <2>6 DEF TypeInv
  <2>8. (\A v \in Workers \ {w} : SameWorker(v)) /\ \A u \in Tasks \ {t} : SameTask(u)
    BY <1>s, <1>l, <2>1, <2>4, <2>5, <2>6 DEF SameWorker, SameTask
  <2>9. BillInv(w, t)'
    <3>1. CASE charged' = charged /\ Goto(w, "share") /\ lost' = lost
      <4>1. at'[w] = "share"
        BY <1>t, <3>1, GotoEffect DEF Steps
      <4>2. Costs(t, row[t].quota)'
        BY <2>0, <2>1, <3>1 DEF Costs, Accounts
      <4> QED
        BY <2>0, <2>1, <4>1, <4>2 DEF BillInv
    <3>2. CASE Difference(w) # 0 /\ Charge(t, "funding", Difference(w)) /\ Goto(w, "settleToken") /\ lost' = lost
      <4>1. at'[w] = "settleToken"
        BY <1>t, <3>2, GotoEffect DEF Steps
      <4>2. Actual' = Actual /\ mem'[w].quota = m
        BY <1>q, <1>s, <2>1 DEF Actual
      <4> QED
        BY <1>t, <2>0, <2>1, <2>2, <2>3, <3>2, <4>1, <4>2 DEF BillInv
    <3>3. CASE Goto(w, "share") /\ lost' = lost \cup {t}
      <4>1. at'[w] = "share" /\ t \in lost'
        BY <1>t, <3>3, GotoEffect DEF Steps
      <4> QED
        BY <2>0, <2>1, <4>1 DEF BillInv
    <3> QED
      BY <2>4, <3>1, <3>2, <3>3
  <2>10. Onward(w, t)
    BY <1>t, <2>0, <2>1, <2>6, <2>9 DEF Onward, Billing, Refunding
  <2> QED
    BY <1>p, <1>b, <1>t, <1>s, <1>o, <2>1, <2>5, <2>6, <2>7, <2>8, <2>10, BillKeeps
<1>4. CASE SettleToken(w)
  <2>0. /\ at[w] = "settleToken" /\ Actual > 0 /\ charged[t]["funding"] = Actual /\ charged[t]["token"] = m
        /\ shares[t] = 0
    BY <1>q, <1>4, <1>m DEF SettleToken, BillInv, Refunding
  <2>1. UNCHANGED <<row, shares, then, cur, snap>> /\ Goto(w, "saveQuota")
    BY <1>4 DEF SettleToken
  <2>2. Difference(w) \in Int /\ Difference(w) = Actual - m
    BY <1>q, <1>t, <2>0 DEF Difference
  <2>3. \/ Charge(t, "token", Difference(w)) /\ lost' = lost
        \/ lost' = lost \cup {t} /\ charged' = charged
    BY <1>p, <1>4 DEF SettleToken, Lose
  <2>4. /\ charged' \in [Tasks -> [Accounts -> Int]] /\ \A u \in Tasks \ {t} : charged'[u] = charged[u]
        /\ charged'[t]["funding"] = Actual
        /\ charged'[t]["token"] = Actual \/ (t \in lost' /\ charged'[t]["token"] = m)
    <3>1. CASE Charge(t, "token", Difference(w))
      BY <1>t, <1>a, <2>0, <2>2, <3>1, ChargeEffect
    <3>2. CASE lost' = lost \cup {t} /\ charged' = charged
      BY <1>t, <2>0, <3>2 DEF TypeInv
    <3> QED
      BY <2>3, <3>1, <3>2
  <2>5. \A a \in Accounts : charged'[t][a] >= 0
    BY <1>t, <2>0, <2>4 DEF Accounts
  <2>6. at'[w] = "saveQuota" /\ at' \in [Workers -> Steps] /\ \A v \in Workers \ {w} : at'[v] = at[v]
    BY <1>t, <2>1, GotoEffect DEF Steps
  <2>7. mem' = [mem EXCEPT ![w] = [mem[w] EXCEPT !.quota = Actual]]
    BY <1>4 DEF SettleToken
  <2>8. [mem[w] EXCEPT !.quota = Actual] \in Rows
    BY <1>t DEF Rows
  <2>9. /\ mem'[w] \in Rows /\ mem' \in [Workers -> Rows \cup {NoTask}]
        /\ \A v \in Workers \ {w} : mem'[v] = mem[v]
    BY <1>t, <2>7, <2>8 DEF TypeInv
  <2>10. TypeInv'
    BY <1>t, <1>s, <1>l, <2>1, <2>3, <2>4, <2>6, <2>9 DEF TypeInv
  <2>11. (\A v \in Workers \ {w} : SameWorker(v)) /\ \A u \in Tasks \ {t} : SameTask(u)
    BY <1>s, <1>l, <2>1, <2>3, <2>4, <2>6, <2>9 DEF SameWorker, SameTask
  <2>12. BillInv(w, t)'
    <3>1. Actual' = Actual
      BY <1>s DEF Actual
    <3>2. t \notin lost' => Costs(t, Actual)'
      BY <2>4, <3>1 DEF Costs, Accounts, Actual
    <3> QED
      BY <2>0, <2>1, <2>6, <3>1, <3>2 DEF BillInv
  <2>13. Onward(w, t)
    BY <2>0, <2>1, <2>6, <2>9, <2>12 DEF Onward, Billing, Refunding
  <2> QED
    BY <1>p, <1>b, <1>t, <1>s, <1>o, <2>0, <2>1, <2>5, <2>6, <2>10, <2>11, <2>13, BillKeeps
<1>5. CASE SaveQuota(w)
  <2>0. at[w] = "saveQuota" /\ (t \notin lost => Costs(t, Actual)) /\ shares[t] = 0
    BY <1>5, <1>m DEF SaveQuota, BillInv, Refunding
  <2>1. UNCHANGED <<charged, shares, then, cur, snap, mem>> /\ Goto(w, "share")
    BY <1>5 DEF SaveQuota, money, held
  <2>2. [row[t] EXCEPT !.quota = Actual] \in Rows /\ [row[t] EXCEPT !.quota = Actual].quota = Actual
        /\ [row[t] EXCEPT !.quota = Actual].status = row[t].status
    BY <1>t DEF Rows
  <2>3. \/ row' = [row EXCEPT ![t] = [row[t] EXCEPT !.quota = Actual]] /\ lost' = lost
        \/ row' = row /\ lost' = lost \cup {t}
    BY <1>p, <1>5 DEF SaveQuota, Lose
  <2>4. /\ row' \in [Tasks -> Rows \cup {NoTask}] /\ \A u \in Tasks \ {t} : row'[u] = row[u]
        /\ row'[t] \in Rows /\ row'[t].status = row[t].status
        /\ (row'[t].quota = Actual /\ lost' = lost) \/ t \in lost'
    BY <1>t, <2>2, <2>3 DEF TypeInv
  <2>6. at'[w] = "share" /\ at' \in [Workers -> Steps] /\ \A v \in Workers \ {w} : at'[v] = at[v]
    BY <1>t, <2>1, GotoEffect DEF Steps
  <2>7. TypeInv'
    BY <1>t, <1>s, <1>l, <2>1, <2>3, <2>4, <2>6 DEF TypeInv
  <2>8. (\A v \in Workers \ {w} : SameWorker(v)) /\ \A u \in Tasks \ {t} : SameTask(u)
    BY <1>s, <1>l, <2>1, <2>3, <2>4, <2>6 DEF SameWorker, SameTask
  <2>9. BillInv(w, t)'
    <3>1. t \notin lost' => Costs(t, row'[t].quota)
      BY <2>0, <2>4
    <3>2. t \notin lost' => Costs(t, row[t].quota)'
      BY <2>1, <3>1 DEF Costs
    <3> QED
      BY <2>0, <2>1, <2>6, <3>2 DEF BillInv
  <2>10. Onward(w, t)
    BY <1>t, <2>0, <2>1, <2>6, <2>9 DEF Onward, Billing, Refunding
  <2>11. \A a \in Accounts : charged'[t][a] >= 0
    BY <1>m, <2>1, TwoAccounts
  <2> QED
    BY <1>p, <1>b, <1>t, <1>s, <1>o, <2>1, <2>4, <2>6, <2>7, <2>8, <2>10, <2>11, BillKeeps
<1>6. CASE Share(w)
  <2>0. at[w] = "share" /\ (t \notin lost => Costs(t, row[t].quota)) /\ shares[t] = 0
    BY <1>6, <1>m DEF Share, BillInv, Refunding
  <2>1. UNCHANGED <<row, charged, lost>> /\ Done(w)
    BY <1>6 DEF Share
  <2>2. shares' = [shares EXCEPT ![t] = IF m > 0 THEN shares[t] + 1 ELSE shares[t]]
    BY <1>p, <1>q, <1>6 DEF Share
  <2>3. shares' \in [Tasks -> Nat] /\ shares'[t] <= 1 /\ \A u \in Tasks \ {t} : shares'[u] = shares[u]
    BY <1>t, <2>0, <2>2 DEF TypeInv
  <2>4. TypeInv'
    BY <1>t, <1>s, <2>1, <2>3, DoneEffect DEF TypeInv
  <2>5. (\A v \in Workers \ {w} : SameWorker(v)) /\ \A u \in Tasks \ {t} : SameTask(u)
    BY <1>t, <1>s, <2>1, <2>3, DoneEffect DEF SameWorker, SameTask
  <2>6. \A a \in Accounts : charged'[t][a] >= 0
    BY <1>m, <2>1, TwoAccounts
  <2>7. t \in lost' \/ Agrees(t)'
    BY <1>t, <2>0, <2>1 DEF Agrees, Refunding, Costs
  <2>8. Through(w, t) /\ at'[w] = then[w]
    BY <1>t, <2>1, <2>7, DoneEffect DEF Through
  <2> QED
    BY <1>p, <1>b, <1>t, <1>s, <1>o, <2>1, <2>3, <2>4, <2>5, <2>6, <2>8, BillKeeps
<1> QED
  BY <1>1, <1>2, <1>3, <1>4, <1>5, <1>6 DEF BillingStep


\* A crash in the middle of a bill leaves it for good; any other is harmless.
LEMMA CrashKeeps ==
  ASSUME IInv, NEW w \in Workers, Crash(w)
  PROVE  IInv'
<1> USE RowFacts
<1>t. TypeInv /\ WorkerInv(w)
  BY DEF IInv
<1>s. UNCHANGED <<scene, up, old, row, charged, shares, then>>
  BY DEF Crash, Leave, world, money
<1>1. /\ at'[w] = "idle" /\ DOMAIN batch'[w] = {} /\ DOMAIN batch' = Workers
      /\ at' \in [Workers -> Steps] /\ cur' \in [Workers -> Tasks \cup {NoOne}]
      /\ snap' \in [Workers -> Rows \cup {NoTask}] /\ mem' \in [Workers -> Rows \cup {NoTask}]
      /\ \A v \in Workers \ {w} : SameWorker(v)
  BY <1>t, <1>s DEF Crash, Leave, Drop, Handle, Goto, NoRows, TypeInv, Steps, SameWorker
<1>2. CASE at[w] \in Billing
  <2>1. cur[w] \in Tasks /\ then[w] # "save"
    BY <1>t, <1>2 DEF WorkerInv
  <2>2. PICK t \in Tasks : t = cur[w]
    BY <2>1
  <2>3. lost' = lost \cup {t}
    BY <1>2, <2>1, <2>2 DEF Crash
  <2>4. TypeInv' /\ \A u \in Tasks \ {t} : SameTask(u)
    BY <1>t, <1>s, <1>1, <2>3 DEF TypeInv, SameTask
  <2>5. row[t] \in Rows /\ MoneyInv(t)
    BY <1>t, <1>2, <2>2 DEF WorkerInv, IInv
  <2>6. Through(w, t)
    BY <1>1, <2>3 DEF Through
  <2> QED
    BY <1>1, <1>2, <1>s, <2>2, <2>4, <2>5, <2>6, BillKeeps DEF MoneyInv
<1>3. CASE at[w] \notin Billing
  <2>1. lost' = lost
    BY <1>3 DEF Crash
  <2>2. TypeInv'
    BY <1>t, <1>s, <1>1, <2>1 DEF TypeInv
  <2>3. WorkerInv(w)'
    BY <1>1 DEF WorkerInv, Sweeping, Billing
  <2> QED
    BY <1>1, <1>3, <1>s, <2>1, <2>2, <2>3, QuietKeeps DEF Billing
<1> QED
  BY <1>2, <1>3

-----------------------------------------------------------------------------
(* Pollers alone *)

\* Who may take a step when nobody but pollers of video tasks runs.
LEMMA StepsOfPollers ==
  ASSUME IInv, VideoPollers, Next
  PROVE  \/ World
         \/ \E w \in Workers :
              \/ SweepLoad(w) \/ PollLoad(w) \/ PollDone(w) \/ PollAsk(w)
              \/ SweepTask(w) \/ failTaskAndRefund(w) \/ PollApply(w)
              \/ BillingStep(w) \/ Crash(w)
<1>1. scene.workers \subseteq Pollers /\ Pollers \subseteq Workers /\ Fetchers \cap scene.workers = {}
  BY TaskAssumption DEF VideoPollers, Polled, Workers
<1>2. \A w \in Workers : ~SunoApply(w) /\ ~SunoSave(w)
  BY DEF VideoPollers, SunoApply, SunoSave, IInv, WorkerInv, Billing
<1> QED
  BY <1>1, <1>2 DEF Next, PollerStep

\* The invariant is inductive.
LEMMA NextKeeps ==
  ASSUME IInv, VideoPollers, [Next]_vars
  PROVE  IInv'
<1>1. CASE Next
  BY <1>1, StepsOfPollers, WorldKeeps, PollerMoves, WritesKeep, BillingKeeps, CrashKeeps
<1>2. CASE UNCHANGED vars
  <2>1. scene' = scene /\ old' = old /\ (\A u \in Tasks : SameTask(u) /\ RowStep(u)) /\ \A v \in Workers : SameWorker(v)
    BY <1>2 DEF vars, SameTask, SameWorker, RowStep
  <2>2. TypeInv'
    BY <1>2 DEF vars, IInv, TypeInv
  <2>3. \A v \in Workers : WorkerInv(v)'
    BY <2>1, OtherWorkers DEF IInv
  <2>4. ASSUME NEW u \in Tasks PROVE MoneyInv(u)'
    BY <2>1, OtherTasks DEF IInv, Bills, SameWorker
  <2> QED
    BY <2>2, <2>3, <2>4 DEF IInv
<1> QED
  BY <1>1, <1>2

\* It holds at first.
LEMMA StartKeeps == Init => IInv
<1> SUFFICES ASSUME Init PROVE IInv
  OBVIOUS
<1> USE RowFacts
<1>1. TypeInv
  BY DEF Init, TypeInv, Steps, Terminal
<1>2. ASSUME NEW w \in Workers PROVE WorkerInv(w)
  BY DEF Init, WorkerInv, Sweeping, Billing, NoRows
<1>3. ASSUME NEW t \in Tasks PROVE MoneyInv(t)
  <2>1. row[t] = NoTask /\ shares[t] = 0 /\ \A a \in Accounts : charged[t][a] = 0
    BY DEF Init
  <2>2. \A w \in Workers : ~Bills(w, t)
    BY DEF Init, Bills, Billing
  <2> QED
    BY <2>1, <2>2 DEF MoneyInv
<1> QED
  BY <1>1, <1>2, <1>3 DEF IInv

\* A write never brings a final task back, however old the copy it writes: the
\* copy was live when it was loaded, so the guard fails.
LEMMA FinalStep ==
  ASSUME IInv, VideoPollers, Next, NEW t \in Tasks, row[t].status \in Terminal
  PROVE  row'[t].status = row[t].status
<1> USE RowFacts
<1>t. TypeInv /\ row[t] \in Rows /\ row[t].status \notin Live
  BY DEF IInv, TypeInv
<1>1. ASSUME NEW u \in Tasks, NEW r, Copy(u, r), NEW new,
             row' = row \/ (Won(u, r.status) /\ row' = [row EXCEPT ![u] = new])
      PROVE  row'[t].status = row[t].status
  BY <1>1, <1>t DEF Won, Copy, TypeInv
<1>2. CASE World
  BY <1>2, <1>t DEF World, Submit, UpstreamMoves, Age, Stored, TypeInv
<1>3. ASSUME NEW w \in Workers, SweepLoad(w) \/ PollLoad(w) \/ PollDone(w) \/ PollAsk(w) \/ Crash(w)
      PROVE  row'[t].status = row[t].status
  BY <1>3 DEF SweepLoad, PollLoad, PollDone, PollAsk, Crash
<1>4. ASSUME NEW w \in Workers, SweepTask(w) \/ failTaskAndRefund(w)
      PROVE  row'[t].status = row[t].status
  <2>1. PICK u \in DOMAIN batch[w] :
          \E refundable, back : FailAndRefund(w, u, batch[w][u], refundable, back)
    BY <1>4 DEF SweepTask, failTaskAndRefund
  <2>2. u \in Tasks /\ Copy(u, batch[w][u])
    BY DEF IInv, WorkerInv
  <2> QED
    BY <1>1, <2>1, <2>2 DEF FailAndRefund, UpdateWithStatus, WriteError
<1>5. ASSUME NEW w \in Workers, PollApply(w) PROVE row'[t].status = row[t].status
  <2>1. cur[w] \in Tasks /\ Copy(cur[w], snap[w])
    BY <1>5 DEF PollApply, IInv, WorkerInv
  <2> QED
    BY <1>1, <1>5, <2>1 DEF PollApply, UpdateWithStatus, WriteError
<1>6. ASSUME NEW w \in Workers, BillingStep(w) PROVE row'[t].status = row[t].status
  <2>1. CASE row' = row
    BY <2>1
  <2>2. CASE row' = [row EXCEPT ![cur[w]] = [row[cur[w]] EXCEPT !.quota = Actual]]
    BY <1>t, <2>2 DEF TypeInv, Rows
  <2> QED
    BY <1>6, <2>1, <2>2 DEF BillingStep, Refund, RefundToken, Settle, SettleToken, SaveQuota, Share
<1> QED
  BY <1>2, <1>3, <1>4, <1>5, <1>6, StepsOfPollers

-----------------------------------------------------------------------------
(* Users' queries.  Where tasks are billed per call and a task fails only when  *)
(* the upstream says so, a final status is the upstream's, for good: a query   *)
(* that loads a final row and writes it again writes the same status.          *)

\* A copy of the row of t, by whomever: a final status in it is the upstream's.
Known(t, r) ==
  /\ r \in Rows /\ row[t] \in Rows /\ r.quota = row[t].quota
  /\ r.status \in Terminal => r.status = up[t]

Holding == {"fetching", "reported"} \cup Billing

\* What a worker holds is such a copy; a report on a final one repeats its
\* status; who refunds finds the row failed.
QueryWorker(w) ==
  /\ at[w] \in {"idle", "sweep", "poll", "fetching", "reported", "settle", "share"} \cup Refunding
  /\ DOMAIN batch[w] \subseteq Tasks
  /\ \A t \in DOMAIN batch[w] : Known(t, batch[w][t]) /\ batch[w][t].status \in Live
  /\ at[w] = "sweep" => DOMAIN batch[w] = {}
  /\ at[w] \in Holding => cur[w] \in Tasks /\ Known(cur[w], snap[w]) /\ Known(cur[w], mem[w])
  /\ at[w] = "fetching" => mem[w] = snap[w]
  /\ at[w] = "reported" /\ snap[w].status \in Terminal => mem[w].status = snap[w].status
  /\ at[w] = "reported" /\ w \in Pollers => snap[w].status \in Live
  /\ at[w] \in Billing => then[w] \in {"poll", "idle"}
  /\ at[w] \in Refunding => row[cur[w]].status = "FAILURE"

Refunds(w, t) == at[w] \in Refunding /\ cur[w] = t

\* A task costs its quota until its row says that it failed; then one worker
\* gives it back, or nobody ever will.
QueryMoney(t) ==
  /\ \A a \in Accounts : charged[t][a] >= 0
  /\ row[t].status \in Terminal => row[t].status = up[t]
  /\ row[t] \in Rows /\ row[t].status # "FAILURE" => Costs(t, row[t].quota)
  /\ \A w \in Workers : Refunds(w, t) =>
       /\ at[w] = "refund" => Costs(t, row[t].quota)
       /\ at[w] = "refundToken" => charged[t]["funding"] = 0 /\ charged[t]["token"] = row[t].quota
  /\ \A v, w \in Workers : Refunds(v, t) /\ Refunds(w, t) => v = w
  /\ row[t].status = "FAILURE" /\ t \notin lost /\ (\A w \in Workers : ~Refunds(w, t)) => Costs(t, 0)

QueryInv ==
  /\ TypeInv /\ faults \in Nat
  /\ \A w \in Workers : QueryWorker(w)
  /\ \A t \in Tasks : QueryMoney(t)

\* What a step does to the row and the upstream of a task, seen by the copies.
Steady(t) ==
  /\ up[t] \in Terminal => up'[t] = up[t]
  /\ row[t] \in Rows =>
       /\ row'[t] \in Rows /\ row'[t].quota = row[t].quota
       /\ row[t].status \in Terminal => row'[t].status = row[t].status

\* A copy stays one.
LEMMA KnownStays ==
  ASSUME NEW t \in Tasks, NEW r, Known(t, r), Steady(t)
  PROVE  Known(t, r)'
BY RowFacts DEF Known, Steady

\* A worker that is left alone keeps its invariant.
LEMMA QueryOthers ==
  ASSUME NEW v \in Workers, QueryWorker(v), SameWorker(v), \A t \in Tasks : Steady(t)
  PROVE  QueryWorker(v)'
<1>1. \A t \in Tasks : \A r : Known(t, r) => Known(t, r)'
  BY KnownStays
<1>2. DOMAIN batch'[v] \subseteq Tasks /\ \A t \in DOMAIN batch'[v] : Known(t, batch[v][t])' /\ batch'[v][t].status \in Live
  BY <1>1 DEF QueryWorker, SameWorker
<1>3. at'[v] \in Holding => cur'[v] \in Tasks /\ Known(cur[v], snap[v])' /\ Known(cur[v], mem[v])'
  BY <1>1 DEF QueryWorker, SameWorker
<1>4. at'[v] \in Refunding => row'[cur'[v]].status = "FAILURE"
  <2>1. Refunding \subseteq Holding /\ "FAILURE" \in Terminal
    BY DEF Refunding, Holding, Billing, Terminal
  <2> QED
    BY <2>1 DEF QueryWorker, SameWorker, Known, Steady
<1> QED
  BY <1>2, <1>3, <1>4 DEF QueryWorker, SameWorker

\* So does a task that is left alone and whose refund nobody takes or leaves.
LEMMA QueryOtherTasks ==
  ASSUME NEW u \in Tasks, QueryMoney(u), row'[u] = row[u], charged'[u] = charged[u],
         lost \subseteq lost', up[u] \in Terminal => up'[u] = up[u],
         \A v \in Workers : /\ Refunds(v, u)' <=> Refunds(v, u)
                            /\ Refunds(v, u) => at'[v] = at[v]
  PROVE  QueryMoney(u)'
<1>1. \A q : Costs(u, q)' <=> Costs(u, q)
  BY DEF Costs
<1>2. \A w \in Workers : Refunds(w, u)' =>
       /\ at'[w] = "refund" => Costs(u, row[u].quota)'
       /\ at'[w] = "refundToken" => charged'[u]["funding"] = 0 /\ charged'[u]["token"] = row'[u].quota
  BY <1>1 DEF QueryMoney
<1>3. row'[u].status \in Terminal => row'[u].status = up'[u]
  BY DEF QueryMoney
<1>4. row'[u] \in Rows /\ row'[u].status # "FAILURE" => Costs(u, row[u].quota)'
  BY <1>1 DEF QueryMoney
<1>5. \A v, w \in Workers : Refunds(v, u)' /\ Refunds(w, u)' => v = w
  BY DEF QueryMoney
<1>6. row'[u].status = "FAILURE" /\ u \notin lost' /\ (\A w \in Workers : ~Refunds(w, u)') => Costs(u, 0)'
  BY <1>1 DEF QueryMoney
<1>7. \A a \in Accounts : charged'[u][a] >= 0
  BY DEF QueryMoney
<1> QED
  BY <1>2, <1>3, <1>4, <1>5, <1>6, <1>7 DEF QueryMoney

\* A step of w about t, if it does its part, keeps the invariant.
LEMMA QueryStep ==
  ASSUME QueryInv, NEW w \in Workers, NEW t \in Tasks, TypeInv', faults' \in Nat,
         \A v \in Workers \ {w} : SameWorker(v),
         \A u \in Tasks \ {t} : row'[u] = row[u] /\ charged'[u] = charged[u],
         up' = up, lost \subseteq lost',
         at[w] \in Refunding => cur[w] = t, at'[w] \in Refunding => cur'[w] = t,
         Steady(t), QueryWorker(w)', QueryMoney(t)'
  PROVE  QueryInv'
<1>1. \A u \in Tasks : Steady(u)
  BY DEF Steady
<1>2. ASSUME NEW v \in Workers PROVE QueryWorker(v)'
  BY <1>1, QueryOthers DEF QueryInv
<1>3. ASSUME NEW u \in Tasks PROVE QueryMoney(u)'
  <2>1. CASE u # t
    <3>1. \A v \in Workers : /\ Refunds(v, u)' <=> Refunds(v, u)
                             /\ Refunds(v, u) => at'[v] = at[v]
      BY <2>1 DEF Refunds, SameWorker
    <3> QED
      BY <2>1, <3>1, QueryOtherTasks DEF QueryInv
  <2> QED
    BY <2>1
<1> QED
  BY <1>2, <1>3 DEF QueryInv

\* A step of w that moves no money and refunds nothing before and after.
LEMMA QueryQuiet ==
  ASSUME QueryInv, NEW w \in Workers, TypeInv', faults' \in Nat,
         UNCHANGED <<row, charged, up>>, lost \subseteq lost',
         \A v \in Workers \ {w} : SameWorker(v),
         at[w] \notin Refunding, at'[w] \notin Refunding, QueryWorker(w)'
  PROVE  QueryInv'
<1>1. \A u \in Tasks : Steady(u)
  <2>1. \A u \in Tasks : row[u] \in Rows => row'[u] \in Rows
    OBVIOUS
  <2> QED
    BY <2>1 DEF Steady
<1>2. ASSUME NEW v \in Workers PROVE QueryWorker(v)'
  BY <1>1, QueryOthers DEF QueryInv
<1>3. ASSUME NEW u \in Tasks PROVE QueryMoney(u)'
  <2>1. \A v \in Workers : /\ Refunds(v, u)' <=> Refunds(v, u)
                           /\ Refunds(v, u) => at'[v] = at[v]
    BY DEF Refunds, SameWorker
  <2> QED
    BY <2>1, QueryOtherTasks DEF QueryInv
<1> QED
  BY <1>2, <1>3 DEF QueryInv

\* Rows come into the table with a submission; the upstream finishes a task once.
LEMMA QueryWorld ==
  ASSUME QueryInv, VideoQueries, World
  PROVE  QueryInv'
<1> USE RowFacts
<1>s. UNCHANGED <<scene, at, then, batch, cur, snap, mem, shares>>
  BY DEF World, Submit, UpstreamMoves, Age, world, held, money
<1>v. \A v \in Workers : SameWorker(v)
  BY <1>s DEF SameWorker
<1>1. ASSUME NEW t \in Tasks, Submit(t) PROVE QueryInv'
  <2>1. PICK q \in Quotas :
          /\ \E p \in Quotas :
              /\ p = q \/ ("refusal" \in Conditions /\ p < q)
              /\ charged' = [charged EXCEPT ![t] = [a \in Accounts |-> p]]
          /\ \/ /\ row' = [row EXCEPT ![t] = [status |-> "NOT_START", quota |-> q, full |-> FALSE]]
                /\ UNCHANGED <<lost, faults>>
             \/ Fault /\ Lose(t) /\ UNCHANGED row
    BY <1>1 DEF Submit
  <2>2. "refusal" \notin Conditions
    BY DEF VideoQueries, Queried, Conditions
  <2>3. charged' = [charged EXCEPT ![t] = [a \in Accounts |-> q]]
    BY <2>1, <2>2
  <2>4. q \in Nat /\ row[t] = NoTask /\ row[t].status \notin Live \cup Terminal
    BY <1>1, TaskAssumption DEF Submit, Stored
  <2>5. up' = up /\ old' = old
    BY <1>1 DEF Submit, world
  <2>6. DEFINE new == [status |-> "NOT_START", quota |-> q, full |-> FALSE]
  <2>7. new \in Rows /\ new.status \notin Terminal /\ new.status # "FAILURE" /\ new.quota = q
    BY <2>4 DEF Rows, Live, Terminal
  <2> HIDE DEF new
  <2>8. /\ \/ row' = [row EXCEPT ![t] = new] /\ lost' = lost
           \/ row' = row /\ lost' = lost \cup {t}
        /\ faults' \in Nat
    BY <2>1 DEF new, Lose, Fault, QueryInv
  <2>9. TypeInv'
    <3>1. [a \in Accounts |-> q] \in [Accounts -> Int]
      BY <2>4
    <3>2. charged' \in [Tasks -> [Accounts -> Int]]
      BY <2>3, <3>1 DEF QueryInv, TypeInv
    <3> QED
      BY <1>s, <2>5, <2>7, <2>8, <3>2 DEF QueryInv, TypeInv
  <2>10. /\ row'[t] \in {new, NoTask} /\ lost \subseteq lost'
         /\ \A u \in Tasks \ {t} : row'[u] = row[u] /\ charged'[u] = charged[u]
    BY <2>3, <2>4, <2>8 DEF QueryInv, TypeInv
  <2>11. \A u \in Tasks : Steady(u)
    BY <2>4, <2>5, <2>10 DEF Steady
  <2>12. \A v \in Workers : QueryWorker(v)'
    BY <1>v, <2>11, QueryOthers DEF QueryInv
  <2>13. \A v \in Workers : ~Refunds(v, t) /\ ~Refunds(v, t)'
    <3>1. Refunding \subseteq Holding
      BY DEF Refunding, Holding, Billing
    <3> QED
      BY <1>s, <2>4, <3>1 DEF QueryInv, QueryWorker, Known, Refunds
  <2>14. \A a \in Accounts : charged'[t][a] = q
    BY <2>3 DEF QueryInv, TypeInv
  <2>15. QueryMoney(t)'
    <3>1. /\ row'[t].status \notin Terminal /\ row'[t].status # "FAILURE"
          /\ row'[t] \in Rows => row'[t].quota = q
      BY <2>7, <2>10 DEF Terminal
    <3>2. \A a \in Accounts : charged'[t][a] >= 0
      BY <2>4, <2>14
    <3>3. row'[t] \in Rows => Costs(t, row[t].quota)'
      BY <2>14, <3>1 DEF Costs
    <3> QED
      BY <2>13, <3>1, <3>2, <3>3 DEF QueryMoney
  <2>16. ASSUME NEW u \in Tasks, u # t PROVE QueryMoney(u)'
    BY <1>s, <2>5, <2>10, <2>16, QueryOtherTasks DEF QueryInv, Refunds
  <2> QED
    BY <2>8, <2>9, <2>12, <2>15, <2>16 DEF QueryInv
<1>2. ASSUME NEW t \in Tasks, UpstreamMoves(t) \/ Age(t) PROVE QueryInv'
  <2>1. UNCHANGED <<row, charged, lost, faults>>
    BY <1>2 DEF UpstreamMoves, Age, money
  <2>2. TypeInv'
    BY <1>s, <1>2, <2>1 DEF UpstreamMoves, Age, QueryInv, TypeInv
  <2>3. \A u \in Tasks : up[u] \in Terminal => up'[u] = up[u]
    BY <1>2 DEF UpstreamMoves, Age, QueryInv, TypeInv, Terminal
  <2>4. \A u \in Tasks : Steady(u)
    BY <2>1, <2>3 DEF Steady
  <2>5. \A v \in Workers : QueryWorker(v)'
    BY <1>v, <2>4, QueryOthers DEF QueryInv
  <2>6. ASSUME NEW u \in Tasks PROVE QueryMoney(u)'
    BY <1>s, <2>1, <2>3, QueryOtherTasks DEF QueryInv, Refunds
  <2> QED
    BY <2>1, <2>2, <2>5, <2>6 DEF QueryInv
<1> QED
  BY <1>1, <1>2 DEF World

\* A report on a copy is one, and repeats a final status.
LEMMA ReportKnown ==
  ASSUME TypeInv, NEW t \in Tasks, NEW r, Known(t, r), NEW new \in Report(t, r)
  PROVE  /\ Known(t, new)
         /\ r.status \in Terminal => new.status = r.status
<1> USE RowFacts
<1>1. r \in Rows /\ up[t] \in {"IN_PROGRESS"} \cup Terminal
  BY DEF Known, TypeInv
<1>2. "IN_PROGRESS" \in Live \cup Terminal /\ "IN_PROGRESS" \notin Terminal /\ up[t] \in Live \cup Terminal
  BY <1>1 DEF Live, Terminal
<1>3. ASSUME NEW s \in {up[t], "IN_PROGRESS"}, s # up[t] => up[t] = "IN_PROGRESS",
             NEW f \in BOOLEAN, new = [r EXCEPT !.status = s, !.full = f]
      PROVE  Known(t, new) /\ (r.status \in Terminal => new.status = r.status)
  <2>1. new \in Rows /\ new.quota = r.quota /\ new.status = s
    <3>1. r \in Rows /\ s \in Live \cup Terminal
      BY <1>1, <1>2
    <3>2. CASE f = TRUE
      <4>1. new = [r EXCEPT !.status = s, !.full = TRUE]
        BY <1>3, <3>2
      <4> QED
        BY <3>1, <4>1, ChangedRow
    <3>3. CASE f = FALSE
      <4>1. new = [r EXCEPT !.status = s, !.full = FALSE]
        BY <1>3, <3>3
      <4> QED
        BY <3>1, <4>1, ChangedRow
    <3> QED
      BY <3>2, <3>3
  <2> QED
    BY <1>2, <1>3, <2>1 DEF Known
<1>4. CASE new = [r EXCEPT !.status = up[t], !.full = up[t] \in Terminal]
  <2>1. (up[t] \in Terminal) \in BOOLEAN
    OBVIOUS
  <2> QED
    BY <1>3, <1>4, <2>1, Zenon
<1>5. CASE up[t] = "IN_PROGRESS" /\ new = [r EXCEPT !.status = "IN_PROGRESS", !.full = TRUE]
  <2>1. new = [r EXCEPT !.status = up[t], !.full = TRUE]
    BY <1>5
  <2> QED
    BY <1>3, <2>1, Zenon
<1>6. \/ new = [r EXCEPT !.status = up[t], !.full = up[t] \in Terminal]
      \/ up[t] = "IN_PROGRESS" /\ new = [r EXCEPT !.status = "IN_PROGRESS", !.full = TRUE]
  BY Zenon DEF Report
<1> QED
  BY <1>4, <1>5, <1>6, Zenon

\* A worker loads rows or takes one of them to the upstream; or it settles, which
\* changes nothing where tasks are billed per call.
LEMMA QueryMoves ==
  ASSUME QueryInv, VideoQueries, NEW w \in Workers,
         \/ w \in Pollers /\ (SweepLoad(w) \/ PollLoad(w) \/ PollDone(w) \/ PollAsk(w))
         \/ w \in Fetchers /\ (FetchLoad(w) \/ FetchAsk(w))
         \/ Settle(w) \/ Share(w)
  PROVE  QueryInv'
<1> USE RowFacts
<1>t. TypeInv /\ QueryWorker(w) /\ faults \in Nat
  BY DEF QueryInv
<1>q. Suno = {} /\ Actual = 0 /\ "timeout" \notin Conditions /\ "flaky" \notin Conditions
  BY DEF VideoQueries, Queried, Actual, Conditions
<1>s. UNCHANGED <<scene, row, up, old, charged, lost, faults>>
  BY <1>q DEF SweepLoad, PollLoad, PollDone, PollAsk, FetchLoad, FetchAsk, Settle, Share, Difference, world, money
<1>c. \A t, r : Known(t, r)' <=> Known(t, r)
  BY <1>s DEF Known
<1>b. /\ Billing \cap {"idle", "sweep", "poll", "fetching", "reported"} = {}
      /\ Refunding \cap {"idle", "sweep", "poll", "fetching", "reported", "settle", "share"} = {}
      /\ Holding \cap {"idle", "sweep", "poll"} = {} /\ {"settle", "share"} \subseteq Billing
      /\ {"fetching", "reported", "settle", "share"} \subseteq Holding /\ Billing \subseteq Holding
  BY DEF Billing, Refunding, Holding
<1>1. ASSUME NEW S, S \subseteq Unfinished, NEW b, b = Load(S) \/ b = NoRows, NEW s \in {"sweep", "poll"},
             s = "sweep" => b = NoRows, at[w] \in {"idle", "sweep"},
             batch' = [batch EXCEPT ![w] = b], Goto(w, s), UNCHANGED <<then, shares, held>>
      PROVE  QueryInv'
  <2>1. /\ DOMAIN b \subseteq Tasks /\ \A t \in DOMAIN b : Known(t, b[t]) /\ b[t].status \in Live
        /\ s = "sweep" => DOMAIN b = {}
    <3>1. CASE b = NoRows
      BY <3>1 DEF NoRows
    <3>2. CASE b = Load(S) /\ s # "sweep"
      BY <1>1, <1>t, <3>2 DEF Load, FirstOf, Unfinished, Known, TypeInv
    <3> QED
      BY <1>1, <3>1, <3>2
  <2>2. at'[w] = s /\ batch'[w] = b
    BY <1>1, <1>t DEF Goto, TypeInv
  <2>3. QueryWorker(w)'
    BY <1>b, <1>c, <2>1, <2>2 DEF QueryWorker
  <2>4. TypeInv' /\ \A v \in Workers \ {w} : SameWorker(v)
    BY <1>1, <1>t, <1>s DEF TypeInv, Goto, Steps, held, SameWorker
  <2> QED
    BY <1>1, <1>b, <1>s, <1>t, <2>2, <2>3, <2>4, QueryQuiet
<1>2. CASE SweepLoad(w)
  BY <1>1, <1>2, <1>q DEF SweepLoad, money
<1>3. CASE PollLoad(w)
  BY <1>1, <1>3 DEF PollLoad, money
<1>4. CASE PollDone(w)
  <2>1. at[w] = "poll" /\ at'[w] = "idle" /\ UNCHANGED <<then, batch, cur, snap, mem, shares>>
    BY <1>4, <1>t DEF PollDone, Goto, TypeInv, held, money
  <2>2. QueryWorker(w)'
    BY <1>t, <1>b, <1>c, <2>1 DEF QueryWorker
  <2>3. TypeInv' /\ \A v \in Workers \ {w} : SameWorker(v)
    BY <1>4, <1>t, <1>s, <2>1 DEF PollDone, TypeInv, Goto, Steps, SameWorker
  <2> QED
    BY <1>b, <1>s, <1>t, <2>1, <2>2, <2>3, QueryQuiet
<1>5. CASE w \in Pollers /\ PollAsk(w)
  <2>1. PICK t \in DOMAIN batch[w] :
          /\ batch' = [batch EXCEPT ![w] = Rest(w, t)]
          /\ \/ /\ \E new \in PollReport(t, batch[w][t]) : Handle(w, t, batch[w][t], new)
                /\ Goto(w, "reported")
             \/ UNCHANGED <<at, held>>
    BY <1>5 DEF PollAsk
  <2>2. /\ at[w] = "poll" /\ t \in Tasks /\ Known(t, batch[w][t]) /\ batch[w][t].status \in Live
        /\ UNCHANGED <<then, shares>>
    BY <1>5, <1>t DEF PollAsk, QueryWorker, money
  <2>3. batch'[w] = Rest(w, t) /\ DOMAIN batch' = Workers /\ \A v \in Workers \ {w} : batch'[v] = batch[v]
    BY <1>t, <2>1 DEF TypeInv
  <2>4. DOMAIN batch'[w] \subseteq Tasks /\ \A u \in DOMAIN batch'[w] : Known(u, batch[w][u])' /\ batch'[w][u] = batch[w][u] /\ batch'[w][u].status \in Live
    BY <1>t, <1>c, <2>3 DEF Rest, QueryWorker
  <2>5. CASE UNCHANGED <<at, held>>
    <3>1. QueryWorker(w)'
      BY <1>t, <1>b, <1>c, <2>2, <2>4, <2>5 DEF QueryWorker, held
    <3>2. TypeInv' /\ \A v \in Workers \ {w} : SameWorker(v)
      BY <1>t, <1>s, <2>2, <2>3, <2>5 DEF TypeInv, SameWorker, held
    <3> QED
      BY <1>b, <1>s, <1>t, <2>2, <2>5, <3>1, <3>2, QueryQuiet
  <2>6. ASSUME NEW new \in PollReport(t, batch[w][t]), Handle(w, t, batch[w][t], new), Goto(w, "reported")
        PROVE  QueryInv'
    <3>1. new \in Report(t, batch[w][t])
      BY <1>q, <2>6 DEF PollReport
    <3>2. PICK r : r = batch[w][t]
      OBVIOUS
    <3>3. Known(t, r) /\ Known(t, new) /\ r \in Rows /\ new \in Rows
      <4>1. Known(t, r) /\ new \in Report(t, r)
        BY <2>2, <3>1, <3>2
      <4>2. Known(t, new)
        BY <1>t, <2>2, <4>1, ReportKnown
      <4> QED
        BY <4>1, <4>2 DEF Known
    <3>4. at'[w] = "reported" /\ cur'[w] = t /\ snap'[w] = r /\ mem'[w] = new
      BY <1>t, <2>6, <3>2 DEF TypeInv, Goto, Handle
    <3>5. r.status \in Live /\ r.status \notin Terminal
      BY <2>2, <3>2, <3>3
    <3>6. QueryWorker(w)'
      BY <1>b, <1>c, <2>2, <2>4, <3>3, <3>4, <3>5 DEF QueryWorker
    <3>7. TypeInv' /\ \A v \in Workers \ {w} : SameWorker(v)
      BY <1>t, <1>s, <2>2, <2>3, <2>6, <3>2, <3>3 DEF TypeInv, SameWorker, Goto, Handle, Steps
    <3> QED
      BY <1>b, <1>s, <1>t, <2>2, <3>4, <3>6, <3>7, QueryQuiet
  <2> QED
    BY <2>1, <2>5, <2>6
<1>6. CASE w \in Fetchers /\ FetchLoad(w)
  <2>1. PICK t \in Tasks : Stored(t) /\ Handle(w, t, row[t], row[t])
    BY <1>6 DEF FetchLoad
  <2>2. row[t] \in Rows /\ Known(t, row[t])
    BY <1>t, <2>1 DEF Stored, TypeInv, Known, QueryInv, QueryMoney
  <2>3. at[w] = "idle" /\ Goto(w, "fetching") /\ UNCHANGED <<then, batch, shares>>
    BY <1>6 DEF FetchLoad, money
  <2>4. at'[w] = "fetching" /\ cur'[w] = t /\ snap'[w] = row[t] /\ mem'[w] = row[t]
    BY <1>t, <2>1, <2>3 DEF TypeInv, Goto, Handle
  <2>5. Known(t, row[t])'
    BY <1>c, <1>s, <2>2 DEF Known
  <2>6. QueryWorker(w)'
    BY <1>t, <1>b, <1>c, <1>s, <2>2, <2>3, <2>4, <2>5 DEF QueryWorker
  <2>7. TypeInv' /\ \A v \in Workers \ {w} : SameWorker(v)
    BY <1>t, <1>s, <2>1, <2>2, <2>3 DEF TypeInv, SameWorker, Goto, Handle, Steps
  <2> QED
    BY <1>b, <1>s, <1>t, <2>3, <2>4, <2>6, <2>7, QueryQuiet
<1>7. CASE w \in Fetchers /\ FetchAsk(w)
  <2>1. /\ at[w] = "fetching" /\ cur[w] \in Tasks /\ Known(cur[w], snap[w]) /\ mem[w] = snap[w]
        /\ UNCHANGED <<batch, shares>>
    BY <1>7, <1>t, <1>b DEF FetchAsk, QueryWorker, money
  <2>2. w \notin Pollers
    BY <1>7, TaskAssumption
  <2>3. ASSUME NEW new \in Report(cur[w], mem[w]), mem' = [mem EXCEPT ![w] = new],
               Goto(w, "reported"), UNCHANGED <<cur, snap, then>>
        PROVE  QueryInv'
    <3>1. Known(cur[w], new) /\ (snap[w].status \in Terminal => new.status = snap[w].status)
      BY <1>t, <2>1, <2>3, ReportKnown
    <3>2. at'[w] = "reported" /\ mem'[w] = new /\ new \in Rows
      BY <1>t, <2>3, <3>1 DEF TypeInv, Goto, Known
    <3>3. QueryWorker(w)'
      BY <1>t, <1>b, <1>c, <2>1, <2>2, <2>3, <3>1, <3>2 DEF QueryWorker
    <3>4. TypeInv' /\ \A v \in Workers \ {w} : SameWorker(v)
      BY <1>t, <1>s, <2>1, <2>3, <3>2 DEF TypeInv, SameWorker, Goto, Steps
    <3> QED
      BY <1>b, <1>s, <1>t, <2>1, <3>2, <3>3, <3>4, QueryQuiet
  <2>4. CASE Leave(w, "idle")
    <3>1. at'[w] = "idle"
      BY <1>t, <2>4 DEF Leave, Goto, TypeInv
    <3>2. QueryWorker(w)'
      BY <1>t, <1>b, <1>c, <2>1, <3>1 DEF QueryWorker
    <3>3. TypeInv' /\ \A v \in Workers \ {w} : SameWorker(v)
      BY <1>t, <1>s, <2>1, <2>4 DEF Leave, Drop, Handle, Goto, TypeInv, Steps, SameWorker
    <3> QED
      BY <1>b, <1>s, <1>t, <2>1, <3>1, <3>2, <3>3, QueryQuiet
  <2> QED
    BY <1>7, <2>3, <2>4 DEF FetchAsk
<1>8. CASE Settle(w)
  <2>1. /\ at[w] = "settle" /\ Goto(w, "share") /\ UNCHANGED <<then, batch, shares, cur, snap, mem>>
    BY <1>8, <1>q DEF Settle, Difference, held
  <2>2. at'[w] = "share"
    BY <1>t, <2>1 DEF Goto, TypeInv
  <2>3. QueryWorker(w)'
    BY <1>t, <1>b, <1>c, <2>1, <2>2 DEF QueryWorker
  <2>4. TypeInv' /\ \A v \in Workers \ {w} : SameWorker(v)
    BY <1>t, <1>s, <2>1 DEF TypeInv, SameWorker, Goto, Steps
  <2> QED
    BY <1>b, <1>s, <1>t, <2>1, <2>2, <2>3, <2>4, QueryQuiet
<1>9. CASE Share(w)
  <2>1. at[w] = "share" /\ then[w] \in {"poll", "idle"} /\ UNCHANGED batch
    BY <1>9, <1>t, <1>b DEF Share, QueryWorker
  <2>2. Goto(w, then[w]) /\ Drop(w) /\ then' = then
    BY <1>9, <2>1 DEF Share, Done
  <2>3. at'[w] \in {"poll", "idle"}
    BY <1>t, <2>1, <2>2 DEF Goto, TypeInv
  <2>4. shares' \in [Tasks -> Nat]
    <3>1. shares' = [shares EXCEPT ![cur[w]] = IF mem[w].quota > 0 THEN shares[cur[w]] + 1 ELSE shares[cur[w]]]
      BY <1>9 DEF Share
    <3>2. cur[w] \in Tasks /\ shares \in [Tasks -> Nat]
      BY <1>t, <1>b, <2>1 DEF QueryWorker, TypeInv
    <3> QED
      BY <3>1, <3>2
  <2>5. QueryWorker(w)'
    BY <1>t, <1>b, <1>c, <2>1, <2>3 DEF QueryWorker
  <2>6. TypeInv' /\ \A v \in Workers \ {w} : SameWorker(v)
    BY <1>t, <1>s, <2>1, <2>2, <2>4 DEF Drop, Handle, Goto, TypeInv, Steps, SameWorker
  <2> QED
    BY <1>b, <1>s, <1>t, <2>1, <2>3, <2>5, <2>6, QueryQuiet
<1> QED
  BY <1>2, <1>3, <1>4, <1>5, <1>6, <1>7, <1>8, <1>9

\* w writes new, the report on its copy r, over the row of t: it writes nothing;
\* or it makes the task fail and refunds it; or there is nothing to refund, or an
\* error of the write hides that there is.
QueryWrites(w, t, r, new) ==
  \/ row' = row /\ at'[w] \notin Refunding
  \/ /\ Won(t, r.status) /\ row' = [row EXCEPT ![t] = new]
     /\ at'[w] = "refund" /\ cur'[w] = t
     /\ new.status = "FAILURE" /\ r.status # "FAILURE"
  \/ /\ Won(t, r.status) /\ row' = [row EXCEPT ![t] = new]
     /\ at'[w] \notin Refunding
     /\ new.status # "FAILURE" \/ r.status = "FAILURE" \/ new.quota = 0 \/ t \in lost'

\* Where it leaves w: out of the task, or billing it.
QueryLands(w, t, r, new) ==
  \/ at'[w] \in {"poll", "idle"}
  \/ /\ at'[w] \in {"refund", "settle"} /\ cur'[w] = t /\ snap'[w] = r /\ mem'[w] = new
     /\ then'[w] \in {"poll", "idle"}

\* The first to write a failure finds the task unrefunded, and refunds it alone.
LEMMA QueryGuarded ==
  ASSUME QueryInv, NEW w \in Workers, NEW t \in Tasks, NEW r, Known(t, r), NEW new, Known(t, new),
         r.status \in Terminal => new.status = r.status,
         QueryWrites(w, t, r, new), QueryLands(w, t, r, new), TypeInv', faults' \in Nat,
         UNCHANGED <<up, charged, batch>>, lost \subseteq lost', at[w] = "reported",
         \A v \in Workers \ {w} : SameWorker(v)
  PROVE  QueryInv'
<1> USE RowFacts
<1>t. TypeInv /\ QueryWorker(w) /\ QueryMoney(t) /\ row[t] \in Rows /\ new \in Rows
  BY DEF QueryInv, Known
<1>b. /\ Billing \cap {"idle", "sweep", "poll", "fetching", "reported"} = {}
      /\ Refunding \cap {"idle", "sweep", "poll", "fetching", "reported", "settle", "share"} = {}
      /\ Holding \cap {"idle", "sweep", "poll"} = {} /\ {"settle", "refund"} \subseteq Billing
      /\ "refund" \in Refunding /\ Billing \subseteq Holding /\ Refunding \subseteq Holding
      /\ "FAILURE" \in Terminal
  BY DEF Billing, Refunding, Holding, Terminal
<1>1. CASE row' = row /\ at'[w] \notin Refunding
  <2>1. \A u, c : Known(u, c)' <=> Known(u, c)
    BY <1>1 DEF Known
  <2>2. QueryWorker(w)'
    <3>1. DOMAIN batch'[w] \subseteq Tasks /\ \A u \in DOMAIN batch'[w] : Known(u, batch[w][u])' /\ batch'[w][u].status \in Live
      BY <1>t, <2>1 DEF QueryWorker
    <3>2. CASE at'[w] \in {"poll", "idle"}
      BY <1>b, <3>1, <3>2 DEF QueryWorker
    <3>3. CASE at'[w] = "settle" /\ cur'[w] = t /\ snap'[w] = r /\ mem'[w] = new /\ then'[w] \in {"poll", "idle"}
      BY <1>b, <2>1, <3>1, <3>3 DEF QueryWorker
    <3> QED
      BY <1>1, <1>b, <3>2, <3>3 DEF QueryLands
  <2> QED
    BY <1>1, <1>b, <2>2, QueryQuiet
<1>2. CASE Won(t, r.status) /\ row' = [row EXCEPT ![t] = new]
  <2>1. row'[t] = new /\ row[t].status = r.status /\ new.quota = row[t].quota
        /\ \A u \in Tasks \ {t} : row'[u] = row[u]
    BY <1>t, <1>2 DEF TypeInv, Won, Known
  <2>2. Steady(t) /\ \A u \in Tasks : Steady(u)
    BY <1>t, <2>1 DEF Steady
  <2>3. \A u \in Tasks : \A c : Known(u, c) => Known(u, c)'
    BY <2>2, KnownStays
  <2>4. QueryWorker(w)'
    <3>1. DOMAIN batch'[w] \subseteq Tasks /\ \A u \in DOMAIN batch'[w] : Known(u, batch[w][u])' /\ batch'[w][u].status \in Live
      BY <1>t, <2>3 DEF QueryWorker
    <3>2. CASE at'[w] \in {"poll", "idle"}
      BY <1>b, <3>1, <3>2 DEF QueryWorker
    <3>3. CASE at'[w] \in {"refund", "settle"} /\ cur'[w] = t /\ snap'[w] = r /\ mem'[w] = new
               /\ then'[w] \in {"poll", "idle"}
      <4>1. at'[w] \in Refunding => row'[cur'[w]].status = "FAILURE"
        BY <2>1, <3>3 DEF QueryWrites
      <4>2. Known(t, r)' /\ Known(t, new)'
        BY <2>3
      <4> QED
        BY <1>b, <3>1, <3>3, <4>1, <4>2 DEF QueryWorker
    <3> QED
      BY <3>2, <3>3 DEF QueryLands
  <2>5. \A q : Costs(t, q)' <=> Costs(t, q)
    BY DEF Costs
  <2>6. \A v \in Workers \ {w} : (Refunds(v, t)' <=> Refunds(v, t)) /\ at'[v] = at[v]
    BY DEF Refunds, SameWorker
  <2>7. ~Refunds(w, t)
    BY <1>b DEF Refunds
  <2>8. new.status \in Terminal => new.status = up'[t]
    BY DEF Known
  <2>9. \A a \in Accounts : charged'[t][a] >= 0
    BY <1>t DEF QueryMoney
  <2>10. QueryMoney(t)'
    <3>1. CASE r.status = "FAILURE"
      <4>1. new.status = "FAILURE" /\ row[t].status = "FAILURE"
        BY <1>b, <2>1, <3>1
      <4>2. at'[w] \notin Refunding
        BY <3>1 DEF QueryWrites
      <4>3. \A v \in Workers : (Refunds(v, t)' <=> Refunds(v, t)) /\ (Refunds(v, t) => at'[v] = at[v])
        BY <2>6, <2>7, <4>2 DEF Refunds
      <4>4. \A v \in Workers : Refunds(v, t)' =>
              /\ at'[v] = "refund" => Costs(t, row[t].quota)'
              /\ at'[v] = "refundToken" => charged'[t]["funding"] = 0 /\ charged'[t]["token"] = row'[t].quota
        BY <1>t, <2>1, <2>5, <4>3 DEF QueryMoney
      <4>5. (\A v \in Workers : ~Refunds(v, t)') /\ t \notin lost' => Costs(t, 0)'
        BY <1>t, <2>5, <4>1, <4>3 DEF QueryMoney
      <4>6. \A u, v \in Workers : Refunds(u, t)' /\ Refunds(v, t)' => u = v
        BY <1>t, <4>3 DEF QueryMoney
      <4> QED
        BY <2>1, <2>8, <2>9, <4>1, <4>4, <4>5, <4>6 DEF QueryMoney
    <3>2. CASE r.status # "FAILURE"
      <4>1. Costs(t, new.quota) /\ Costs(t, row[t].quota)'
        BY <1>t, <2>1, <2>5, <3>2 DEF QueryMoney
      <4>2. \A v \in Workers : ~Refunds(v, t)
        BY <1>b, <2>1, <3>2 DEF QueryInv, QueryWorker, Refunds
      <4>3. \A v \in Workers : Refunds(v, t)' => v = w /\ at'[v] = "refund"
        BY <2>6, <4>2 DEF QueryWrites, Refunds
      <4>4. new.status = "FAILURE" /\ t \notin lost' /\ ~Refunds(w, t)' => new.quota = 0
        BY <1>b, <2>1, <3>2 DEF QueryWrites, Refunds
      <4>5. row'[t].status = "FAILURE" /\ t \notin lost' /\ (\A v \in Workers : ~Refunds(v, t)') => Costs(t, 0)'
        <5>1. new.quota = 0 => Costs(t, 0)'
          BY <2>5, <4>1
        <5> QED
          BY <2>1, <4>4, <5>1
      <4>6. \A v \in Workers : Refunds(v, t)' =>
              /\ at'[v] = "refund" => Costs(t, row[t].quota)'
              /\ at'[v] = "refundToken" => charged'[t]["funding"] = 0 /\ charged'[t]["token"] = row'[t].quota
        BY <4>1, <4>3
      <4>7. \A u, v \in Workers : Refunds(u, t)' /\ Refunds(v, t)' => u = v
        BY <4>3
      <4> QED
        BY <2>1, <2>8, <2>9, <4>1, <4>5, <4>6, <4>7 DEF QueryMoney
    <3> QED
      BY <3>1, <3>2
  <2>11. (at[w] \in Refunding => cur[w] = t) /\ (at'[w] \in Refunding => cur'[w] = t)
    BY <1>b DEF QueryLands
  <2>12. \A u \in Tasks \ {t} : row'[u] = row[u] /\ charged'[u] = charged[u]
    BY <2>1
  <2> QED
    BY <2>2, <2>4, <2>10, <2>11, <2>12, QueryStep
<1> QED
  BY <1>1, <1>2 DEF QueryWrites

\* A worker that leaves a task, and one that bills it.
LEMMA Leaving ==
  ASSUME TypeInv, NEW w \in Workers, NEW back \in {"poll", "idle"}, Leave(w, back), UNCHANGED batch
  PROVE  /\ at'[w] = back
         /\ at' \in [Workers -> Steps] /\ then' \in [Workers -> {"idle", "sweep", "poll", "save"}]
         /\ cur' \in [Workers -> Tasks \cup {NoOne}]
         /\ snap' \in [Workers -> Rows \cup {NoTask}] /\ mem' \in [Workers -> Rows \cup {NoTask}]
         /\ \A v \in Workers \ {w} : SameWorker(v)
BY DEF Leave, Drop, Handle, Goto, TypeInv, Steps, SameWorker

LEMMA Landing ==
  ASSUME TypeInv, NEW w \in Workers, NEW t \in Tasks, NEW r \in Rows, NEW new \in Rows,
         NEW s \in {"refund", "settle"}, NEW back \in {"poll", "idle"},
         Bill(w, t, r, new, s, back), UNCHANGED batch
  PROVE  /\ at'[w] = s /\ cur'[w] = t /\ snap'[w] = r /\ mem'[w] = new /\ then'[w] = back
         /\ at' \in [Workers -> Steps] /\ then' \in [Workers -> {"idle", "sweep", "poll", "save"}]
         /\ cur' \in [Workers -> Tasks \cup {NoOne}]
         /\ snap' \in [Workers -> Rows \cup {NoTask}] /\ mem' \in [Workers -> Rows \cup {NoTask}]
         /\ \A v \in Workers \ {w} : SameWorker(v)
BY DEF Bill, Handle, Goto, TypeInv, Steps, SameWorker

\* updateVideoSingleTask and tryRealtimeFetch write this way.
LEMMA QueryApplies ==
  ASSUME QueryInv, VideoQueries, NEW w \in Workers, PollApply(w) \/ FetchApply(w)
  PROVE  QueryInv'
<1> USE RowFacts
<1>t. TypeInv /\ QueryWorker(w) /\ faults \in Nat
  BY DEF QueryInv
<1>1. PICK t, r, new : t = cur[w] /\ r = snap[w] /\ new = mem[w]
  OBVIOUS
<1>2. at[w] = "reported" /\ "reported" \in Holding
  BY DEF PollApply, FetchApply, Holding
<1>3. /\ t \in Tasks /\ Known(t, r) /\ Known(t, new) /\ r \in Rows /\ new \in Rows
      /\ r.status \in Terminal => new.status = r.status
      /\ w \in Pollers => r.status \in Live
  BY <1>t, <1>1, <1>2 DEF QueryWorker, Known
<1>4. UNCHANGED <<scene, up, old, charged, shares, batch>>
  BY DEF PollApply, FetchApply, world, money
<1>5. /\ row' = row \/ row' = [row EXCEPT ![t] = new]
      /\ lost' = lost \/ lost' = lost \cup {t}
      /\ faults' = faults \/ faults' = faults + 1
  BY <1>1 DEF PollApply, FetchApply, UpdateWithStatus, WriteError, Lose, Fault
<1>6. \/ \E s \in {"refund", "settle"}, back \in {"poll", "idle"} : Bill(w, t, r, new, s, back)
      \/ \E back \in {"poll", "idle"} : Leave(w, back)
  BY <1>1 DEF PollApply, FetchApply
<1>7. QueryLands(w, t, r, new) /\ \A v \in Workers \ {w} : SameWorker(v)
  BY <1>t, <1>3, <1>4, <1>6, Leaving, Landing DEF QueryLands
<1>8. TypeInv' /\ faults' \in Nat /\ lost \subseteq lost'
  <2>1. /\ at' \in [Workers -> Steps] /\ then' \in [Workers -> {"idle", "sweep", "poll", "save"}]
        /\ cur' \in [Workers -> Tasks \cup {NoOne}]
        /\ snap' \in [Workers -> Rows \cup {NoTask}] /\ mem' \in [Workers -> Rows \cup {NoTask}]
    BY <1>t, <1>3, <1>4, <1>6, Leaving, Landing
  <2>2. row' \in [Tasks -> Rows \cup {NoTask}] /\ lost' \subseteq Tasks /\ lost \subseteq lost'
    BY <1>t, <1>3, <1>5 DEF TypeInv
  <2>3. faults' \in Nat
    BY <1>t, <1>5
  <2> QED
    BY <1>t, <1>4, <2>1, <2>2, <2>3 DEF TypeInv
<1>b. /\ Refunding \cap {"poll", "idle", "settle"} = {}
      /\ "FAILURE" \notin Live /\ "FAILURE" \in Terminal /\ "SUCCESS" \in Terminal
  BY DEF Refunding, Live, Terminal
<1>9. ASSUME NEW back \in {"poll", "idle"}, Leave(w, back) PROVE at'[w] = back
  BY <1>t, <1>4, <1>9, Leaving
<1>10. ASSUME NEW s \in {"refund", "settle"}, NEW back \in {"poll", "idle"}, Bill(w, t, r, new, s, back)
       PROVE  at'[w] = s /\ cur'[w] = t
  BY <1>t, <1>3, <1>4, <1>10, Landing
<1>11. ASSUME WriteError(t, r.status, new)
       PROVE  \/ row' = row
              \/ Won(t, r.status) /\ row' = [row EXCEPT ![t] = new] /\ t \in lost'
  BY <1>11 DEF WriteError, Lose
<1>12. ASSUME UpdateWithStatus(t, r.status, new)
       PROVE  \/ row' = row /\ ~Won(t, r.status)
              \/ Won(t, r.status) /\ row' = [row EXCEPT ![t] = new]
  BY <1>12 DEF UpdateWithStatus
<1>13. CASE PollApply(w)
  <2>1. w \in Pollers /\ r.status # "FAILURE"
    BY <1>13, <1>3, <1>b DEF PollApply
  <2>2. \/ /\ UpdateWithStatus(t, r.status, new)
           /\ \/ /\ Won(t, r.status) /\ new.status = "SUCCESS"
                 /\ Bill(w, t, r, new, "settle", "poll")
              \/ /\ Won(t, r.status) /\ new.status = "FAILURE" /\ new.quota # 0
                 /\ Bill(w, t, r, new, "refund", "poll")
              \/ /\ ~Won(t, r.status) \/ new.status = "IN_PROGRESS" \/ (new.status = "FAILURE" /\ new.quota = 0)
                 /\ Leave(w, "poll")
        \/ WriteError(t, r.status, new) /\ Leave(w, "poll")
    BY <1>13, <1>1 DEF PollApply
  <2>7. QueryWrites(w, t, r, new)
    <3>1. CASE WriteError(t, r.status, new) /\ Leave(w, "poll")
      BY <1>9, <1>11, <1>b, <3>1 DEF QueryWrites
    <3>2. CASE UpdateWithStatus(t, r.status, new) /\ Leave(w, "poll")
               /\ (~Won(t, r.status) \/ new.status = "IN_PROGRESS" \/ (new.status = "FAILURE" /\ new.quota = 0))
      BY <1>9, <1>12, <1>b, <3>2 DEF QueryWrites
    <3>3. CASE UpdateWithStatus(t, r.status, new) /\ new.status = "SUCCESS" /\ Bill(w, t, r, new, "settle", "poll")
      BY <1>10, <1>12, <1>b, <3>3 DEF QueryWrites
    <3>4. CASE UpdateWithStatus(t, r.status, new) /\ Won(t, r.status)
               /\ new.status = "FAILURE" /\ Bill(w, t, r, new, "refund", "poll")
      BY <1>10, <1>12, <2>1, <3>4 DEF QueryWrites
    <3> QED
      BY <2>2, <3>1, <3>2, <3>3, <3>4
  <2> QED
    BY <1>2, <1>3, <1>4, <1>7, <1>8, <2>7, QueryGuarded
<1>14. CASE FetchApply(w)
  <2>1. \E write \in {TRUE, new # r} :
          /\ \/ write /\ UpdateWithStatus(t, r.status, new) /\ UNCHANGED <<lost, faults>>
             \/ write /\ WriteError(t, r.status, new)
             \/ ~write /\ UNCHANGED <<row, lost, faults>>
          /\ \/ new.status = "SUCCESS" /\ Bill(w, t, r, new, "settle", "idle")
             \/ /\ new.status = "FAILURE" /\ r.status # "FAILURE"
                /\ write /\ Won(t, r.status) /\ faults' = faults
                /\ Bill(w, t, r, new, "refund", "idle")
             \/ /\ new.status \in Terminal =>
                     \/ new.status = r.status
                     \/ new.status = "FAILURE" /\ ~(new.quota # 0 /\ Won(t, r.status) /\ faults' = faults)
                /\ Leave(w, "idle")
    BY <1>14, <1>1 DEF FetchApply
  <2>2. WriteError(t, r.status, new) => faults' # faults
    BY <1>t DEF WriteError, Fault
  <2>3. \/ UpdateWithStatus(t, r.status, new) /\ faults' = faults
        \/ WriteError(t, r.status, new)
        \/ row' = row
    BY <2>1
  <2>4. \/ new.status = "SUCCESS" /\ Bill(w, t, r, new, "settle", "idle")
        \/ /\ new.status = "FAILURE" /\ r.status # "FAILURE" /\ UpdateWithStatus(t, r.status, new)
           /\ Won(t, r.status) /\ Bill(w, t, r, new, "refund", "idle")
        \/ /\ new.status \in Terminal =>
                \/ new.status = r.status
                \/ new.status = "FAILURE" /\ ~(new.quota # 0 /\ Won(t, r.status) /\ faults' = faults)
           /\ Leave(w, "idle")
    BY <2>1, <2>2
  <2>8. QueryWrites(w, t, r, new)
    <3>1. CASE new.status = "SUCCESS" /\ Bill(w, t, r, new, "settle", "idle")
      BY <1>10, <1>11, <1>12, <1>b, <2>3, <3>1 DEF QueryWrites
    <3>2. CASE /\ new.status = "FAILURE" /\ r.status # "FAILURE" /\ UpdateWithStatus(t, r.status, new)
               /\ Won(t, r.status) /\ Bill(w, t, r, new, "refund", "idle")
      BY <1>10, <1>12, <3>2 DEF QueryWrites
    <3>3. CASE /\ new.status \in Terminal =>
                    \/ new.status = r.status
                    \/ new.status = "FAILURE" /\ ~(new.quota # 0 /\ Won(t, r.status) /\ faults' = faults)
               /\ Leave(w, "idle")
      <4>1. at'[w] \notin Refunding
        BY <1>9, <1>b, <3>3
      <4>2. CASE UpdateWithStatus(t, r.status, new) /\ faults' = faults
        BY <1>12, <1>b, <3>3, <4>1, <4>2 DEF QueryWrites
      <4>3. CASE WriteError(t, r.status, new) \/ row' = row
        BY <1>11, <4>1, <4>3 DEF QueryWrites
      <4> QED
        BY <2>3, <4>2, <4>3
    <3> QED
      BY <2>4, <3>1, <3>2, <3>3
  <2> QED
    BY <1>2, <1>3, <1>4, <1>7, <1>8, <2>8, QueryGuarded
<1> QED
  BY <1>13, <1>14

\* The one that refunds t goes on, or is through, or leaves it for lost.
LEMMA QueryRefunding ==
  ASSUME QueryInv, NEW w \in Workers, at[w] \in Refunding, NEW t \in Tasks, t = cur[w],
         TypeInv', faults' \in Nat, UNCHANGED <<row, up>>, lost \subseteq lost',
         \A v \in Workers \ {w} : SameWorker(v),
         \A u \in Tasks \ {t} : charged'[u] = charged[u],
         DOMAIN batch'[w] \subseteq DOMAIN batch[w],
         \A u \in DOMAIN batch'[w] : batch'[w][u] = batch[w][u],
         \A a \in Accounts : charged'[t][a] >= 0,
         \/ /\ at'[w] = "refundToken" /\ UNCHANGED <<cur, snap, mem, then>>
            /\ charged'[t]["funding"] = 0 /\ charged'[t]["token"] = row[t].quota
         \/ at'[w] \in {"poll", "idle"} /\ (t \in lost' \/ Costs(t, 0)')
  PROVE  QueryInv'
<1> USE RowFacts
<1>t. TypeInv /\ QueryWorker(w) /\ QueryMoney(t)
  BY DEF QueryInv
<1>b. /\ Holding \cap {"idle", "sweep", "poll"} = {} /\ Billing \cap {"idle", "sweep", "poll"} = {}
      /\ Refunding \cap {"idle", "sweep", "poll", "fetching", "reported"} = {}
      /\ "refundToken" \in Refunding /\ Refunding \subseteq Billing /\ Billing \subseteq Holding
      /\ "FAILURE" \in Terminal
  BY DEF Billing, Refunding, Holding, Terminal
<1>1. row[t].status = "FAILURE" /\ row[t] \in Rows /\ Steady(t) /\ \A u, c : Known(u, c)' <=> Known(u, c)
  <2>1. row[t].status = "FAILURE" /\ row[t] \in Rows
    BY <1>t, <1>b DEF QueryWorker, Known
  <2>2. \A u, c : Known(u, c)' <=> Known(u, c)
    BY DEF Known
  <2> QED
    BY <2>1, <2>2 DEF Steady
<1>2. \A v \in Workers \ {w} : ~Refunds(v, t) /\ ~Refunds(v, t)'
  BY <1>t DEF QueryMoney, Refunds, SameWorker
<1>3. QueryWorker(w)'
  <2>1. DOMAIN batch'[w] \subseteq Tasks /\ \A u \in DOMAIN batch'[w] : Known(u, batch[w][u])' /\ batch'[w][u].status \in Live
    BY <1>t, <1>1 DEF QueryWorker
  <2>2. CASE at'[w] = "refundToken" /\ UNCHANGED <<cur, snap, mem, then>>
    BY <1>t, <1>b, <1>1, <2>1, <2>2 DEF QueryWorker
  <2>3. CASE at'[w] \in {"poll", "idle"}
    BY <1>b, <2>1, <2>3 DEF QueryWorker
  <2> QED
    BY <2>2, <2>3
<1>4. QueryMoney(t)'
  <2>1. row'[t].status \in Terminal => row'[t].status = up'[t]
    BY <1>t DEF QueryMoney
  <2>2. \A u, v \in Workers : Refunds(u, t)' /\ Refunds(v, t)' => u = v
    BY <1>2
  <2>3. CASE at'[w] = "refundToken" /\ cur' = cur /\ charged'[t]["funding"] = 0 /\ charged'[t]["token"] = row[t].quota
    <3>1. Refunds(w, t)'
      BY <1>b, <2>3 DEF Refunds
    <3> QED
      BY <1>1, <1>2, <2>1, <2>2, <2>3, <3>1 DEF QueryMoney
  <2>4. CASE at'[w] \in {"poll", "idle"} /\ (t \in lost' \/ Costs(t, 0)')
    <3>1. \A v \in Workers : ~Refunds(v, t)'
      BY <1>2, <1>b, <2>4 DEF Refunds
    <3> QED
      BY <1>1, <2>1, <2>2, <2>4, <3>1 DEF QueryMoney
  <2> QED
    BY <2>3, <2>4
<1>5. at'[w] \in Refunding => cur'[w] = t
  BY <1>b
<1>6. \A u \in Tasks \ {t} : row'[u] = row[u] /\ charged'[u] = charged[u]
  OBVIOUS
<1> QED
  BY <1>1, <1>3, <1>4, <1>5, <1>6, QueryStep

\* RefundTaskQuota gives back what the task cost, one account after the other.
LEMMA QueryRefund ==
  ASSUME QueryInv, NEW w \in Workers, Refund(w) \/ RefundToken(w)
  PROVE  QueryInv'
<1> USE RowFacts
<1>t. TypeInv /\ QueryWorker(w) /\ faults \in Nat
  BY DEF QueryInv
<1>b. {"refund", "refundToken"} = Refunding /\ Refunding \subseteq Billing /\ Billing \subseteq Holding
  BY DEF Refunding, Billing, Holding
<1>1. at[w] \in Refunding /\ cur[w] \in Tasks /\ then[w] \in {"poll", "idle"}
  BY <1>t, <1>b DEF Refund, RefundToken, QueryWorker
<1>2. PICK t \in Tasks : t = cur[w]
  BY <1>1
<1>3. PICK q \in Nat : q = mem[w].quota /\ q = row[t].quota
  BY <1>t, <1>b, <1>1, <1>2 DEF QueryWorker, Known
<1>4. QueryMoney(t) /\ Refunds(w, t) /\ UNCHANGED <<scene, row, up, old, shares, batch>>
  BY <1>1, <1>2 DEF QueryInv, Refund, RefundToken, world, Refunds
<1>5. ASSUME Done(w)
      PROVE  /\ at'[w] \in {"poll", "idle"} /\ \A v \in Workers \ {w} : SameWorker(v)
             /\ at' \in [Workers -> Steps] /\ then' \in [Workers -> {"idle", "sweep", "poll", "save"}]
             /\ cur' \in [Workers -> Tasks \cup {NoOne}]
             /\ snap' \in [Workers -> Rows \cup {NoTask}] /\ mem' \in [Workers -> Rows \cup {NoTask}]
  <2>1. \E back \in {"poll", "idle"} : Leave(w, back)
    BY <1>1, <1>5 DEF Done, Leave
  <2> QED
    BY <1>t, <1>4, <2>1, Leaving
<1>6. /\ -q \in Int /\ {"funding", "token"} \subseteq Accounts
      /\ lost' = lost \/ lost' = lost \cup {t}
      /\ faults' \in Nat
  BY <1>t, <1>2 DEF Accounts, Refund, RefundToken, Lose, Fault
<1>7. ASSUME Done(w), charged' = charged, \A a \in Accounts : charged[t][a] >= 0, t \in lost'
      PROVE  QueryInv'
  <2>1. TypeInv'
    BY <1>t, <1>4, <1>5, <1>6, <1>7 DEF TypeInv
  <2> QED
    BY <1>1, <1>2, <1>4, <1>5, <1>6, <1>7, <2>1, QueryRefunding
<1>8. CASE Refund(w)
  <2>1. at[w] = "refund" /\ charged[t]["funding"] = q /\ charged[t]["token"] = q
    BY <1>8, <1>3, <1>4, TwoAccounts DEF Refund, QueryMoney
  <2>2. ASSUME Charge(t, "funding", -q)
        PROVE  /\ charged' \in [Tasks -> [Accounts -> Int]] /\ \A u \in Tasks \ {t} : charged'[u] = charged[u]
               /\ charged'[t]["funding"] = 0 /\ charged'[t]["token"] = q
               /\ \A a \in Accounts : charged'[t][a] >= 0
    <3>1. /\ charged' \in [Tasks -> [Accounts -> Int]] /\ \A u \in Tasks \ {t} : charged'[u] = charged[u]
          /\ charged'[t]["funding"] = charged[t]["funding"] + (-q) /\ charged'[t]["token"] = charged[t]["token"]
      BY <1>t, <1>6, <2>2, ChargeEffect
    <3>2. charged'[t]["funding"] = 0 /\ charged'[t]["token"] = q
      BY <2>1, <3>1
    <3>3. \A a \in Accounts : charged'[t][a] >= 0
      BY <3>2 DEF Accounts
    <3> QED
      BY <3>1, <3>2, <3>3
  <2>3. ASSUME Charge(t, "funding", -q), Goto(w, "refundToken"), UNCHANGED <<then, cur, snap, mem>>
        PROVE  QueryInv'
    <3>1. at'[w] = "refundToken" /\ (\A v \in Workers \ {w} : SameWorker(v)) /\ at' \in [Workers -> Steps]
      BY <1>t, <1>4, <2>3 DEF Goto, TypeInv, SameWorker, Steps
    <3>2. TypeInv'
      BY <1>t, <1>4, <1>6, <2>2, <2>3, <3>1 DEF TypeInv
    <3> QED
      BY <1>1, <1>2, <1>3, <1>4, <1>6, <2>2, <2>3, <3>1, <3>2, QueryRefunding
  <2>4. ASSUME Lose(t), Done(w), Charge(t, "funding", -q) PROVE QueryInv'
    <3>1. TypeInv' /\ t \in lost'
      BY <1>t, <1>4, <1>5, <1>6, <2>2, <2>4 DEF TypeInv, Lose
    <3> QED
      BY <1>1, <1>2, <1>4, <1>5, <1>6, <2>2, <2>4, <3>1, QueryRefunding
  <2>5. ASSUME Lose(t), Done(w), UNCHANGED charged PROVE QueryInv'
    BY <1>4, <1>7, <2>5 DEF Lose, QueryMoney
  <2>6. \/ Charge(t, "funding", -q) /\ Goto(w, "refundToken") /\ UNCHANGED <<then, cur, snap, mem>>
        \/ Lose(t) /\ Done(w) /\ (UNCHANGED charged \/ Charge(t, "funding", -q))
    BY <1>8, <1>2, <1>3 DEF Refund, held
  <2> QED
    BY <2>3, <2>4, <2>5, <2>6
<1>9. CASE RefundToken(w)
  <2>1. at[w] = "refundToken" /\ charged[t]["funding"] = 0 /\ charged[t]["token"] = q
    BY <1>9, <1>3, <1>4 DEF RefundToken, QueryMoney
  <2>2. \/ Charge(t, "token", -q) /\ lost' = lost /\ Done(w)
        \/ Lose(t) /\ UNCHANGED charged /\ Done(w)
    BY <1>9, <1>2, <1>3 DEF RefundToken
  <2>3. CASE Charge(t, "token", -q) /\ lost' = lost /\ Done(w)
    <3>1. /\ charged' \in [Tasks -> [Accounts -> Int]] /\ \A u \in Tasks \ {t} : charged'[u] = charged[u]
          /\ charged'[t]["token"] = charged[t]["token"] + (-q) /\ charged'[t]["funding"] = charged[t]["funding"]
      BY <1>t, <1>6, <2>3, ChargeEffect
    <3>2. charged'[t]["funding"] = 0 /\ charged'[t]["token"] = 0
      BY <2>1, <3>1
    <3>3. Costs(t, 0)' /\ \A a \in Accounts : charged'[t][a] >= 0
      BY <3>2, TwoAccounts
    <3>4. TypeInv'
      BY <1>t, <1>4, <1>5, <1>6, <2>3, <3>1 DEF TypeInv
    <3> QED
      BY <1>1, <1>2, <1>4, <1>5, <1>6, <2>3, <3>1, <3>3, <3>4, QueryRefunding
  <2>4. CASE Lose(t) /\ UNCHANGED charged /\ Done(w)
    BY <1>4, <1>7, <2>4 DEF Lose, QueryMoney
  <2> QED
    BY <2>2, <2>3, <2>4
<1> QED
  BY <1>8, <1>9

\* A crash leaves the task to nobody: what was not given back is lost.
LEMMA QueryCrash ==
  ASSUME QueryInv, NEW w \in Workers, Crash(w)
  PROVE  QueryInv'
<1> USE RowFacts
<1>t. TypeInv /\ QueryWorker(w) /\ faults \in Nat
  BY DEF QueryInv
<1>b. /\ Refunding \subseteq Billing /\ Billing \subseteq Holding /\ Refunding \cap {"idle"} = {}
      /\ Holding \cap {"idle"} = {} /\ Billing \cap {"idle"} = {}
  BY DEF Refunding, Billing, Holding
<1>1. UNCHANGED <<scene, row, up, old, charged, shares>> /\ faults' \in Nat
  BY <1>t DEF Crash, world, money, Fault
<1>2. /\ at'[w] = "idle" /\ batch'[w] = NoRows /\ DOMAIN batch'[w] = {} /\ DOMAIN batch' = Workers
      /\ at' \in [Workers -> Steps] /\ then' \in [Workers -> {"idle", "sweep", "poll", "save"}]
      /\ cur' \in [Workers -> Tasks \cup {NoOne}]
      /\ snap' \in [Workers -> Rows \cup {NoTask}] /\ mem' \in [Workers -> Rows \cup {NoTask}]
      /\ \A v \in Workers \ {w} : SameWorker(v)
  BY <1>t DEF Crash, Leave, Drop, Handle, Goto, NoRows, TypeInv, Steps, SameWorker
<1>3. lost \subseteq lost' /\ lost' \subseteq Tasks /\ (at[w] \in Refunding => cur[w] \in Tasks /\ cur[w] \in lost')
  BY <1>t, <1>b DEF Crash, QueryWorker, TypeInv
<1>4. TypeInv'
  BY <1>t, <1>1, <1>2, <1>3 DEF TypeInv
<1>5. CASE at[w] \notin Refunding
  <2>1. QueryWorker(w)'
    BY <1>2, <1>b DEF QueryWorker
  <2> QED
    BY <1>1, <1>2, <1>3, <1>4, <1>5, <1>b, <2>1, QueryQuiet
<1>6. CASE at[w] \in Refunding
  <2>1. PICK t \in Tasks : t = cur[w] /\ t \in lost'
    BY <1>3, <1>6
  <2>2. \A a \in Accounts : charged'[t][a] >= 0
    BY <1>1 DEF QueryInv, QueryMoney
  <2> QED
    BY <1>1, <1>2, <1>3, <1>4, <1>6, <2>1, <2>2, QueryRefunding
<1> QED
  BY <1>5, <1>6

\* Who may take a step.
LEMMA StepsOfQueries ==
  ASSUME QueryInv, VideoQueries, Next
  PROVE  \/ World
         \/ \E w \in Workers :
              \/ w \in Pollers /\ (SweepLoad(w) \/ PollLoad(w) \/ PollDone(w) \/ PollAsk(w))
              \/ w \in Fetchers /\ (FetchLoad(w) \/ FetchAsk(w))
              \/ PollApply(w) \/ FetchApply(w) \/ Settle(w) \/ Share(w)
              \/ Refund(w) \/ RefundToken(w) \/ Crash(w)
<1>1. Pollers \subseteq Workers /\ Fetchers \subseteq Workers /\ scene.workers \subseteq Workers
  BY TaskAssumption DEF QueryInv, TypeInv, Workers, Scenario
<1>2. ASSUME NEW w \in Workers PROVE ~SunoApply(w) /\ ~SunoSave(w) /\ ~SettleToken(w) /\ ~SaveQuota(w)
  <2>1. at[w] \notin {"save", "settleToken", "saveQuota"}
    BY DEF QueryInv, QueryWorker, Refunding
  <2> QED
    BY <2>1 DEF VideoQueries, SunoApply, SunoSave, SettleToken, SaveQuota
<1>3. ASSUME NEW w \in Workers PROVE ~SweepTask(w) /\ ~failTaskAndRefund(w)
  BY DEF QueryInv, QueryWorker, SweepTask, failTaskAndRefund, VideoQueries, Queried, Conditions
<1> QED
  BY <1>1, <1>2, <1>3 DEF Next, PollerStep, FetcherStep, BillingStep

\* The invariant is inductive.
LEMMA QueryKeeps ==
  ASSUME QueryInv, VideoQueries, [Next]_vars
  PROVE  QueryInv'
<1>1. CASE Next
  BY <1>1, StepsOfQueries, QueryWorld, QueryMoves, QueryApplies, QueryRefund, QueryCrash
<1>2. CASE UNCHANGED vars
  <2>1. (\A v \in Workers : SameWorker(v)) /\ UNCHANGED <<row, up, charged, lost, faults>>
    BY <1>2 DEF vars, SameWorker
  <2>2. TypeInv' /\ \A u \in Tasks : Steady(u)
    BY <1>2 DEF vars, QueryInv, TypeInv, Steady
  <2>3. \A v \in Workers : QueryWorker(v)'
    BY <2>1, <2>2, QueryOthers DEF QueryInv
  <2>4. ASSUME NEW u \in Tasks PROVE QueryMoney(u)'
    BY <2>1, QueryOtherTasks DEF QueryInv, Refunds, SameWorker
  <2> QED
    BY <2>1, <2>2, <2>3, <2>4 DEF QueryInv
<1> QED
  BY <1>1, <1>2

\* It holds at first.
LEMMA QueryStart == Init => QueryInv
<1> SUFFICES ASSUME Init PROVE QueryInv
  OBVIOUS
<1> USE RowFacts
<1>1. TypeInv /\ faults \in Nat
  BY DEF Init, TypeInv, Steps, Terminal
<1>2. ASSUME NEW w \in Workers PROVE QueryWorker(w)
  BY DEF Init, QueryWorker, Refunding, Holding, Billing, NoRows
<1>3. ASSUME NEW t \in Tasks PROVE QueryMoney(t)
  <2>1. row[t] = NoTask /\ \A a \in Accounts : charged[t][a] = 0
    BY DEF Init
  <2>2. \A w \in Workers : ~Refunds(w, t)
    BY DEF Init, Refunds, Refunding
  <2>3. row[t].status # "FAILURE"
    BY <2>1 DEF NoTask
  <2> QED
    BY <2>1, <2>2, <2>3 DEF QueryMoney
<1> QED
  BY <1>1, <1>2, <1>3 DEF QueryInv

\* A query that writes over a final row writes the status it has.
LEMMA QueryFinal ==
  ASSUME QueryInv, VideoQueries, Next, NEW t \in Tasks, row[t].status \in Terminal
  PROVE  row'[t].status = row[t].status
<1> USE RowFacts
<1>t. TypeInv /\ row[t] \in Rows
  BY DEF QueryInv, TypeInv
<1>1. CASE World
  BY <1>1, <1>t DEF World, Submit, UpstreamMoves, Age, Stored, TypeInv
<1>2. ASSUME NEW w \in Workers, PollApply(w) \/ FetchApply(w) PROVE row'[t].status = row[t].status
  <2>1. at[w] = "reported" /\ "reported" \in Holding
    BY <1>2 DEF PollApply, FetchApply, Holding
  <2>2. snap[w].status \in Terminal => mem[w].status = snap[w].status
    BY <2>1 DEF QueryInv, QueryWorker
  <2>3. row' = row \/ (Won(cur[w], snap[w].status) /\ row' = [row EXCEPT ![cur[w]] = mem[w]])
    BY <1>2 DEF PollApply, FetchApply, UpdateWithStatus, WriteError
  <2> QED
    BY <1>t, <2>2, <2>3 DEF Won, TypeInv
<1>3. ASSUME NEW w \in Workers,
             \/ SweepLoad(w) \/ PollLoad(w) \/ PollDone(w) \/ PollAsk(w) \/ FetchLoad(w) \/ FetchAsk(w)
             \/ Settle(w) \/ Share(w) \/ Refund(w) \/ RefundToken(w) \/ Crash(w)
      PROVE  row'[t].status = row[t].status
  BY <1>3 DEF SweepLoad, PollLoad, PollDone, PollAsk, FetchLoad, FetchAsk, Settle, Share, Refund, RefundToken, Crash
<1> QED
  BY <1>1, <1>2, <1>3, StepsOfQueries

-----------------------------------------------------------------------------
(* The theorems *)

\* The scenario does not change, so that one of the invariants holds throughout.
EitherInv == scene \in Scenarios /\ (Polled(scene) => IInv) /\ (Queried(scene) => QueryInv)

LEMMA Inductive ==
  ASSUME VideoTasks
  PROVE  Spec => []EitherInv
<1>1. Init => EitherInv
  BY StartKeeps, QueryStart DEF EitherInv, Init
<1>2. EitherInv /\ [Next]_vars => EitherInv'
  <2> SUFFICES ASSUME EitherInv, [Next]_vars PROVE EitherInv'
    OBVIOUS
  <2>1. scene' = scene
    BY DEF Next, vars, World, Submit, UpstreamMoves, Age, PollerStep, FetcherStep, BillingStep, Crash, world,
           SweepLoad, SweepTask, PollLoad, PollDone, failTaskAndRefund, FailAndRefund, PollAsk, PollApply, SunoApply,
           SunoSave, FetchLoad, FetchAsk, FetchApply, Refund, RefundToken, Settle, SettleToken, SaveQuota, Share
  <2>2. Polled(scene)' <=> Polled(scene)
    BY <2>1 DEF Polled
  <2>3. Queried(scene)' <=> Queried(scene)
    BY <2>1 DEF Queried
  <2>4. Polled(scene) => IInv'
    BY NextKeeps DEF EitherInv, VideoTasks, VideoPollers
  <2>5. Queried(scene) => QueryInv'
    BY QueryKeeps DEF EitherInv, VideoTasks, VideoQueries
  <2> QED
    BY <2>1, <2>2, <2>3, <2>4, <2>5 DEF EitherInv
<1> QED
  BY <1>1, <1>2, PTL DEF Spec

\* However many pollers sweep, misread the upstream, fail and crash, or however
\* many of them and of the users' queries meet in a task billed per call: unless
\* a billing step went wrong for good, a task costs what its row says.
THEOREM TaskCostCorrect ==
  ASSUME VideoTasks
  PROVE  Spec => []CostsWhatRowSays
<1>1. EitherInv => CostsWhatRowSays
  <2> SUFFICES ASSUME EitherInv, NEW t \in Tasks \ lost, Stored(t), ~InBilling(t)
               PROVE  \/ row[t].status # "FAILURE" /\ Costs(t, row[t].quota)
                      \/ row[t].status = "FAILURE" /\ Costs(t, 0)
                      \/ row[t].status = "FAILURE" /\ IsLegacy /\ t \in old /\ Costs(t, row[t].quota)
    BY DEF CostsWhatRowSays
  <2>1. CASE IInv
    <3>1. row[t] \in Rows /\ MoneyInv(t)
      BY <2>1 DEF IInv, TypeInv, Stored
    <3> QED
      BY <3>1 DEF MoneyInv
  <2>2. CASE QueryInv
    <3>1. row[t] \in Rows /\ QueryMoney(t)
      BY <2>2 DEF QueryInv, TypeInv, Stored
    <3>2. \A w \in Workers : ~Refunds(w, t)
      BY DEF InBilling, Bills, Refunds, Refunding, Billing
    <3> QED
      BY <3>1, <3>2 DEF QueryMoney
  <2> QED
    BY <2>1, <2>2 DEF EitherInv, VideoTasks
<1> QED
  BY <1>1, Inductive, PTL

\* No task gives back more than it cost, also when a step went wrong: only who
\* wins the write into FAILURE refunds, once, and nobody has settled by then.
THEOREM TaskRefundBounded ==
  ASSUME VideoTasks
  PROVE  Spec => []NeverRefundsMore
<1>1. EitherInv => NeverRefundsMore
  BY DEF EitherInv, VideoTasks, IInv, MoneyInv, QueryInv, QueryMoney, NeverRefundsMore
<1> QED
  BY <1>1, Inductive, PTL

\* At most one profit share is posted for a task that only pollers handle.
THEOREM TaskSharedOnce ==
  ASSUME VideoTasks
  PROVE  Spec => []PollersShareOnce
<1>1. EitherInv => PollersShareOnce
  <2> SUFFICES ASSUME EitherInv, scene.workers \subseteq Pollers PROVE ShareOnce
    BY DEF PollersShareOnce
  <2>1. Polled(scene)
    BY DEF EitherInv, VideoTasks, Polled, Queried
  <2> QED
    BY <2>1 DEF EitherInv, IInv, MoneyInv, ShareOnce
<1> QED
  BY <1>1, Inductive, PTL

\* A task that is SUCCESS or FAILURE stays so, whatever the workers do.
THEOREM TaskFinalityKept ==
  ASSUME VideoTasks
  PROVE  Spec => FinalStaysFinal
<1>1. EitherInv /\ [Next]_vars => [\A t \in Tasks : row[t].status \in Terminal => row'[t].status = row[t].status]_vars
  BY FinalStep, QueryFinal DEF EitherInv, VideoTasks, VideoPollers, VideoQueries
<1> QED
  BY <1>1, Inductive, PTL DEF Spec, FinalStaysFinal
=============================================================================
