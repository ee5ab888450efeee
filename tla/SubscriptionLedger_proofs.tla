---------------------- MODULE SubscriptionLedger_proofs ----------------------
(***************************************************************************)
(* amount_used stays between zero and amount_total for every number of     *)
(* requests, every total, amount and difference, either isolation level,   *)
(* and any number of periods and faults.                                   *)
(***************************************************************************)
EXTENDS SubscriptionLedger, TLAPS

\* What a transaction found to fit when it read the row still fits when it
\* saves it, because it saves what it read and not what the row has become.
StillFits ==
    \A q \in Requests :
        /\ pc[q] = "preConsume" => Fits(seen[q].row.used + amount[q])
        /\ pc[q] = "settle" => Fits(AfterDelta(seen[q].row.used, delta[q]))
        /\ pc[q] = "giveBack" => Fits(seen[q].row.used)

IInv == TypeOK /\ UsedInRange /\ StillFits

\* The bound of PostConsumeUserSubscriptionDelta keeps amount_used natural.
LEMMA AfterDeltaNat ==
    ASSUME NEW u \in Nat, NEW d \in Int
    PROVE  AfterDelta(u, d) \in Nat
BY DEF AfterDelta

\* Giving back never makes an amount too large.
LEMMA GivingBackFits ==
    ASSUME NEW u \in Nat, NEW n \in Nat, Fits(u)
    PROVE  Fits(AfterDelta(u, -n))
BY LedgerAssumption DEF AfterDelta, Fits

\* A reset, applied or not, leaves a row of the right type that fits.
LEMMA AfterResetFits ==
    ASSUME TypeOK, UsedInRange
    PROVE  AfterReset \in Subs /\ Fits(AfterReset.used)
BY LedgerAssumption DEF TypeOK, UsedInRange, AfterReset, Due, Subs, Fits

\* A saved row is a row, and holds the amount it was saved with.
LEMMA SavedRow ==
    ASSUME NEW s \in [row : Subs, version : Nat], NEW n \in Nat, Save(s, n), version \in Nat
    PROVE  sub' \in Subs /\ sub'.used = n /\ version' \in Nat
BY DEF Save, Subs

\* A failed attempt leads to another one, never beyond the last.
LEMMA AttemptFailsType ==
    ASSUME TypeOK, NEW q \in Requests, AttemptFails(q)
    PROVE  pc' \in [Requests -> Steps] /\ attempt' \in [Requests -> 0 .. maxAttempts]
<1>1. CASE attempt[q] < maxAttempts
  <2>1. pc' = [pc EXCEPT ![q] = "refund"] /\ attempt' = [attempt EXCEPT ![q] = @ + 1]
    BY <1>1 DEF AttemptFails, Goto
  <2>2. attempt[q] + 1 \in 0 .. maxAttempts
    BY <1>1 DEF TypeOK, maxAttempts
  <2> QED BY <2>1, <2>2 DEF TypeOK, Steps
<1>2. CASE ~(attempt[q] < maxAttempts)
  BY <1>2 DEF AttemptFails, Goto, TypeOK, Steps
<1> QED BY <1>1, <1>2

\* The new subscription satisfies the invariant.
LEMMA InitIInv == Init => IInv
BY LedgerAssumption
DEF Init, IInv, TypeOK, UsedInRange, StillFits, Subs, NewSub, NothingSeen, Steps, Fits, maxAttempts

\* Every step of every operation preserves it.
LEMMA StepIInv == IInv /\ [Next]_vars => IInv'
<1> SUFFICES ASSUME IInv, [Next]_vars PROVE IInv'
    OBVIOUS
<1> USE LedgerAssumption DEF IInv, Goto, Read
<1>1. ASSUME NEW q \in Requests, PreConsumeRead(q) PROVE IInv'
  <2>1. AfterReset \in Subs /\ Fits(AfterReset.used)
    BY AfterResetFits
  <2>2. TypeOK'
    BY <1>1, <2>1 DEF PreConsumeRead, TypeOK, Steps, row, effects, reset
  <2>3. UsedInRange'
    BY <1>1 DEF PreConsumeRead, UsedInRange, Fits, row
  <2>4. StillFits'
    BY <1>1, <2>1 DEF PreConsumeRead, StillFits, TypeOK, Subs, Fits, AfterDelta
  <2> QED BY <2>2, <2>3, <2>4
<1>2. ASSUME NEW q \in Requests, PreConsumeCommit(q) PROVE IInv'
  <2>0. sub' \in Subs /\ version' \in Nat /\ (sub' = sub \/ sub'.used = seen[q].row.used + amount[q])
    <3>1. seen[q].row.used + amount[q] \in Nat /\ seen[q] \in [row : Subs, version : Nat]
      BY DEF TypeOK, Subs
    <3> QED BY <1>2, <3>1, SavedRow DEF PreConsumeCommit, TypeOK, TxFails, row
  <2>1. TypeOK'
    <3>1. pc' \in [Requests -> Steps] /\ rec' \in [Requests -> {"none", "consumed", "refunded"}]
      <4>1. CASE pc' = [pc EXCEPT ![q] = "active"] /\ rec' = [rec EXCEPT ![q] = "consumed"]
        BY <4>1 DEF TypeOK, Steps
      <4>2. CASE pc' = [pc EXCEPT ![q] = "rejected"] /\ rec' = rec
        BY <4>2 DEF TypeOK, Steps
      <4> QED BY <1>2, <4>1, <4>2 DEF PreConsumeCommit
    <3>2. faults' \in Nat
      BY <1>2 DEF PreConsumeCommit, TypeOK, TxFails, Conflict, Fault
    <3> QED BY <1>2, <2>0, <3>1, <3>2 DEF PreConsumeCommit, TypeOK, reset
  <2>2. UsedInRange'
    BY <1>2, <2>0 DEF PreConsumeCommit, UsedInRange, StillFits, Subs, Fits
  <2>3. StillFits'
    BY <1>2 DEF PreConsumeCommit, StillFits, TypeOK, Fits, AfterDelta
  <2> QED BY <2>1, <2>2, <2>3
<1>3. ASSUME NEW q \in Requests, SettleRead(q) PROVE IInv'
  <2>1. TypeOK'
    BY <1>3 DEF SettleRead, TypeOK, Steps, row, effects, reset
  <2>2. UsedInRange'
    BY <1>3 DEF SettleRead, UsedInRange, Fits, row
  <2>3. StillFits'
    BY <1>3 DEF SettleRead, StillFits, TypeOK, Subs, Fits, AfterDelta
  <2> QED BY <2>1, <2>2, <2>3
<1>4. ASSUME NEW q \in Requests, SettleCommit(q) PROVE IInv'
  <2>1. AfterDelta(seen[q].row.used, delta[q]) \in Nat
    BY AfterDeltaNat DEF TypeOK, Subs
  <2>0. /\ sub' \in Subs /\ version' \in Nat
        /\ sub' = sub \/ sub'.used = AfterDelta(seen[q].row.used, delta[q])
    <3>1. seen[q] \in [row : Subs, version : Nat]
      BY DEF TypeOK
    <3> QED BY <1>4, <2>1, <3>1, SavedRow DEF SettleCommit, TypeOK, TxFails, row
  <2>2. TypeOK'
    BY <1>4, <2>0 DEF SettleCommit, TypeOK, Steps, TxFails, Conflict, Fault, reset
  <2>3. UsedInRange'
    BY <1>4, <2>0 DEF SettleCommit, UsedInRange, StillFits, Subs, Fits
  <2>4. StillFits'
    BY <1>4 DEF SettleCommit, StillFits, TypeOK, Fits, AfterDelta
  <2> QED BY <2>2, <2>3, <2>4
<1>5. ASSUME NEW q \in Requests, Refund(q) PROVE IInv'
  BY <1>5
  DEF Refund, TypeOK, Steps, maxAttempts, UsedInRange, StillFits, Fits, AfterDelta, row, effects, reset
<1>6. ASSUME NEW q \in Requests, RefundRead(q) PROVE IInv'
  <2>1. TypeOK'
    <3>1. pc' \in [Requests -> Steps]
      BY <1>6 DEF RefundRead, TypeOK, Steps
    <3>2. seen' \in [Requests -> [row : Subs, version : Nat]]
      BY <1>6 DEF RefundRead, TypeOK
    <3> QED BY <1>6, <3>1, <3>2 DEF RefundRead, TypeOK, row, effects, reset
  <2>2. UsedInRange' /\ StillFits'
    BY <1>6 DEF RefundRead, UsedInRange, StillFits, TypeOK, Subs, Fits, AfterDelta, row
  <2> QED BY <2>1, <2>2
<1>7. ASSUME NEW q \in Requests, GiveBack(q) PROVE IInv'
  <2>1. AfterDelta(seen[q].row.used, -amount[q]) \in Nat
    <3>1. seen[q].row.used \in Nat /\ -amount[q] \in Int
      BY DEF TypeOK, Subs
    <3> QED BY <3>1, AfterDeltaNat
  <2>2. Fits(AfterDelta(seen[q].row.used, -amount[q]))
    BY <1>7, GivingBackFits DEF GiveBack, StillFits, TypeOK, Subs
  <2>0. /\ sub' \in Subs /\ version' \in Nat
        /\ sub' = sub \/ sub'.used = AfterDelta(seen[q].row.used, -amount[q])
    <3>1. seen[q] \in [row : Subs, version : Nat]
      BY DEF TypeOK
    <3> QED BY <1>7, <2>1, <3>1, SavedRow DEF GiveBack, TypeOK, TxFails, row
  <2>3. TypeOK'
    <3>1. pc' \in [Requests -> Steps] /\ attempt' \in [Requests -> 0 .. maxAttempts]
      <4>1. CASE Goto(q, "saveRecord") /\ UNCHANGED attempt
        BY <4>1 DEF TypeOK, Steps
      <4>2. CASE AttemptFails(q)
        BY <4>2, AttemptFailsType
      <4> QED BY <1>7, <4>1, <4>2 DEF GiveBack
    <3>2. given' \in [Requests -> Nat]
      <4>1. CASE given' = [given EXCEPT ![q] = @ + 1]
        BY <4>1 DEF TypeOK
      <4>2. CASE UNCHANGED given
        BY <4>2 DEF TypeOK
      <4> QED BY <1>7, <4>1, <4>2 DEF GiveBack
    <3>3. faults' \in Nat
      BY <1>7 DEF GiveBack, TypeOK, TxFails, Conflict, Fault
    <3> QED BY <1>7, <2>0, <3>1, <3>2, <3>3 DEF GiveBack, TypeOK, reset
  <2>4. UsedInRange'
    BY <1>7, <2>0, <2>2 DEF UsedInRange, Subs, Fits
  <2>5. StillFits'
    BY <1>7 DEF GiveBack, AttemptFails, StillFits, TypeOK, Fits, AfterDelta
  <2> QED BY <2>3, <2>4, <2>5
<1>8. ASSUME NEW q \in Requests, SaveRecord(q) PROVE IInv'
  <2>1. TypeOK'
    <3>1. pc' \in [Requests -> Steps] /\ attempt' \in [Requests -> 0 .. maxAttempts]
      <4>1. CASE Goto(q, "refunded") /\ UNCHANGED attempt
        BY <4>1 DEF TypeOK, Steps
      <4>2. CASE AttemptFails(q)
        BY <4>2, AttemptFailsType
      <4> QED BY <1>8, <4>1, <4>2 DEF SaveRecord
    <3>2. rec' \in [Requests -> {"none", "consumed", "refunded"}] /\ saveFaults' \in Nat
      BY <1>8 DEF SaveRecord, TypeOK
    <3> QED BY <1>8, <3>1, <3>2 DEF SaveRecord, TypeOK, row, reset
  <2>2. UsedInRange' /\ StillFits'
    BY <1>8 DEF SaveRecord, AttemptFails, UsedInRange, StillFits, TypeOK, Fits, AfterDelta, row
  <2> QED BY <2>1, <2>2
<1>9. ASSUME PeriodEnds PROVE IInv'
  BY <1>9 DEF PeriodEnds, TypeOK, UsedInRange, StillFits, Fits, AfterDelta, row, txs, effects
<1>10. ASSUME ResetRead PROVE IInv'
  <2>1. AfterReset \in Subs
    BY AfterResetFits
  <2> QED
    BY <1>10, <2>1 DEF ResetRead, TypeOK, UsedInRange, StillFits, Fits, AfterDelta, row, txs, effects
<1>11. ASSUME ResetCommit PROVE IInv'
  <2>0. sub' \in Subs /\ version' \in Nat /\ (sub' = sub \/ sub'.used = 0)
    BY <1>11, SavedRow DEF ResetCommit, TypeOK, TxFails, row
  <2>1. TypeOK'
    BY <1>11, <2>0 DEF ResetCommit, TypeOK, TxFails, Conflict, Fault, txs, effects
  <2>2. UsedInRange' /\ StillFits'
    BY <1>11, <2>0 DEF ResetCommit, UsedInRange, StillFits, Subs, Fits, AfterDelta, txs
  <2> QED BY <2>1, <2>2
<1>12. ASSUME UNCHANGED vars PROVE IInv'
  BY <1>12
  DEF vars, row, txs, effects, reset, TypeOK, UsedInRange, StillFits, Fits, AfterDelta
<1> QED
  BY <1>1, <1>2, <1>3, <1>4, <1>5, <1>6, <1>7, <1>8, <1>9, <1>10, <1>11, <1>12 DEF Next, AllDone

\* The variables keep their types; in particular amount_used is never negative
\* and no refund makes a fourth attempt.
THEOREM TypeCorrect == Spec => []TypeOK
BY InitIInv, StepIInv, PTL DEF Spec, IInv

\* amount_used stays between zero and amount_total through concurrent
\* requests, refunds and resets, even where the database lets one transaction
\* overwrite another.
THEOREM AmountUsedInRange == Spec => []UsedInRange
BY InitIInv, StepIInv, PTL DEF Spec, IInv


-----------------------------------------------------------------------------
(***************************************************************************)
(* The transactions implement the account, on a database that serializes   *)
(* them, while no period ends and no save of a record fails (with a        *)
(* period's end amount_used is set to zero under the requests, and a       *)
(* failing save lets a retry give back twice: both are beyond the account).*)
(***************************************************************************)

OneRow == Isolation = "serializable" /\ MaxPeriods = 0 /\ MaxSaveFaults = 0

\* No reset is ever due.
NoReset ==
    /\ clock = 0 /\ sub.next >= 1 /\ task = "idle" /\ saveFaults = 0
    /\ \A q \in Requests : seen[q].row.next >= 1

\* A transaction that may still commit has seen the row as it is.
Current(q) ==
    /\ seen[q].version <= version
    /\ pc[q] \in {"preConsume", "settle", "giveBack"} /\ seen[q].version = version =>
        seen[q].row.used = sub.used

\* The effects a request can have had, by the step it is at.
Progress(q) ==
    /\ pc[q] \in {"new", "preConsume", "rejected"} =>
        rec[q] = "none" /\ settled[q] = 0 /\ given[q] = 0
    /\ pc[q] \in {"active", "settle", "refund", "giveBack", "abandoned"} =>
        rec[q] = "consumed" /\ settled[q] = 0 /\ given[q] = 0
    /\ pc[q] = "served" =>
        rec[q] = "consumed" /\ given[q] = 0 /\ amount[q] + settled[q] >= 0
    /\ pc[q] \in {"saveRecord", "refunded"} =>
        rec[q] # "none" /\ settled[q] = 0 /\ given[q] = 1
    /\ pc[q] = "preConsume" => amount[q] \in Amounts
    /\ pc[q] = "settle" => delta[q] \in Deltas /\ delta[q] # 0 /\ amount[q] + delta[q] >= 0

\* S gives what the requests of a set hold together.
Totals(S) ==
    /\ S \in [SUBSET Requests -> Nat]
    /\ \A A \in SUBSET Requests : \A q \in Requests \ A : S[A \cup {q}] = S[A] + Hold(q)

\* amount_used is what all requests hold together (UsedIsSum, without a sum over
\* a set, of which the provers know nothing).
UsedIsTotal == \E S : Totals(S) /\ S[Requests] = sub.used

RInv == IInv /\ NoReset /\ (\A q \in Requests : Current(q) /\ Progress(q)) /\ UsedIsTotal

\* What a request holds, by its progress; never less than nothing.
LEMMA HoldValue ==
    ASSUME TypeOK, NEW q \in Requests, Progress(q)
    PROVE  /\ rec[q] = "none" => Hold(q) = 0
           /\ rec[q] # "none" /\ given[q] = 0 => Hold(q) = amount[q] + settled[q]
           /\ given[q] = 1 => rec[q] # "none" /\ Hold(q) = settled[q]
           /\ Hold(q) \in Nat
<1>1. amount[q] \in Nat /\ settled[q] \in Int /\ pc[q] \in Steps /\ given[q] \in Nat
  BY DEF TypeOK
<1>2. 0 * amount[q] = 0 /\ 1 * amount[q] = amount[q]
  BY <1>1
<1>3. given[q] \in {0, 1} /\ (rec[q] = "none" => given[q] = 0 /\ settled[q] = 0)
  BY <1>1 DEF Progress, Steps
<1>4. given[q] = 0 => amount[q] + settled[q] >= 0
  BY <1>1, <1>3 DEF Progress, Steps
<1>5. given[q] = 1 => settled[q] = 0
  BY <1>1 DEF Progress, Steps
<1>6. CASE rec[q] = "none"
  <2>1. Hold(q) = 0 + 0 - 0 * amount[q]
    BY <1>3, <1>6 DEF Hold
  <2> QED BY <1>2, <1>3, <1>6, <2>1
<1>7. CASE rec[q] # "none" /\ given[q] = 0
  <2>1. Hold(q) = amount[q] + settled[q] - 0 * amount[q]
    BY <1>7 DEF Hold
  <2> QED BY <1>1, <1>2, <1>4, <1>7, <2>1
<1>8. CASE rec[q] # "none" /\ given[q] = 1
  <2>1. Hold(q) = amount[q] + settled[q] - 1 * amount[q]
    BY <1>8 DEF Hold
  <2> QED BY <1>1, <1>2, <1>5, <1>8, <2>1
<1> QED BY <1>3, <1>6, <1>7, <1>8

\* A step that changes nothing the account knows of.
Stutters ==
    sub'.used = sub.used /\ \A q \in Requests : Hold(q)' = Hold(q) /\ Stage(q)' = Stage(q)

\* A step that changes what one request holds, and amount_used with it.
Changes(q, n, s) ==
    /\ sub'.used = sub.used + n
    /\ Hold(q)' = Hold(q) + n /\ Stage(q)' = s
    /\ \A p \in Requests \ {q} : Hold(p)' = Hold(p) /\ Stage(p)' = Stage(p)

\* No request holds more than amount_used.
LEMMA HoldBounded ==
    ASSUME UsedIsTotal, NEW q \in Requests, Hold(q) \in Nat
    PROVE  Hold(q) <= sub.used
<1>1. PICK S : Totals(S) /\ S[Requests] = sub.used
  BY DEF UsedIsTotal
<1>2. (Requests \ {q}) \cup {q} = Requests /\ q \in Requests \ (Requests \ {q})
  OBVIOUS
<1>3. S[Requests] = S[Requests \ {q}] + Hold(q) /\ S[Requests \ {q}] \in Nat
  BY <1>1, <1>2 DEF Totals
<1> QED BY <1>1, <1>3

\* Totals that are changed along with what one request holds stay the totals.
LEMMA TotalsChange ==
    ASSUME UsedIsTotal, NEW q \in Requests, NEW n \in Int, NEW s, Changes(q, n, s),
           \A p \in Requests : Hold(p) \in Nat, Hold(q) + n >= 0
    PROVE  UsedIsTotal'
<1>1. PICK S : Totals(S) /\ S[Requests] = sub.used
  BY DEF UsedIsTotal
<1> DEFINE T == [A \in SUBSET Requests |-> IF q \in A THEN S[A] + n ELSE S[A]]
<1>2. ASSUME NEW A \in SUBSET Requests PROVE T[A] \in Nat
  <2>1. CASE q \in A
    <3>1. (A \ {q}) \cup {q} = A /\ A \ {q} \in SUBSET Requests /\ q \in Requests \ (A \ {q})
      BY <2>1
    <3>2. S[A] = S[A \ {q}] + Hold(q) /\ S[A \ {q}] \in Nat
      BY <1>1, <3>1 DEF Totals
    <3>3. T[A] = S[A] + n
      BY <2>1
    <3> QED BY <3>2, <3>3
  <2>2. CASE q \notin A
    BY <1>1, <2>2 DEF Totals
  <2> QED BY <2>1, <2>2
<1>3. ASSUME NEW A \in SUBSET Requests, NEW p \in Requests \ A
      PROVE  T[A \cup {p}] = T[A] + Hold(p)'
  <2>1. S[A \cup {p}] = S[A] + Hold(p) /\ S[A] \in Nat /\ A \cup {p} \in SUBSET Requests
    BY <1>1 DEF Totals
  <2>2. CASE p = q
    <3>1. T[A \cup {p}] = S[A \cup {p}] + n /\ T[A] = S[A] /\ Hold(p)' = Hold(p) + n
      BY <2>1, <2>2 DEF Changes
    <3> QED BY <2>1, <3>1
  <2>3. CASE p # q
    <3>1. Hold(p)' = Hold(p)
      BY <2>3 DEF Changes
    <3>2. CASE q \in A
      <4>1. T[A \cup {p}] = S[A \cup {p}] + n /\ T[A] = S[A] + n
        BY <2>1, <3>2
      <4> QED BY <2>1, <3>1, <4>1
    <3>3. CASE q \notin A
      <4>1. T[A \cup {p}] = S[A \cup {p}] /\ T[A] = S[A]
        BY <2>1, <2>3, <3>3
      <4> QED BY <2>1, <3>1, <4>1
    <3> QED BY <3>2, <3>3
  <2> QED BY <2>2, <2>3
<1>4. T[Requests] = sub'.used
  BY <1>1 DEF Changes
<1>5. T \in [SUBSET Requests -> Nat]
  BY <1>2
<1> HIDE DEF T
<1>6. Totals(T)'
  BY <1>3, <1>5 DEF Totals
<1> QED BY <1>4, <1>6 DEF UsedIsTotal

LEMMA TotalsStay ==
    ASSUME UsedIsTotal, Stutters
    PROVE  UsedIsTotal'
<1>1. PICK S : Totals(S) /\ S[Requests] = sub.used
  BY DEF UsedIsTotal
<1>2. Totals(S)'
  BY <1>1 DEF Totals, Stutters
<1> QED BY <1>1, <1>2 DEF UsedIsTotal, Stutters

\* A request that is left alone by a step keeps its part of the invariant, what
\* it holds and its stage: a row that was saved again is no longer the one seen.
SameRequest(q) ==
    /\ pc'[q] = pc[q] /\ amount'[q] = amount[q] /\ delta'[q] = delta[q] /\ seen'[q] = seen[q]
    /\ rec'[q] = rec[q] /\ settled'[q] = settled[q] /\ given'[q] = given[q]
SavedOrSame == (sub' = sub /\ version' = version) \/ version' = version + 1

LEMMA OtherRequests ==
    ASSUME TypeOK, NEW q \in Requests, Current(q), Progress(q), SameRequest(q), SavedOrSame
    PROVE  /\ Current(q)' /\ Progress(q)'
           /\ Hold(q)' = Hold(q) /\ Stage(q)' = Stage(q)
<1>1. version \in Nat /\ seen[q].version \in Nat
  BY DEF TypeOK
<1>2. Current(q)'
  BY <1>1 DEF Current, SameRequest, SavedOrSame
<1>3. Progress(q)'
  BY DEF Progress, SameRequest
<1> QED BY <1>2, <1>3 DEF Hold, Stage, SameRequest

\* A transaction that commits saves the row it has seen, which is the row there
\* is; one that fails leaves it.
LEMMA CommitIsCurrent ==
    ASSUME OneRow, TypeOK, NEW q \in Requests, Current(q), MayCommit(seen[q]),
           pc[q] \in {"preConsume", "settle", "giveBack"}, NEW n \in Nat, Save(seen[q], n)
    PROVE  /\ seen[q].row.used = sub.used
           /\ sub'.used = n /\ sub'.next = seen[q].row.next /\ version' = version + 1
<1>1. seen[q] \in [row : Subs, version : Nat]
  BY DEF TypeOK
<1> QED BY <1>1 DEF OneRow, Current, MayCommit, Save, Subs

\* A failed attempt leaves the effects.
LEMMA AttemptFailsProgress ==
    ASSUME TypeOK, NEW q \in Requests, AttemptFails(q)
    PROVE  pc'[q] \in {"refund", "abandoned"} /\ \A p \in Requests \ {q} : pc'[p] = pc[p]
BY DEF AttemptFails, Goto, TypeOK

\* The account's invariant holds of a new subscription.
LEMMA InitRInv == Init => RInv
<1> SUFFICES ASSUME Init PROVE RInv
  OBVIOUS
<1>1. IInv
  BY InitIInv
<1>2. NoReset
  BY DEF Init, NoReset, NewSub, NothingSeen
<1>3. ASSUME NEW q \in Requests PROVE Current(q) /\ Progress(q)
  BY DEF Init, Current, Progress, NewSub, NothingSeen
<1>4. \A q \in Requests : Hold(q) = 0
  BY <1>1, <1>3, HoldValue DEF Init, IInv
<1>5. UsedIsTotal
  <2> DEFINE S == [A \in SUBSET Requests |-> 0]
  <2>1. Totals(S)
    BY <1>4 DEF Totals
  <2>2. S[Requests] = sub.used
    BY DEF Init, NewSub
  <2> QED BY <2>1, <2>2 DEF UsedIsTotal
<1> QED BY <1>1, <1>2, <1>3, <1>5 DEF RInv

\* A step of the ledger is, for the account, a stutter or a step of its own.
Simulated ==
    \/ Stutters
    \/ \E q \in Requests : \E n \in Amounts : Stage(q) = "new" /\ Changes(q, n, "holding")
    \/ \E q \in Requests : \E d \in Deltas : Stage(q) = "holding" /\ Changes(q, d, "closed")
    \/ \E q \in Requests : Stage(q) = "holding" /\ Changes(q, -Hold(q), "closed")

\* A step that touches no row and no effect is a stutter.
LEMMA QuietStep ==
    ASSUME TypeOK, UsedIsTotal, UNCHANGED <<row, effects>>,
           \A q \in Requests : Progress(q) /\ Current(q),
           NEW q \in Requests, \A p \in Requests \ {q} : SameRequest(p),
           rec[q] = "none" \/ amount'[q] = amount[q], Current(q)', Progress(q)', TypeOK'
    PROVE  Simulated /\ UsedIsTotal' /\ \A p \in Requests : Current(p)' /\ Progress(p)'
<1>1. SavedOrSame
  BY DEF SavedOrSame, row
<1>2. \A p \in Requests \ {q} :
        Current(p)' /\ Progress(p)' /\ Hold(p)' = Hold(p) /\ Stage(p)' = Stage(p)
  BY <1>1, OtherRequests
<1>3. Stage(q)' = Stage(q)
  BY DEF Stage, effects
<1>4. Hold(q)' = Hold(q)
  <2>1. CASE rec[q] = "none"
    <3>1. Hold(q) = 0
      BY <2>1, HoldValue
    <3>2. (rec[q] = "none" => Hold(q) = 0)'
      BY HoldValue, PTL
    <3> QED BY <2>1, <3>1, <3>2 DEF effects
  <2>2. CASE amount'[q] = amount[q]
    BY <2>2 DEF Hold, effects
  <2> QED BY <2>1, <2>2
<1>5. Stutters
  BY <1>2, <1>3, <1>4 DEF Stutters, row
<1> QED BY <1>2, <1>5, TotalsStay DEF Simulated

\* A step that saves the row and changes what one request holds.
LEMMA SavingStep ==
    ASSUME TypeOK, UsedIsTotal, \A p \in Requests : Progress(p) /\ Current(p),
           NEW q \in Requests, \A p \in Requests \ {q} : SameRequest(p), SavedOrSame,
           NEW n \in Int, NEW s, sub'.used = sub.used + n, Hold(q)' = Hold(q) + n, Hold(q) + n >= 0,
           Stage(q)' = s, Current(q)', Progress(q)'
    PROVE  Changes(q, n, s) /\ UsedIsTotal' /\ \A p \in Requests : Current(p)' /\ Progress(p)'
<1>1. \A p \in Requests \ {q} :
        Current(p)' /\ Progress(p)' /\ Hold(p)' = Hold(p) /\ Stage(p)' = Stage(p)
  BY OtherRequests
<1>2. Changes(q, n, s)
  BY <1>1 DEF Changes
<1>3. \A p \in Requests : Hold(p) \in Nat
  BY HoldValue
<1> QED BY <1>1, <1>2, <1>3, TotalsChange

\* Every step keeps the invariant and is simulated by the account.
LEMMA StepRInv ==
    ASSUME OneRow, RInv, [Next]_vars
    PROVE  RInv' /\ Simulated
<1> DEFINE Goal == NoReset' /\ Simulated /\ UsedIsTotal' /\ \A p \in Requests : Current(p)' /\ Progress(p)'
<1>i. IInv'
  BY StepIInv DEF RInv
<1>t. TypeOK /\ TypeOK' /\ UsedInRange /\ UsedIsTotal /\ NoReset
      /\ \A p \in Requests : Progress(p) /\ Current(p)
  BY <1>i DEF RInv, IInv
<1>a. AfterReset = sub /\ ~Due
  BY <1>t DEF AfterReset, Due, NoReset, TypeOK, Subs
<1> USE LedgerAssumption DEF Goto, Read
<1> SUFFICES Goal
  BY <1>i DEF RInv
<1>1. ASSUME NEW q \in Requests, PreConsumeRead(q) PROVE Goal
  <2>1. PICK n \in Amounts :
          /\ amount' = [amount EXCEPT ![q] = n]
          /\ seen' = [seen EXCEPT ![q] = [row |-> sub, version |-> version]]
          /\ pc' = [pc EXCEPT ![q] = IF Fits(AfterReset.used + n) THEN "preConsume" ELSE "rejected"]
    BY <1>1, <1>a DEF PreConsumeRead
  <2>2. /\ pc[q] = "new" /\ pc'[q] \in {"preConsume", "rejected"} /\ amount'[q] = n
        /\ seen'[q] = [row |-> sub, version |-> version]
        /\ UNCHANGED <<row, effects, reset, saveFaults>>
    BY <1>t, <1>1, <2>1 DEF PreConsumeRead, TypeOK
  <2>3. \A p \in Requests \ {q} : SameRequest(p)
    BY <1>t, <1>1, <2>1 DEF PreConsumeRead, TypeOK, SameRequest, effects
  <2>4. Current(q)' /\ Progress(q)'
    BY <1>t, <2>2 DEF Current, Progress, row, effects, TypeOK
  <2>5. rec[q] = "none"
    BY <1>t, <2>2 DEF Progress
  <2>6. NoReset'
    BY <1>t, <2>2, <2>3 DEF NoReset, SameRequest, row, reset
  <2> QED BY <1>t, <2>2, <2>3, <2>4, <2>5, <2>6, QuietStep
<1>2. ASSUME NEW q \in Requests, PreConsumeCommit(q) PROVE Goal
  <2>0. /\ pc[q] = "preConsume" /\ UNCHANGED <<amount, delta, seen, settled, given, reset, saveFaults>>
        /\ rec[q] = "none" /\ settled[q] = 0 /\ given[q] = 0 /\ amount[q] \in Amounts /\ amount[q] \in Nat
    BY <1>t, <1>2 DEF PreConsumeCommit, Progress, TypeOK
  <2>1. CASE /\ MayCommit(seen[q]) /\ Save(seen[q], seen[q].row.used + amount[q])
             /\ rec' = [rec EXCEPT ![q] = "consumed"] /\ pc' = [pc EXCEPT ![q] = "active"]
    <3>1. seen[q].row.used + amount[q] \in Nat
      BY <1>t DEF TypeOK, Subs
    <3>2. /\ sub'.used = sub.used + amount[q] /\ sub'.next = seen[q].row.next
          /\ version' = version + 1
      BY <1>t, <2>0, <2>1, <3>1, CommitIsCurrent
    <3>3. pc'[q] = "active" /\ rec'[q] = "consumed" /\ \A p \in Requests \ {q} : SameRequest(p)
      BY <1>t, <2>0, <2>1 DEF TypeOK, SameRequest
    <3>4. Current(q)' /\ Progress(q)'
      BY <1>t, <2>0, <3>2, <3>3 DEF Current, Progress, TypeOK
    <3>5. Hold(q) = 0 /\ Hold(q)' = amount[q]
      <4>1. Hold(q) = 0
        BY <1>t, <2>0, HoldValue
      <4>2. Hold(q)' = amount[q] + 0 - 0 * amount[q]
        BY <2>0, <3>3 DEF Hold
      <4> QED BY <2>0, <4>1, <4>2
    <3>6. Stage(q) = "new" /\ Stage(q)' = "holding"
      BY <2>0, <3>3 DEF Stage
    <3>7. NoReset'
      BY <1>t, <2>0, <3>2 DEF NoReset, reset
    <3>8. Changes(q, amount[q], "holding") /\ UsedIsTotal'
          /\ \A p \in Requests : Current(p)' /\ Progress(p)'
      BY <1>t, <2>0, <3>2, <3>3, <3>4, <3>5, <3>6, SavingStep DEF SavedOrSame
    <3> QED BY <2>0, <3>6, <3>7, <3>8 DEF Simulated
  <2>2. CASE TxFails(seen[q]) /\ pc' = [pc EXCEPT ![q] = "rejected"] /\ UNCHANGED rec
    <3>1. UNCHANGED <<row, effects>> /\ pc'[q] = "rejected" /\ \A p \in Requests \ {q} : SameRequest(p)
      BY <1>t, <2>0, <2>2 DEF TypeOK, SameRequest, TxFails, effects
    <3>2. Current(q)' /\ Progress(q)'
      BY <1>t, <2>0, <3>1 DEF Current, Progress, row, effects
    <3>3. NoReset'
      BY <1>t, <2>0, <3>1 DEF NoReset, row, reset
    <3> QED BY <1>t, <2>0, <3>1, <3>2, <3>3, QuietStep
  <2> QED BY <1>2, <2>1, <2>2 DEF PreConsumeCommit
<1>3. ASSUME NEW q \in Requests, SettleRead(q) PROVE Goal
  <2>1. PICK d \in Deltas :
          /\ amount[q] + d >= 0 /\ delta' = [delta EXCEPT ![q] = d]
          /\ seen' = [seen EXCEPT ![q] = [row |-> sub, version |-> version]]
          /\ pc' = [pc EXCEPT ![q] = IF d # 0 /\ Fits(AfterDelta(sub.used, d)) THEN "settle" ELSE "served"]
    BY <1>3 DEF SettleRead
  <2>2. /\ pc[q] = "active" /\ (pc'[q] = "served" \/ (pc'[q] = "settle" /\ d # 0))
        /\ delta'[q] = d /\ seen'[q] = [row |-> sub, version |-> version]
        /\ UNCHANGED <<row, amount, effects, reset, saveFaults>>
    BY <1>t, <1>3, <2>1 DEF SettleRead, TypeOK
  <2>3. \A p \in Requests \ {q} : SameRequest(p)
    BY <1>t, <2>1, <2>2 DEF TypeOK, SameRequest, effects
  <2>4. Current(q)' /\ Progress(q)'
    BY <1>t, <2>1, <2>2 DEF Current, Progress, row, effects, TypeOK
  <2>5. NoReset'
    BY <1>t, <2>2, <2>3 DEF NoReset, SameRequest, row, reset
  <2> QED BY <1>t, <2>2, <2>3, <2>4, <2>5, QuietStep
<1>4. ASSUME NEW q \in Requests, SettleCommit(q) PROVE Goal
  <2>0. /\ pc[q] = "settle" /\ UNCHANGED <<amount, delta, seen, rec, given, reset, saveFaults>>
        /\ rec[q] = "consumed" /\ settled[q] = 0 /\ given[q] = 0
        /\ delta[q] \in Deltas /\ delta[q] # 0 /\ amount[q] + delta[q] >= 0
        /\ delta[q] \in Int /\ amount[q] \in Nat /\ sub.used \in Nat
        /\ pc' = [pc EXCEPT ![q] = "served"] /\ pc'[q] = "served"
    BY <1>t, <1>4 DEF SettleCommit, Progress, TypeOK, Subs
  <2>1. CASE /\ MayCommit(seen[q]) /\ Save(seen[q], AfterDelta(seen[q].row.used, delta[q]))
             /\ settled' = [settled EXCEPT ![q] = delta[q]]
    <3>1. AfterDelta(seen[q].row.used, delta[q]) \in Nat
      BY <1>t, AfterDeltaNat DEF TypeOK, Subs
    <3>2. /\ sub'.used = AfterDelta(sub.used, delta[q]) /\ sub'.next = seen[q].row.next
          /\ version' = version + 1
      BY <1>t, <2>0, <2>1, <3>1, CommitIsCurrent
    <3>3. settled'[q] = delta[q] /\ \A p \in Requests \ {q} : SameRequest(p)
      BY <1>t, <2>0, <2>1 DEF TypeOK, SameRequest
    <3>4. Current(q)' /\ Progress(q)'
      BY <1>t, <2>0, <3>2, <3>3 DEF Current, Progress, TypeOK
    <3>5. Hold(q) = amount[q] /\ Hold(q)' = amount[q] + delta[q]
      <4>1. Hold(q) = amount[q] + 0
        BY <1>t, <2>0, HoldValue
      <4>2. Hold(q)' = amount[q] + delta[q] - 0 * amount[q]
        BY <2>0, <3>3 DEF Hold
      <4> QED BY <2>0, <4>1, <4>2
    <3>6. sub'.used = sub.used + delta[q]
      <4>1. Hold(q) <= sub.used
        BY <1>t, <2>0, <3>5, HoldBounded
      <4> QED BY <2>0, <3>2, <3>5, <4>1 DEF AfterDelta
    <3>7. Stage(q) = "holding" /\ Stage(q)' = "closed"
      BY <2>0, <3>3 DEF Stage
    <3>8. NoReset'
      BY <1>t, <2>0, <3>2 DEF NoReset, reset
    <3>9. Changes(q, delta[q], "closed") /\ UsedIsTotal'
          /\ \A p \in Requests : Current(p)' /\ Progress(p)'
      BY <1>t, <2>0, <3>2, <3>3, <3>4, <3>5, <3>6, <3>7, SavingStep DEF SavedOrSame
    <3> QED BY <2>0, <3>7, <3>8, <3>9 DEF Simulated
  <2>2. CASE TxFails(seen[q]) /\ UNCHANGED settled
    <3>1. UNCHANGED <<row, effects>> /\ \A p \in Requests \ {q} : SameRequest(p)
      BY <1>t, <2>0, <2>2 DEF TypeOK, SameRequest, TxFails, effects
    <3>2. Current(q)' /\ Progress(q)'
      BY <1>t, <2>0, <3>1 DEF Current, Progress, row, effects
    <3>3. NoReset'
      BY <1>t, <2>0, <3>1 DEF NoReset, row, reset
    <3> QED BY <1>t, <2>0, <3>1, <3>2, <3>3, QuietStep
  <2> QED BY <1>4, <2>1, <2>2 DEF SettleCommit
<1>5. ASSUME NEW q \in Requests, Refund(q) PROVE Goal
  <2>1. pc[q] = "active" /\ pc'[q] = "refund" /\ \A p \in Requests \ {q} : SameRequest(p)
    BY <1>t, <1>5 DEF Refund, TypeOK, SameRequest, effects
  <2>2. Current(q)' /\ Progress(q)' /\ NoReset'
    BY <1>t, <1>5, <2>1 DEF Refund, Current, Progress, NoReset, row, effects, reset
  <2> QED BY <1>t, <1>5, <2>1, <2>2, QuietStep DEF Refund
<1>6. ASSUME NEW q \in Requests, RefundRead(q) PROVE Goal
  <2>1. pc[q] = "refund" /\ rec[q] = "consumed"
    BY <1>t, <1>6 DEF RefundRead, Progress
  <2>2. /\ pc'[q] = "giveBack" /\ seen'[q] = [row |-> sub, version |-> version]
        /\ UNCHANGED <<row, amount, effects, reset, saveFaults>>
        /\ \A p \in Requests \ {q} : SameRequest(p)
    BY <1>t, <1>6, <2>1 DEF RefundRead, TypeOK, SameRequest, effects
  <2>3. Current(q)' /\ Progress(q)'
    BY <1>t, <2>1, <2>2 DEF Current, Progress, row, effects, TypeOK
  <2>4. NoReset'
    BY <1>t, <2>2 DEF NoReset, SameRequest, row, reset
  <2> QED BY <1>t, <2>2, <2>3, <2>4, QuietStep
<1>7. ASSUME NEW q \in Requests, GiveBack(q) PROVE Goal
  <2>0. /\ pc[q] = "giveBack" /\ UNCHANGED <<amount, delta, seen, rec, settled, reset, saveFaults>>
        /\ rec[q] = "consumed" /\ settled[q] = 0 /\ given[q] = 0
        /\ amount[q] \in Nat /\ -amount[q] \in Int /\ sub.used \in Nat
    BY <1>t, <1>7 DEF GiveBack, Progress, TypeOK, Subs
  <2>1. CASE /\ MayCommit(seen[q]) /\ Save(seen[q], AfterDelta(seen[q].row.used, -amount[q]))
             /\ given' = [given EXCEPT ![q] = @ + 1] /\ pc' = [pc EXCEPT ![q] = "saveRecord"]
    <3>1. AfterDelta(seen[q].row.used, -amount[q]) \in Nat
      BY <1>t, <2>0, AfterDeltaNat DEF TypeOK, Subs
    <3>2. /\ sub'.used = AfterDelta(sub.used, -amount[q]) /\ sub'.next = seen[q].row.next
          /\ version' = version + 1
      BY <1>t, <2>0, <2>1, <3>1, CommitIsCurrent
    <3>3. given'[q] = 1 /\ pc'[q] = "saveRecord" /\ \A p \in Requests \ {q} : SameRequest(p)
      BY <1>t, <2>0, <2>1 DEF TypeOK, SameRequest
    <3>4. Current(q)' /\ Progress(q)'
      BY <1>t, <2>0, <3>2, <3>3 DEF Current, Progress, TypeOK
    <3>5. Hold(q) = amount[q] /\ Hold(q)' = 0
      <4>1. Hold(q) = amount[q] + 0
        BY <1>t, <2>0, HoldValue
      <4>2. Hold(q)' = amount[q] + 0 - 1 * amount[q]
        BY <2>0, <3>3 DEF Hold
      <4> QED BY <2>0, <4>1, <4>2
    <3>6. sub'.used = sub.used + -amount[q] /\ Hold(q)' = Hold(q) + -amount[q] /\ Hold(q) + -amount[q] >= 0
      <4>1. Hold(q) <= sub.used
        BY <1>t, <2>0, <3>5, HoldBounded
      <4> QED BY <2>0, <3>2, <3>5, <4>1 DEF AfterDelta
    <3>7. Stage(q) = "holding" /\ Stage(q)' = "closed"
      BY <2>0, <3>3 DEF Stage
    <3>8. NoReset'
      BY <1>t, <2>0, <3>2 DEF NoReset, reset
    <3>9. Changes(q, -amount[q], "closed") /\ UsedIsTotal'
          /\ \A p \in Requests : Current(p)' /\ Progress(p)'
      BY <1>t, <2>0, <3>2, <3>3, <3>4, <3>6, <3>7, SavingStep DEF SavedOrSame
    <3> QED BY <2>0, <3>5, <3>7, <3>8, <3>9 DEF Simulated
  <2>2. CASE TxFails(seen[q]) /\ AttemptFails(q) /\ UNCHANGED given
    <3>1. /\ UNCHANGED <<row, effects>> /\ pc'[q] \in {"refund", "abandoned"}
          /\ \A p \in Requests \ {q} : SameRequest(p)
      BY <1>t, <2>0, <2>2, AttemptFailsProgress DEF SameRequest, TxFails, effects
    <3>2. Current(q)' /\ Progress(q)'
      BY <1>t, <2>0, <3>1 DEF Current, Progress, row, effects
    <3>3. NoReset'
      BY <1>t, <2>0, <3>1 DEF NoReset, row, reset
    <3> QED BY <1>t, <2>0, <3>1, <3>2, <3>3, QuietStep
  <2> QED BY <1>7, <2>1, <2>2 DEF GiveBack
<1>8. ASSUME NEW q \in Requests, SaveRecord(q) PROVE Goal
  <2>1. /\ pc[q] = "saveRecord" /\ rec' = [rec EXCEPT ![q] = "refunded"] /\ pc' = [pc EXCEPT ![q] = "refunded"]
        /\ UNCHANGED <<row, amount, delta, seen, settled, given, reset, saveFaults>>
    BY <1>t, <1>8 DEF SaveRecord, OneRow, NoReset
  <2>2. rec[q] # "none" /\ settled[q] = 0 /\ given[q] = 1
    BY <1>t, <2>1 DEF Progress
  <2>3. pc'[q] = "refunded" /\ rec'[q] = "refunded" /\ \A p \in Requests \ {q} : SameRequest(p)
    BY <1>t, <2>1 DEF TypeOK, SameRequest
  <2>4. Current(q)' /\ Progress(q)'
    BY <1>t, <2>1, <2>2, <2>3 DEF Current, Progress, row
  <2>5. \A p \in Requests \ {q} :
          Current(p)' /\ Progress(p)' /\ Hold(p)' = Hold(p) /\ Stage(p)' = Stage(p)
    BY <1>t, <2>1, <2>3, OtherRequests DEF SavedOrSame, row
  <2>6. Hold(q)' = Hold(q) /\ Stage(q)' = Stage(q)
    BY <2>1, <2>2, <2>3 DEF Hold, Stage
  <2>7. Stutters
    BY <2>1, <2>5, <2>6 DEF Stutters, row
  <2>8. NoReset'
    BY <1>t, <2>1 DEF NoReset, row, reset
  <2> QED BY <1>t, <2>4, <2>5, <2>7, <2>8, TotalsStay DEF Simulated
<1>9. ASSUME PeriodEnds \/ ResetRead \/ ResetCommit PROVE Goal
  BY <1>9, <1>t, <1>a DEF PeriodEnds, ResetRead, ResetCommit, NoReset, OneRow
<1>10. ASSUME UNCHANGED vars PROVE Goal
  <2>1. \A p \in Requests : SameRequest(p)
    BY <1>10 DEF vars, txs, effects, SameRequest
  <2>2. \A p \in Requests :
          Current(p)' /\ Progress(p)' /\ Hold(p)' = Hold(p) /\ Stage(p)' = Stage(p)
    BY <1>t, <1>10, <2>1, OtherRequests DEF SavedOrSame, vars, row
  <2>3. Stutters /\ NoReset'
    BY <1>t, <1>10, <2>2 DEF Stutters, NoReset, vars, row, reset, txs
  <2> QED BY <1>t, <2>2, <2>3, TotalsStay DEF Simulated
<1> QED
  BY <1>1, <1>2, <1>3, <1>4, <1>5, <1>6, <1>7, <1>8, <1>9, <1>10 DEF Next, AllDone

\* A new subscription is a new account.
LEMMA AccountInit ==
    ASSUME Init, RInv
    PROVE  Account!Init
<1>1. \A q \in Requests : Hold(q) = 0 /\ Stage(q) = "new"
  <2>1. \A q \in Requests : rec[q] = "none"
    BY DEF Init
  <2> QED BY <2>1, HoldValue DEF RInv, IInv, Stage
<1> QED BY <1>1 DEF Init, NewSub, Account!Init

\* What the lemmas call a step of the account is one.
LEMMA AccountStep ==
    ASSUME RInv, RInv', Simulated
    PROVE  [Account!Next]_(Account!vars)
<1>1. Account!Fits(sub'.used)
  BY LedgerAssumption DEF RInv, IInv, UsedInRange, Fits, Account!Fits
<1>2. ASSUME NEW q \in Requests, NEW n, NEW s, Changes(q, n, s)
      PROVE  Account!Change(q, n, s)
  <2>1. [p \in Requests |-> Hold(p)]' = [[p \in Requests |-> Hold(p)] EXCEPT ![q] = @ + n]
    BY <1>2 DEF Changes
  <2>2. [p \in Requests |-> Stage(p)]' = [[p \in Requests |-> Stage(p)] EXCEPT ![q] = s]
    BY <1>2 DEF Changes
  <2> QED BY <1>1, <1>2, <2>1, <2>2 DEF Changes, Account!Change
<1>3. CASE Stutters
  BY <1>3 DEF Stutters, Account!vars
<1>4. ASSUME NEW q \in Requests, NEW n \in Amounts, Stage(q) = "new", Changes(q, n, "holding")
      PROVE  Account!Next
  BY <1>2, <1>4 DEF Account!Next, Account!Consume
<1>5. ASSUME NEW q \in Requests, NEW d \in Deltas, Stage(q) = "holding", Changes(q, d, "closed")
      PROVE  Account!Next
  BY <1>2, <1>5 DEF Account!Next, Account!Settle
<1>6. ASSUME NEW q \in Requests, Stage(q) = "holding", Changes(q, -Hold(q), "closed")
      PROVE  Account!Next
  BY <1>2, <1>6 DEF Account!Next, Account!GiveBack
<1> QED BY <1>3, <1>4, <1>5, <1>6 DEF Simulated

\* On a database that serializes transactions, and while no period ends and no
\* save of a record fails, the transactions of PreConsumeUserSubscription,
\* PostConsumeUserSubscriptionDelta and RefundSubscriptionPreConsume implement
\* the account: a request consumes once, adjusts or gives back once, and
\* amount_used moves by just that.
THEOREM LedgerImplementsAccount == ASSUME OneRow PROVE Spec => ImplementsAccount
<1>1. Init => RInv /\ Account!Init
  BY InitRInv, AccountInit
<1>2. RInv /\ [Next]_vars => RInv' /\ [Account!Next]_(Account!vars)
  BY StepRInv, AccountStep
<1> QED BY <1>1, <1>2, PTL DEF Spec, ImplementsAccount, Account!Spec

\* Under the same assumptions a pre-consumption is given back at most once,
\* whichever attempts of refundWithRetry fail on the way.
THEOREM RefundedOnce == ASSUME OneRow PROVE Spec => []RefundIdempotent
<1>1. RInv => RefundIdempotent
  BY DEF RInv, IInv, TypeOK, Progress, Steps, RefundIdempotent
<1>2. Init => RInv
  BY InitRInv
<1>3. RInv /\ [Next]_vars => RInv'
  BY StepRInv
<1> QED BY <1>1, <1>2, <1>3, PTL DEF Spec
=============================================================================
