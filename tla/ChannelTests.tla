---------------------------- MODULE ChannelTests ----------------------------
(***************************************************************************)
(* Testing the models of a channel (testChannel, batchTestModels and       *)
(* handleCloseModal of hooks/channels/useChannelsData.jsx), together with  *)
(* the channel list, which every successful test writes back.              *)
(*                                                                         *)
(* A batch tests the models of the dialog's channel in slices of           *)
(* concurrencyLimit.  It is an async function: it goes on when its slice   *)
(* has settled, after 100 ms between slices and 300 ms at the end, also    *)
(* when its dialog was closed in the meantime.                             *)
(***************************************************************************)
EXTENDS ChannelTable, Sequences

CONSTANTS
    Channels,         \* channels that can be tested
    Models,           \* models of channel ch: the sequence Models[ch]
    ConcurrencyLimit, \* concurrencyLimit (5 in the code)
    MaxBatches,       \* bound on the batches started
    MaxDialogActions  \* bound on the actions of the user that concern tests

DefaultModel == "default"   \* the empty model name of a row's test button
NoChannel    == "none"
Batches      == 1..MaxBatches
Single       == 0           \* a test that belongs to no batch

ASSUME ChannelTestsAssumption ==
    /\ ConcurrencyLimit \in Nat \ {0} /\ MaxBatches \in Nat /\ MaxDialogActions \in Nat
    /\ NoChannel \notin Channels

names(ch) == {Models[ch][i] : i \in DOMAIN Models[ch]}
allNames  == {DefaultModel} \cup UNION {names(ch) : ch \in Channels}

VARIABLES
    open,       \* showModelTestModal
    current,    \* currentTestChannel
    batching,   \* isBatchTesting
    stop,       \* shouldStopBatchTestingRef.current
    testing,    \* testingModels
    results,    \* modelTestResults: "none", "ok" or "fail" by channel and model
    tests,      \* calls of testChannel waiting for their answer
    batch,      \* batch[b]: where the loop of batchTestModels is
    started,    \* batches started
    testActs    \* actions of the user that concern tests so far

dialogVars == <<open, current, batching, stop>>
testVars   == <<dialogVars, testing, results, tests, batch, started, testActs>>
vars       == <<tableVars, testVars>>

\* phase: its slice is being tested, it sleeps before the next slice, it sleeps
\* before the summary, it has ended.  next: index of the first model not begun.
\* stopped: its dialog was closed on it.  overlapped: another batch ran with it.
idleBatch == [phase |-> "ended", ch |-> NoChannel, list |-> <<>>, next |-> 1, env |-> env,
              stopped |-> FALSE, overlapped |-> FALSE]

Init ==
    /\ TableInit
    /\ open = FALSE /\ current = NoChannel /\ batching = FALSE /\ stop = FALSE
    /\ testing = {} /\ tests = {}
    /\ results = [k \in Channels \X allNames |-> "none"]
    /\ batch = [b \in Batches |-> idleBatch] /\ started = 0 /\ testActs = 0

live(b) == batch[b].phase # "ended"

TypeOK ==
    /\ TableTypeOK
    /\ open \in BOOLEAN /\ batching \in BOOLEAN /\ stop \in BOOLEAN
    /\ current \in Channels \cup {NoChannel}
    /\ testing \subseteq allNames
    /\ results \in [Channels \X allNames -> {"none", "ok", "fail"}]
    /\ \A t \in tests : t.by \in {Single} \cup Batches /\ t.ch \in Channels /\ t.model \in allNames
    /\ \A b \in Batches : /\ batch[b].phase \in {"slice", "pause", "summary", "ended"}
                          /\ batch[b].next \in 1..(Len(batch[b].list) + 1)
    /\ started \in 0..MaxBatches /\ testActs \in 0..MaxDialogActions

-----------------------------------------------------------------------------
(* The dialog *)

testAct == testActs < MaxDialogActions /\ testActs' = testActs + 1

openTestModal(ch) ==
    /\ testAct /\ onRow /\ ~open
    /\ open' = TRUE /\ current' = ch
    /\ UNCHANGED tableVars
    /\ UNCHANGED <<batching, stop, testing, results, tests, batch, started>>

\* The stop flag is raised only when a batch is known to run; what is running
\* goes on until it looks at the flag.
handleCloseModal ==
    /\ testAct /\ open
    /\ stop' = (stop \/ batching)
    /\ open' = FALSE /\ batching' = FALSE /\ testing' = {}
    /\ batch' = [b \in Batches |->
                   [batch[b] EXCEPT !.stopped = @ \/ (live(b) /\ batching)]]
    /\ UNCHANGED tableVars
    /\ UNCHANGED <<current, results, tests, started>>

-----------------------------------------------------------------------------
(* Tests *)

\* testChannel up to its request.  seen: isBatchTesting in the render of the click.
testCall(by, ch, model, seen) ==
    [by |-> by, ch |-> ch, model |-> model, seen |-> seen, env |-> env]

\* The test button of a row of the list, or of a row of the dialog.
testChannel(ch, model) ==
    /\ testAct
    /\ \/ ~open /\ onRow /\ model = DefaultModel
       \/ open /\ ch = current /\ model \in names(ch)
    /\ ~(stop /\ batching)
    /\ tests' = tests \cup {testCall(Single, ch, model, batching)}
    /\ testing' = testing \cup {model}
    /\ UNCHANGED tableVars
    /\ UNCHANGED <<dialogVars, results, batch, started>>

\* The models of the next slice of a batch, and the calls that test them.
sliceEnd(r) == IF r.next + ConcurrencyLimit > Len(r.list) + 1
               THEN Len(r.list) ELSE r.next + ConcurrencyLimit - 1
slice(r)    == {r.list[i] : i \in r.next..sliceEnd(r)}
sliceCalls(b, r) == {[testCall(b, r.ch, m, FALSE) EXCEPT !.env = r.env] : m \in slice(r)}

begun(r) == [r EXCEPT !.phase = "slice", !.next = sliceEnd(r) + 1]

\* batchTestModels up to its first await.  The button is disabled while
\* isBatchTesting, so the closure of the batch has seen it FALSE.
batchTestModels(matching) ==
    LET chosen == SelectSeq(Models[current], LAMBDA m : m \in matching)
        r == [phase |-> "slice", ch |-> current, list |-> chosen, next |-> 1, env |-> env,
              stopped |-> FALSE, overlapped |-> \E b \in Batches : live(b)]
    IN  /\ open /\ ~batching /\ started < MaxBatches /\ testAct
        /\ chosen # <<>>
        /\ started' = started + 1
        /\ batching' = TRUE /\ stop' = FALSE
        /\ results' = [k \in DOMAIN results |->
                         IF k[1] = current /\ k[2] \in matching THEN "none" ELSE results[k]]
        /\ tests' = tests \cup sliceCalls(started', r)
        /\ testing' = testing \cup slice(r)
        /\ batch' = [b \in Batches |->
                       IF b = started' THEN begun(r)
                       ELSE [batch[b] EXCEPT !.overlapped = @ \/ live(b)]]
        /\ UNCHANGED <<open, current>>
        /\ UNCHANGED tableVars

\* Mutant of afterSlice: the last model is taken for already tested.
afterSliceTooEarly(r) ==
    [r EXCEPT !.phase = IF stop THEN "ended" ELSE IF r.next < Len(r.list) THEN "pause" ELSE "summary"]

\* A batch whose slice has settled looks at the flag, then sleeps.
afterSlice(r) ==
    [r EXCEPT !.phase = IF stop THEN "ended" ELSE IF r.next <= Len(r.list) THEN "pause" ELSE "summary"]

\* A test call goes on: stopped calls that have seen a batch leave no result.
records(t) == ~(stop /\ t.seen)

\* The answer to one test request; the callers share its promise.  A success
\* also updates the channel in the list of the closure and shows that list.
TestAnswered(ch, model, outcome) ==
    LET ts   == {t \in tests : t.ch = ch /\ t.model = model}
        kept == {t \in ts : records(t)}
        left == tests \ ts
        moved(b) == batch[b].phase = "slice" /\ \A t \in left : t.by # b
    IN  /\ ts # {}
        /\ tests' = left
        /\ results' = IF kept = {} THEN results ELSE [results EXCEPT ![<<ch, model>>] = outcome]
        /\ rows' \in IF outcome = "ok" /\ kept # {}
                     THEN {t.env.rows : t \in kept} \cup {rows} ELSE {rows}
        /\ testing' = testing \ {model}
        /\ batch' = [b \in Batches |-> IF moved(b) THEN afterSlice(batch[b]) ELSE batch[b]]
        /\ batching' = (batching /\ ~\E b \in Batches : moved(b) /\ stop)
        /\ UNCHANGED <<controls, shown, spinners, waiting, muts, timers, busy, dialog, acts>>
        /\ UNCHANGED <<open, current, stop, started, testActs>>

\* Mutant of PauseOver: a stopped batch is skipped instead of ended.
PauseOverSkipsStopped(b) ==
    /\ batch[b].phase = "pause" /\ ~stop
    /\ tests' = tests \cup sliceCalls(b, batch[b])
    /\ testing' = testing \cup slice(batch[b])
    /\ batch' = [batch EXCEPT ![b] = begun(@)]
    /\ UNCHANGED <<tableVars, open, current, stop, batching, results, started, testActs>>

\* Mutant of PauseOver: the flag is not looked at again after the pause.
PauseOverIgnoresFlag(b) ==
    /\ batch[b].phase = "pause"
    /\ tests' = tests \cup sliceCalls(b, batch[b])
    /\ testing' = testing \cup slice(batch[b])
    /\ batch' = [batch EXCEPT ![b] = begun(@)]
    /\ UNCHANGED <<tableVars, open, current, stop, batching, results, started, testActs>>

\* 100 ms after a slice: the flag again, then the next slice.
PauseOver(b) ==
    /\ batch[b].phase = "pause"
    /\ IF stop
       THEN /\ batch' = [batch EXCEPT ![b].phase = "ended"]
            /\ batching' = FALSE
            /\ UNCHANGED <<tests, testing>>
       ELSE /\ tests' = tests \cup sliceCalls(b, batch[b])
            /\ testing' = testing \cup slice(batch[b])
            /\ batch' = [batch EXCEPT ![b] = begun(@)]
            /\ UNCHANGED batching
    /\ UNCHANGED <<tableVars, open, current, stop, results, started, testActs>>

\* Mutant of SummaryShown: the batch button is not given back.
SummaryKeepsFlag(b) ==
    /\ batch[b].phase = "summary"
    /\ batch' = [batch EXCEPT ![b].phase = "ended"]
    /\ UNCHANGED <<tableVars, dialogVars, testing, results, tests, started, testActs>>

\* 300 ms after the last slice: the summary is counted and the batch ends.
SummaryShown(b) ==
    /\ batch[b].phase = "summary"
    /\ batch' = [batch EXCEPT ![b].phase = "ended"]
    /\ batching' = FALSE
    /\ UNCHANGED <<tableVars, open, current, stop, testing, results, tests, started, testActs>>

-----------------------------------------------------------------------------
TableStep == (UserStep \/ NetworkStep) /\ UNCHANGED testVars

DialogStep ==
    \/ \E ch \in Channels : openTestModal(ch)
    \/ handleCloseModal
    \/ \E ch \in Channels, model \in allNames : testChannel(ch, model)
    \/ \E matching \in SUBSET (allNames \ {DefaultModel}) : batchTestModels(matching)

TestStep ==
    \/ \E ch \in Channels, m \in allNames, o \in {"ok", "fail"} : TestAnswered(ch, m, o)
    \/ \E b \in Batches : PauseOver(b)
    \/ \E b \in Batches : SummaryShown(b)

Done ==
    /\ acts = MaxActions /\ calls = {} /\ muts = {} /\ timers = {} /\ tests = {}
    /\ \A b \in Batches : ~live(b)
    /\ UNCHANGED vars

Next ==
    \/ TableStep
    \/ DialogStep
    \/ TestStep
    \/ Done

\* The browser's timers fire and every request is answered or rejected.
Fairness == WF_vars(TestStep)

Spec == Init /\ [][Next]_vars /\ Fairness

-----------------------------------------------------------------------------
(* Properties *)

\* The "testing" marks and the state of the batch button are never left on:
\* isBatchTesting only while a batch runs, a model's mark only while a test of
\* that model is under way (the finally blocks, and what closing clears).
MarksAreHeld ==
    /\ batching => \E b \in Batches : live(b)
    /\ \A m \in testing : \E t \in tests : t.model = m

\* A batch that ran alone counts real results: when its summary is due, every
\* model it was to test has one.
SummaryIsComplete ==
    \A b \in Batches : batch[b].phase = "summary" /\ ~batch[b].overlapped =>
        \A i \in 1..Len(batch[b].list) : results[<<batch[b].ch, batch[b].list[i]>>] # "none"

\* Every batch ends, stopped or not, and gives the button back.
BatchesEnd == \A b \in Batches : live(b) ~> ~live(b)

\* A batch that shares the stop flag with no other begins no further test once
\* its dialog was closed, whether the flag was raised during a slice or during
\* the pause after it, and however often the dialog is reopened meanwhile.
StopIsObeyed ==
    [][\A b \in Batches : batch[b].stopped /\ live(b) /\ ~batch[b].overlapped =>
         batch'[b].next = batch[b].next]_vars

\* What the toast says ("dialog closed, batch test stopped"): a batch whose
\* dialog was closed begins no further test.
StoppedStaysStopped ==
    [][\A b \in Batches : batch[b].stopped /\ live(b) => batch'[b].next = batch[b].next]_vars

=============================================================================
