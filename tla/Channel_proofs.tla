--------------------------- MODULE Channel_proofs ---------------------------
(***************************************************************************)
(* The channel list and the tests of its models.                           *)
(*                                                                         *)
(* For every set of options, forms and pages: the spinners and locks of    *)
(* the list are held by something still to come, and answers to loads are  *)
(* shown in the order the loads were issued, alone or with model tests     *)
(* going on.  For any channels, models, slices and number of batches: the  *)
(* marks of the test dialog are held by tests under way, a batch that ran  *)
(* alone counts a result for every model, and a batch whose dialog was     *)
(* closed begins no further test unless another batch ran with it.         *)
(***************************************************************************)
EXTENDS ChannelTests, TLAPS

-----------------------------------------------------------------------------
(* The list *)


\* What LoadsInOrder rests on: no installed load is newer than the counter.
Numbering == counter \in Nat /\ shown \in Nat /\ shown <= counter

Flags == loading \in BOOLEAN /\ searching \in BOOLEAN /\ stuck \in BOOLEAN /\ busy \subseteq UpdateOps

IInv == Numbering /\ Flags /\ SpinnersAreHeld

\* A reload adds a caller that holds the spinner it turns on, and takes the
\* spinner over from the load it overtakes.
LEMMA FetchHolds ==
    ASSUME NEW p, NEW o, NEW asSearch \in BOOLEAN, NEW outer, NEW captured,
           counter \in Nat, loading \in BOOLEAN, searching \in BOOLEAN,
           fetch(p, o, asSearch, outer, captured)
    PROVE  /\ calls \subseteq calls'
           /\ \E c \in calls' : c.outer = outer
           /\ loading' => loading \/ \E c \in calls' : c.load /\ (c.id = 0 \/ c.id = counter')
           /\ counter' # counter => \E c \in calls' : c.load /\ (c.id = 0 \/ c.id = counter')
           /\ searching' => searching \/ \E c \in calls' : c.srch
           /\ counter' \in Nat /\ counter' >= counter
           /\ loading' \in BOOLEAN /\ searching' \in BOOLEAN
  <1> DEFINE plain == form = NoForm
             call == [q |-> [form |-> form, page |-> p, opts |-> o],
                      id |-> IF plain THEN counter + 1 ELSE 0,
                      load |-> plain \/ ~asSearch, srch |-> ~plain \/ asSearch,
                      outer |-> outer, env |-> captured]
  <1>1. /\ calls' = calls \cup {call}
        /\ counter' = IF plain THEN counter + 1 ELSE counter
        /\ loading' = (loading \/ call.load)
        /\ searching' = (searching \/ call.srch)
    BY DEF fetch
  <1>2. call \in calls' /\ call.outer = outer
    BY <1>1
  <1>3. call.load => call.id = 0 \/ call.id = counter'
    BY <1>1
  <1>4. counter' # counter => call.load
    BY <1>1
  <1> HIDE DEF call
  <1> QED
    BY <1>1, <1>2, <1>3, <1>4

\* The operations a spinner or a lock may wait for.
Holders == UpdateOps \cup {"batchDelete"}

\* A reload keeps the invariant if the operation it takes over from, if any, is
\* the one it is to finish.
LEMMA FetchKeeps ==
    ASSUME IInv, NEW p, NEW o, NEW asSearch \in BOOLEAN, NEW outer, NEW captured,
           fetch(p, o, asSearch, outer, captured),
           stuck' = stuck, busy' = busy, shown' = shown,
           \A m \in muts : m.op \in Holders => m \in muts' \/ m.op = outer
    PROVE  IInv'
  <1>1. /\ calls \subseteq calls'
        /\ \E c \in calls' : c.outer = outer
        /\ loading' => loading \/ \E c \in calls' : c.load /\ (c.id = 0 \/ c.id = counter')
        /\ counter' # counter => \E c \in calls' : c.load /\ (c.id = 0 \/ c.id = counter')
        /\ searching' => searching \/ \E c \in calls' : c.srch
        /\ counter' \in Nat /\ counter' >= counter
        /\ loading' \in BOOLEAN /\ searching' \in BOOLEAN
    BY FetchHolds DEF IInv, Numbering, Flags
  <1>2. Numbering' /\ Flags'
    BY <1>1 DEF IInv, Numbering, Flags
  <1>3. ASSUME NEW op \in Holders, pending(op) PROVE pending(op)'
    BY <1>1, <1>3 DEF pending
  <1>4. loading' => stuck' \/ pending("batchDelete")' \/ \E c \in calls' : c.load /\ installs(c)'
    <2>1. ASSUME NEW c \in calls, c.load, installs(c), counter' = counter
          PROVE  c \in calls' /\ installs(c)'
      BY <1>1, <2>1 DEF installs
    <2>2. ASSUME NEW c \in calls', c.load, c.id = 0 \/ c.id = counter'
          PROVE  installs(c)'
      BY <2>2 DEF installs
    <2> QED
      BY <1>1, <1>3, <2>1, <2>2 DEF IInv, SpinnersAreHeld, Holders
  <1>5. searching' => \E c \in calls' : c.srch
    BY <1>1 DEF IInv, SpinnersAreHeld
  <1>6. \A op \in busy' : pending(op)'
    BY <1>3 DEF IInv, SpinnersAreHeld, Flags, Holders
  <1> QED
    BY <1>2, <1>4, <1>5, <1>6 DEF IInv, SpinnersAreHeld

\* A step that neither reloads nor answers: a spinner or a lock is taken only
\* with an operation, and an operation leaves only with its spinner or lock.
Quiet ==
    /\ UNCHANGED <<calls, counter, shown, searching>>
    /\ loading' \in BOOLEAN /\ stuck' \in BOOLEAN
    /\ loading' => loading \/ \E m \in muts' : m.op = "batchDelete"
    /\ stuck /\ loading' => stuck'
    /\ busy' \subseteq UpdateOps
    /\ \A op \in busy' : op \in busy \/ \E m \in muts' : m.op = op
    /\ \A m \in muts : m.op \in Holders =>
         \/ m \in muts'
         \/ m.op \in UpdateOps /\ m.op \notin busy'
         \/ m.op = "batchDelete" /\ (loading' => stuck')

\* So does every step that starts nothing and ends nothing.
LEMMA QuietKeeps ==
    ASSUME IInv, Quiet
    PROVE  IInv'
  <1> USE DEF Quiet
  <1>1. Numbering' /\ Flags'
    BY DEF IInv, Numbering, Flags
  <1>2. loading' => stuck' \/ pending("batchDelete")' \/ \E c \in calls' : c.load /\ installs(c)'
    <2>1. \A c \in calls : installs(c) => installs(c)'
      BY DEF installs
    <2>2. pending("batchDelete") /\ loading' => stuck' \/ pending("batchDelete")'
      BY DEF pending, Holders, UpdateOps
    <2> QED
      BY <2>1, <2>2 DEF IInv, SpinnersAreHeld, pending
  <1>3. searching' => \E c \in calls' : c.srch
    BY DEF IInv, SpinnersAreHeld
  <1>4. ASSUME NEW op \in busy' PROVE pending(op)'
    <2>1. CASE \E m \in muts' : m.op = op
      BY <2>1 DEF pending
    <2>2. CASE op \in busy
      <3>1. pending(op) /\ op \in Holders /\ op # "batchDelete"
        BY <2>2 DEF IInv, SpinnersAreHeld, Flags, Holders, UpdateOps
      <3> QED
        BY <3>1 DEF pending, Holders
    <2> QED
      BY <2>1, <2>2
  <1> QED
    BY <1>1, <1>2, <1>3, <1>4 DEF IInv, SpinnersAreHeld

LEMMA QuietShown ==
    ASSUME IInv, Quiet PROVE shown' >= shown
BY DEF IInv, Numbering, Quiet

\* An answer ends its callers, and with each what it held.
LEMMA AnswerKeeps ==
    ASSUME IInv, NEW q, NEW rejected \in BOOLEAN, answerEffects(q, rejected),
           shown' \in Nat, shown' <= counter
    PROVE  IInv'
  <1> DEFINE cs == sharers(q)
  <1>1. /\ calls' = calls \ cs
        /\ loading' = (loading /\ \A c \in cs : ~clearsLoading(c, rejected))
        /\ stuck' = (loading' /\ (stuck \/ (rejected /\ \E c \in cs : ownsLoading(c))))
        /\ searching' = (searching /\ \A c \in cs : ~c.srch)
        /\ busy' = busy \ {c.outer : c \in cs}
        /\ counter' = counter /\ muts' = muts
    BY DEF answerEffects
  <1> HIDE DEF cs
  <1>2. Numbering' /\ Flags'
    BY <1>1 DEF IInv, Numbering, Flags
  <1>3. ASSUME loading' PROVE stuck' \/ pending("batchDelete")' \/ \E c \in calls' : c.load /\ installs(c)'
    <2>1. loading /\ \A c \in cs : ~clearsLoading(c, rejected)
      BY <1>1, <1>3
    <2>2. ASSUME NEW c \in cs, ownsLoading(c) PROVE stuck'
      BY <1>1, <1>3, <2>1, <2>2 DEF clearsLoading, ownsLoading
    <2>3. CASE stuck
      BY <1>1, <1>3, <2>3
    <2>4. CASE pending("batchDelete")
      BY <1>1, <2>2, <2>4 DEF pending, ownsLoading
    <2>5. ASSUME NEW c \in calls, c.load, installs(c)
          PROVE  stuck' \/ (c \in calls' /\ installs(c)')
      BY <1>1, <2>2, <2>5 DEF ownsLoading, installs
    <2> QED
      BY <2>1, <2>3, <2>4, <2>5 DEF IInv, SpinnersAreHeld
  <1>4. searching' => \E c \in calls' : c.srch
    BY <1>1 DEF IInv, SpinnersAreHeld
  <1>5. \A op \in busy' : pending(op)'
    BY <1>1 DEF IInv, SpinnersAreHeld, pending
  <1> QED
    BY <1>2, <1>3, <1>4, <1>5 DEF IInv, SpinnersAreHeld

\* The page as it is mounted.
LEMMA InitIInv == TableInit => IInv
  <1> SUFFICES ASSUME TableInit PROVE IInv
    OBVIOUS
  <1> DEFINE first == [q |-> [form |-> NoForm, page |-> 1, opts |-> opts], id |-> 1, load |-> TRUE,
                       srch |-> FALSE, outer |-> "nothing", env |-> env]
  <1>1. first \in calls /\ first.load /\ first.id = counter
    BY DEF TableInit
  <1> HIDE DEF first
  <1>2. \E c \in calls : c.load /\ installs(c)
    BY <1>1 DEF installs
  <1>3. /\ counter = 1 /\ shown = 0 /\ loading = TRUE /\ searching = FALSE /\ stuck = FALSE
        /\ busy = {}
    BY DEF TableInit
  <1>4. Numbering
    BY <1>3 DEF Numbering
  <1>5. Flags
    BY <1>3 DEF Flags
  <1>6. SpinnersAreHeld
    BY <1>2, <1>3 DEF SpinnersAreHeld
  <1> QED
    BY <1>4, <1>5, <1>6 DEF IInv

\* The controls: most reload, filling or resetting the form does not.
LEMMA ControlsKeep ==
    ASSUME IInv,
           \/ \E f \in Forms : fillForm(f)
           \/ submitForm \/ resetForm \/ refreshButton
           \/ \E p \in 1..MaxPage : handlePageChange(p)
           \/ \E o \in Options : handlePageSizeChange(o) \/ handleSort(o) \/ handleSwitch(o) \/ handleTabChange(o)
    PROVE  IInv'
  <1>1. ASSUME NEW p, NEW o, NEW asSearch \in BOOLEAN, NEW captured,
               fetch(p, o, asSearch, "nothing", captured), controlsOnly
        PROVE  IInv'
    <2>1. stuck' = stuck /\ busy' = busy /\ shown' = shown /\ muts' = muts
      BY <1>1 DEF controlsOnly, list
    <2> QED
      BY <1>1, <2>1, FetchKeeps
  <1>2. ASSUME NEW f \in Forms, fillForm(f) PROVE IInv'
    <2>1. Quiet
      BY <1>2 DEF Quiet, fillForm, waiting, controlsOnly, list, IInv, Flags
    <2> QED
      BY <2>1, QuietKeeps
  <1>3. CASE submitForm
    BY <1>1, <1>3 DEF submitForm, searchChannels
  <1>4. CASE resetForm
    <2>1. Quiet
      BY <1>4 DEF Quiet, resetForm, waiting, spinners, list, IInv, Flags
    <2> QED
      BY <2>1, QuietKeeps
  <1>5. CASE refreshButton
    <2>1. (form # NoForm) \in BOOLEAN
      OBVIOUS
    <2> QED
      BY <1>1, <1>5, <2>1 DEF refreshButton, refresh
  <1>6. ASSUME NEW p \in 1..MaxPage, handlePageChange(p) PROVE IInv'
    BY <1>1, <1>6 DEF handlePageChange, loadChannels, searchChannels
  <1>7. ASSUME NEW o \in Options,
               handlePageSizeChange(o) \/ handleSort(o) \/ handleSwitch(o) \/ handleTabChange(o)
        PROVE  IInv'
    BY <1>1, <1>7 DEF handlePageSizeChange, handleSort, handleSwitch, handleTabChange,
                      loadChannels, searchChannels
  <1> QED
    BY <1>2, <1>3, <1>4, <1>5, <1>6, <1>7

\* Sending an operation takes a lock or a spinner only together with what will
\* give it back.
LEMMA OperationsKeep ==
    ASSUME IInv,
           \/ manageChannel \/ manageTag \/ updateChannelBalance \/ setChannelBalanceManually
           \/ deleteFromRow \/ copySelectedChannel \/ submitTagEdit \/ batchSetChannelTag
           \/ deleteAllDisabledChannels \/ fixChannelsAbilities \/ batchDeleteChannels
           \/ openUpstreamUpdateModal \/ closeUpstreamUpdateModal
           \/ applyUpstreamUpdates \/ applyAllUpstreamUpdates
           \/ detectChannelUpstreamUpdates \/ detectAllUpstreamUpdates
    PROVE  IInv'
  <1>1. ASSUME NEW op, Begin(op), UNCHANGED <<loading, busy>> PROVE IInv'
    <2>1. Quiet
      BY <1>1 DEF Quiet, Begin, waiting, list, IInv, Flags
    <2> QED
      BY <2>1, QuietKeeps
  <1>2. CASE batchDeleteChannels
    <2>1. \E m \in muts' : m.op = "batchDelete"
      <3>1. [op |-> "batchDelete", env |-> env] \in muts'
        BY <1>2 DEF batchDeleteChannels, Begin
      <3> QED
        BY <3>1
    <2>2. Quiet
      BY <1>2, <2>1 DEF Quiet, batchDeleteChannels, Begin, waiting, list, IInv, Flags
    <2> QED
      BY <2>2, QuietKeeps
  <1>3. CASE openUpstreamUpdateModal \/ closeUpstreamUpdateModal
    <2>1. Quiet
      BY <1>3 DEF Quiet, openUpstreamUpdateModal, closeUpstreamUpdateModal, waiting, spinners,
                  list, IInv, Flags
    <2> QED
      BY <2>1, QuietKeeps
  <1>4. ASSUME NEW op \in UpdateOps, beginUpdate(op) PROVE IInv'
    <2>1. \E m \in muts' : m.op = op
      <3>1. [op |-> op, env |-> env] \in muts'
        BY <1>4 DEF beginUpdate, Begin
      <3> QED
        BY <3>1
    <2>2. Quiet
      BY <1>4, <2>1 DEF Quiet, beginUpdate, Begin, waiting, list, IInv, Flags
    <2> QED
      BY <2>2, QuietKeeps
  <1> QED
    BY <1>1, <1>2, <1>3, <1>4
    DEF manageChannel, manageTag, updateChannelBalance, setChannelBalanceManually, deleteFromRow,
        copySelectedChannel, submitTagEdit, batchSetChannelTag, deleteAllDisabledChannels,
        fixChannelsAbilities, applyUpstreamUpdates, applyAllUpstreamUpdates,
        detectChannelUpstreamUpdates, detectAllUpstreamUpdates, UpdateOps

\* The number of a load that is shown is the counter's: it is not below the last.
LEMMA ShownIsNewest ==
    ASSUME IInv, NEW q, ListArrives(q)
    PROVE  shown' \in Nat /\ shown <= shown' /\ shown' <= counter
  <1> DEFINE ids == {c.id : c \in {d \in sharers(q) : installs(d)}}
  <1>1. shown' = IF ids \subseteq {0} THEN shown ELSE CHOOSE i \in ids \ {0} : TRUE
    BY DEF ListArrives
  <1>2. ids \subseteq {0, counter}
    BY DEF installs
  <1> HIDE DEF ids
  <1>3. CASE ids \subseteq {0}
    BY <1>1, <1>3 DEF IInv, Numbering
  <1>4. CASE ~(ids \subseteq {0})
    <2>1. ids \ {0} = {counter}
      BY <1>2, <1>4
    <2>2. (CHOOSE i \in {counter} : TRUE) = counter
      OBVIOUS
    <2>3. shown' = counter
      BY <1>1, <1>4, <2>1, <2>2
    <2> QED
      BY <2>3 DEF IInv, Numbering
  <1> QED
    BY <1>3, <1>4

\* What comes back from the network, and the timers.
LEMMA NetworkKeeps ==
    ASSUME IInv, NetworkStep
    PROVE  IInv' /\ shown' >= shown
  <1>1. ASSUME NEW q, ListArrives(q) PROVE IInv' /\ shown' >= shown
    <2>1. shown' \in Nat /\ shown <= shown' /\ shown' <= counter
      BY <1>1, ShownIsNewest
    <2>2. answerEffects(q, FALSE)
      BY <1>1 DEF ListArrives
    <2>3. IInv'
      BY <2>1, <2>2, AnswerKeeps
    <2> QED
      BY <2>1, <2>3 DEF IInv, Numbering
  <1>2. ASSUME NEW q, ListRefused(q) \/ ListRejected(q) PROVE IInv' /\ shown' >= shown
    <2>1. shown' = shown /\ \E rejected \in BOOLEAN : answerEffects(q, rejected)
      BY <1>2 DEF ListRefused, ListRejected
    <2>2. shown \in Nat /\ shown <= counter
      BY DEF IInv, Numbering
    <2>3. IInv'
      BY <2>1, <2>2, AnswerKeeps
    <2> QED
      BY <2>1, <2>2, <2>3
  <1>3. ASSUME NEW m \in muts, WriteBack(m) PROVE IInv' /\ shown' >= shown
    <2>1. Quiet
      BY <1>3 DEF Quiet, WriteBack, settled, waiting, spinners, IInv, Flags, Holders, UpdateOps
    <2> QED
      BY <2>1, QuietKeeps, QuietShown
  <1>4. ASSUME NEW m \in muts, NEW ok \in BOOLEAN, RowDeleted(m, ok) PROVE IInv' /\ shown' >= shown
    <2>1. /\ fetch(m.env.page, m.env.opts, form # NoForm, "timer", m.env)
          /\ stuck' = stuck /\ busy' = busy /\ shown' = shown
          /\ \A n \in muts : n.op \in Holders => n \in muts'
      BY <1>4 DEF RowDeleted, refresh, settled, Holders, UpdateOps
    <2>2. (form # NoForm) \in BOOLEAN
      OBVIOUS
    <2>3. IInv'
      BY <2>1, <2>2, FetchKeeps
    <2> QED
      BY <2>1, <2>3 DEF IInv, Numbering
  <1>5. ASSUME NEW m \in muts, Reload(m) PROVE IInv' /\ shown' >= shown
    <2> DEFINE outer == IF m.op = "reload" THEN "nothing" ELSE m.op
    <2>1. /\ fetch(m.env.page, m.env.opts, form # NoForm, outer, m.env)
          /\ stuck' = stuck /\ busy' = busy /\ shown' = shown
          /\ muts' = muts \ {m}
      BY <1>5 DEF Reload, refresh, settled, list
    <2>2. \A n \in muts : n.op \in Holders => n \in muts' \/ n.op = outer
      BY <2>1 DEF Holders, UpdateOps
    <2> HIDE DEF outer
    <2>3. (form # NoForm) \in BOOLEAN
      OBVIOUS
    <2>4. IInv'
      BY <2>1, <2>2, <2>3, FetchKeeps
    <2> QED
      BY <2>1, <2>4 DEF IInv, Numbering
  <1>6. ASSUME NEW m \in muts, Refused(m) PROVE IInv' /\ shown' >= shown
    <2>1. m.op \in Holders => m.op \in UpdateOps \/ m.op = "batchDelete"
      BY DEF Holders
    <2>2. Quiet
      BY <1>6, <2>1 DEF Quiet, Refused, settled, waiting, list, IInv, Flags
    <2> QED
      BY <2>2, QuietKeeps, QuietShown
  <1>7. ASSUME NEW m \in muts, Rejected(m) PROVE IInv' /\ shown' >= shown
    <2>1. m.op \in Holders => m.op \in UpdateOps \/ m.op = "batchDelete"
      BY DEF Holders
    <2>2. Quiet
      BY <1>7, <2>1 DEF Quiet, Rejected, settled, waiting, list, IInv, Flags
    <2> QED
      BY <2>2, QuietKeeps, QuietShown
  <1>8. ASSUME NEW t \in timers, TimerFires(t) PROVE IInv' /\ shown' >= shown
    <2>1. stuck' = stuck /\ busy' = busy /\ shown' = shown /\ muts' = muts
      BY <1>8 DEF TimerFires, list
    <2>2. ASSUME NEW p, refresh(p, t.env, "nothing") PROVE IInv' /\ shown' >= shown
      <3>1. fetch(p, t.env.opts, form # NoForm, "nothing", t.env) /\ (form # NoForm) \in BOOLEAN
        BY <2>2 DEF refresh
      <3>2. IInv'
        BY <2>1, <3>1, FetchKeeps
      <3> QED
        BY <2>1, <3>2 DEF IInv, Numbering
    <2>3. CASE UNCHANGED <<waiting, loading, searching>>
      <3>1. Quiet
        BY <2>1, <2>3 DEF Quiet, waiting, IInv, Flags
      <3> QED
        BY <3>1, QuietKeeps, QuietShown
    <2> QED
      BY <1>8, <2>2, <2>3 DEF TimerFires
  <1> QED
    BY <1>1, <1>2, <1>3, <1>4, <1>5, <1>6, <1>7, <1>8 DEF NetworkStep

\* The user's actions do not touch what is shown.
LEMMA UserKeepsShown ==
    ASSUME UserStep PROVE shown' = shown
BY DEF UserStep, fillForm, submitForm, resetForm, refreshButton, handlePageChange,
       handlePageSizeChange, handleSort, handleSwitch, handleTabChange, controlsOnly, list,
       Begin, beginUpdate, batchDeleteChannels, openUpstreamUpdateModal, closeUpstreamUpdateModal,
       manageChannel, manageTag, updateChannelBalance, setChannelBalanceManually, deleteFromRow,
       copySelectedChannel, submitTagEdit, batchSetChannelTag, deleteAllDisabledChannels,
       fixChannelsAbilities, applyUpstreamUpdates, applyAllUpstreamUpdates,
       detectChannelUpstreamUpdates, detectAllUpstreamUpdates

\* Every step keeps the invariant and shows no older load.
LEMMA StepIInv ==
    ASSUME IInv, [TableNext]_tableVars
    PROVE  IInv' /\ shown' >= shown
  <1>1. CASE UserStep
    <2>1. IInv'
      BY <1>1, ControlsKeep, OperationsKeep DEF UserStep
    <2> QED
      BY <1>1, <2>1, UserKeepsShown DEF IInv, Numbering
  <1>2. CASE NetworkStep
    BY <1>2, NetworkKeeps
  <1>3. CASE UNCHANGED tableVars
    <2>1. Quiet
      BY <1>3 DEF Quiet, tableVars, list, spinners, waiting, IInv, Flags
    <2> QED
      BY <2>1, QuietKeeps, QuietShown
  <1> QED
    BY <1>1, <1>2, <1>3 DEF TableNext, TableDone

\* The spinners and the locks of the channel list are always held by something
\* still to come (or by a rejected request), whatever the order of the answers.
THEOREM SpinnersHeld == TableSpec => []SpinnersAreHeld
  <1>1. IInv /\ [TableNext]_tableVars => IInv'
    BY StepIInv
  <1>2. IInv => SpinnersAreHeld
    BY DEF IInv
  <1> QED
    BY InitIInv, <1>1, <1>2, PTL DEF TableSpec

\* An answer to a load never replaces the answer to a later load.
THEOREM LoadsOrdered == TableSpec => LoadsInOrder
  <1>1. IInv /\ [TableNext]_tableVars => IInv'
    BY StepIInv
  <1>2. IInv /\ [TableNext]_tableVars => [shown' >= shown]_tableVars
    BY StepIInv
  <1> QED
    BY InitIInv, <1>1, <1>2, PTL DEF TableSpec, LoadsInOrder

-----------------------------------------------------------------------------
(* The tests *)


Fields == {"phase", "ch", "list", "next", "env", "stopped", "overlapped"}

\* The parts of the state the argument reads.
TestTypes ==
    /\ started \in Nat
    /\ batching \in BOOLEAN /\ stop \in BOOLEAN
    /\ DOMAIN results = Channels \X allNames
    /\ DOMAIN batch = Batches
    /\ \A b \in Batches :
        /\ DOMAIN batch[b] = Fields
        /\ batch[b].next \in Nat \ {0}
        /\ batch[b].stopped \in BOOLEAN /\ batch[b].overlapped \in BOOLEAN
        /\ batch[b].phase \in {"slice", "pause", "summary", "ended"}

\* Batches are numbered as they start; no call of a batch has seen another one.
Fresh == \A b \in Batches : b > started => ~live(b)
Unseen == \A t \in tests : t.by # Single => t.seen = FALSE

\* A closed dialog is known to its batch until another batch starts.
StopRaised == \A b \in Batches :
    batch[b].stopped = TRUE /\ live(b) /\ batch[b].overlapped = FALSE => stop = TRUE

\* A batch leaves its slice when no test of it is under way, and comes to the
\* summary when no model is left.
Between == \A b \in Batches :
    /\ batch[b].phase \in {"pause", "summary"} => \A t \in tests : t.by # b
    /\ batch[b].phase = "summary" => batch[b].next > Len(batch[b].list)

\* A model a batch has begun, in [1, next), has its result or is being tested by it.
Begun == \A b \in Batches : live(b) /\ batch[b].overlapped = FALSE =>
    \A i \in 1..Len(batch[b].list) : i < batch[b].next =>
        \/ results[<<batch[b].ch, batch[b].list[i]>>] # "none"
        \/ \E t \in tests : t.by = b /\ t.ch = batch[b].ch /\ t.model = batch[b].list[i]

TInv == TestTypes /\ MarksAreHeld /\ Fresh /\ Unseen /\ StopRaised /\ Between /\ Begun

LEMMA InitTInv == Init => TInv
<1> SUFFICES ASSUME Init PROVE TInv
  OBVIOUS
<1>1. /\ started = 0 /\ batching = FALSE /\ stop = FALSE /\ tests = {} /\ testing = {}
      /\ DOMAIN results = Channels \X allNames
      /\ DOMAIN batch = Batches
  BY DEF Init
<1>2. ASSUME NEW b \in Batches
      PROVE  /\ DOMAIN batch[b] = Fields /\ batch[b].phase = "ended" /\ batch[b].next = 1
             /\ batch[b].stopped = FALSE /\ batch[b].overlapped = FALSE
  BY DEF Init, idleBatch, Fields
<1>3. \A b \in Batches : ~live(b)
  BY <1>2 DEF live
<1>4. TestTypes
  <2>1. started \in Nat /\ batching \in BOOLEAN /\ stop \in BOOLEAN
    BY <1>1
  <2>2. ASSUME NEW b \in Batches
        PROVE  batch[b].next \in Nat \ {0} /\ batch[b].phase \in {"slice", "pause", "summary", "ended"}
    <3>1. batch[b].next = 1 /\ batch[b].phase = "ended"
      BY <1>2, Zenon
    <3> QED BY <3>1
  <2>3. ASSUME NEW b \in Batches PROVE batch[b].stopped \in BOOLEAN /\ batch[b].overlapped \in BOOLEAN
    BY <1>2, Zenon
  <2> QED BY <1>1, <1>2, <2>1, <2>2, <2>3 DEF TestTypes
<1> QED
  BY <1>1, <1>2, <1>3, <1>4 DEF TInv, MarksAreHeld, Fresh, Unseen, StopRaised, Between, Begun

\* Every model of a slice has a call that tests it.
LEMMA SliceTested ==
    ASSUME NEW b \in Batches, NEW r, NEW m \in slice(r)
    PROVE  \E t \in sliceCalls(b, r) : t.model = m
<1>1. [testCall(b, r.ch, m, FALSE) EXCEPT !.env = r.env].model = m
  BY DEF testCall
<1> QED BY <1>1 DEF sliceCalls

\* What a slice is made of: the calls of its batch, and the batch that has
\* begun it.
LEMMA SliceFacts ==
    ASSUME NEW b \in Batches, NEW r, DOMAIN r = Fields, r.next \in Nat \ {0}
    PROVE  /\ begun(r).phase = "slice" /\ begun(r).ch = r.ch /\ begun(r).list = r.list
           /\ begun(r).stopped = r.stopped /\ begun(r).overlapped = r.overlapped
           /\ DOMAIN begun(r) = Fields
           /\ begun(r).next \in Nat \ {0}
           /\ \A t \in sliceCalls(b, r) : t.by = b /\ t.seen = FALSE /\ t.ch = r.ch
           /\ \A i \in 1..Len(r.list) : i >= r.next /\ i < begun(r).next =>
                \E t \in sliceCalls(b, r) : t.model = r.list[i]
<1>1. Len(r.list) \in Nat /\ sliceEnd(r) \in Nat
  BY ChannelTestsAssumption DEF sliceEnd
<1>2. /\ begun(r).phase = "slice" /\ begun(r).ch = r.ch /\ begun(r).list = r.list
      /\ begun(r).stopped = r.stopped /\ begun(r).overlapped = r.overlapped
      /\ DOMAIN begun(r) = Fields /\ begun(r).next = sliceEnd(r) + 1
  BY DEF begun, Fields
<1>3. ASSUME NEW t \in sliceCalls(b, r) PROVE t.by = b /\ t.seen = FALSE /\ t.ch = r.ch
  BY DEF sliceCalls, testCall
<1>5. ASSUME NEW i \in 1..Len(r.list), i >= r.next, i < begun(r).next
      PROVE  r.list[i] \in slice(r)
  BY <1>1, <1>2, <1>5 DEF slice
<1>6. begun(r).next \in Nat \ {0}
  BY <1>1, <1>2
<1> QED BY <1>2, <1>3, <1>5, <1>6, SliceTested


\* A step that leaves batches, tests and results alone.
LEMMA NothingTested ==
    ASSUME TInv, UNCHANGED <<tests, results, batch, started, batching, stop>>, testing' \subseteq testing
    PROVE  TInv'
BY DEF TInv, TestTypes, MarksAreHeld, Fresh, Unseen, StopRaised, Between, Begun, live

\* Closing the dialog stops every batch that is running.
LEMMA CloseKeeps ==
    ASSUME TInv, handleCloseModal
    PROVE  TInv'
<1>1. /\ stop' = (stop \/ batching) /\ batching' = FALSE /\ testing' = {}
      /\ UNCHANGED <<tests, results, started>>
  BY DEF handleCloseModal
<1>2. stop \in BOOLEAN /\ batching \in BOOLEAN /\ stop' \in BOOLEAN
  BY <1>1 DEF TInv, TestTypes
<1>3. DOMAIN batch' = Batches
  BY DEF handleCloseModal
<1>4. ASSUME NEW b \in Batches
      PROVE  /\ DOMAIN batch'[b] = Fields /\ batch'[b].next = batch[b].next
             /\ batch'[b].phase = batch[b].phase /\ batch'[b].ch = batch[b].ch
             /\ batch'[b].list = batch[b].list /\ batch'[b].overlapped = batch[b].overlapped
             /\ batch'[b].stopped = (batch[b].stopped \/ (live(b) /\ batching))
  BY DEF handleCloseModal, TInv, TestTypes, Fields
<1>5. \A b \in Batches : live(b)' = live(b)
  BY <1>4 DEF live
<1>6. TestTypes'
  BY <1>1, <1>2, <1>3, <1>4 DEF TInv, TestTypes
<1>7. StopRaised'
  <2> SUFFICES ASSUME NEW b \in Batches, batch'[b].stopped = TRUE, live(b)', batch'[b].overlapped = FALSE
               PROVE  stop' = TRUE
    BY DEF StopRaised
  <2>1. batch[b].stopped = TRUE \/ batching = TRUE
    BY <1>2, <1>4 DEF TInv, TestTypes
  <2>2. batch[b].stopped = TRUE => stop = TRUE
    BY <1>4, <1>5 DEF TInv, StopRaised
  <2> QED BY <1>1, <1>2, <2>1, <2>2
<1>8. MarksAreHeld' /\ Unseen'
  BY <1>1 DEF TInv, MarksAreHeld, Unseen
<1>9. Fresh' /\ Between' /\ Begun'
  BY <1>1, <1>4, <1>5 DEF TInv, Fresh, Between, Begun
<1> QED BY <1>6, <1>7, <1>8, <1>9 DEF TInv

\* A single test is no batch's.
LEMMA SingleKeeps ==
    ASSUME TInv, NEW ch \in Channels, NEW model \in allNames, testChannel(ch, model)
    PROVE  TInv'
<1> DEFINE c == testCall(Single, ch, model, batching)
<1>1. /\ tests' = tests \cup {c} /\ testing' = testing \cup {model}
      /\ UNCHANGED <<results, batch, started, batching, stop>>
  BY DEF testChannel, dialogVars
<1>2. c.by = 0 /\ c.model = model
  BY DEF testCall, Single
<1> HIDE DEF c
<1>3. MarksAreHeld'
  BY <1>1, <1>2 DEF TInv, MarksAreHeld, live
<1>4. Unseen' /\ Between'
  BY <1>1, <1>2 DEF TInv, Unseen, Between, Single, Batches
<1>5. TestTypes' /\ Fresh' /\ StopRaised'
  BY <1>1 DEF TInv, TestTypes, Fresh, StopRaised, live
<1>6. Begun'
  BY <1>1 DEF TInv, Begun, live
<1> QED BY <1>3, <1>4, <1>5, <1>6 DEF TInv

\* The stop flag is looked at before a slice begins.
LEMMA PauseKeeps ==
    ASSUME TInv, NEW b \in Batches, PauseOver(b)
    PROVE  TInv'
<1>1. batch[b].phase = "pause" /\ DOMAIN batch[b] = Fields /\ DOMAIN batch = Batches
      /\ batch[b].next \in Nat \ {0} /\ UNCHANGED <<stop, results, started>>
  BY DEF PauseOver, TInv, TestTypes
<1>2. CASE stop
  <2>1. /\ DOMAIN batch' = Batches /\ \A a \in Batches \ {b} : batch'[a] = batch[a]
        /\ DOMAIN batch'[b] = Fields /\ batch'[b].phase = "ended" /\ batch'[b].next = batch[b].next
        /\ batch'[b].stopped = batch[b].stopped /\ batch'[b].overlapped = batch[b].overlapped
        /\ batching' = FALSE /\ UNCHANGED <<tests, testing>>
    BY <1>1, <1>2 DEF PauseOver, Fields
  <2>2. ~live(b)' /\ \A a \in Batches \ {b} : live(a)' = live(a)
    BY <2>1 DEF live
  <2>3. TestTypes'
    BY <1>1, <2>1 DEF TInv, TestTypes
  <2>4. MarksAreHeld' /\ Unseen' /\ Fresh' /\ StopRaised'
    BY <1>1, <2>1, <2>2 DEF TInv, MarksAreHeld, Unseen, Fresh, StopRaised
  <2>5. Between' /\ Begun'
    BY <1>1, <2>1, <2>2 DEF TInv, Between, Begun
  <2> QED BY <2>3, <2>4, <2>5 DEF TInv
<1>3. CASE ~stop
  <2> DEFINE new == sliceCalls(b, batch[b])
  <2>1. /\ DOMAIN batch' = Batches /\ (\A a \in Batches \ {b} : batch'[a] = batch[a])
        /\ batch'[b] = begun(batch[b]) /\ batching' = batching
        /\ tests' = tests \cup new /\ testing' = testing \cup slice(batch[b])
    BY <1>1, <1>3 DEF PauseOver
  <2>2. /\ batch'[b].phase = "slice" /\ batch'[b].ch = batch[b].ch /\ batch'[b].list = batch[b].list
        /\ batch'[b].stopped = batch[b].stopped /\ batch'[b].overlapped = batch[b].overlapped
        /\ DOMAIN batch'[b] = Fields /\ batch'[b].next \in Nat \ {0}
        /\ \A t \in new : t.by = b /\ t.seen = FALSE /\ t.ch = batch[b].ch
        /\ \A m \in slice(batch[b]) : \E t \in new : t.model = m
        /\ \A i \in 1..Len(batch[b].list) : i >= batch[b].next /\ i < batch'[b].next =>
             \E t \in new : t.model = batch[b].list[i]
    <3> DEFINE r == batch[b]
               f == begun(r)
    <3>1. DOMAIN r = Fields /\ r.next \in Nat \ {0}
      BY <1>1
    <3> HIDE DEF r
    <3>2. /\ f.phase = "slice" /\ f.ch = r.ch /\ f.list = r.list
          /\ f.stopped = r.stopped /\ f.overlapped = r.overlapped
          /\ DOMAIN f = Fields /\ f.next \in Nat \ {0}
      BY <3>1, SliceFacts
    <3>4. \A t \in sliceCalls(b, r) : t.by = b /\ t.seen = FALSE /\ t.ch = r.ch
      BY <3>1, SliceFacts, Zenon
    <3>5. \A m \in slice(r) : \E t \in sliceCalls(b, r) : t.model = m
      BY SliceTested
    <3>3. \A i \in 1..Len(r.list) : i >= r.next /\ i < f.next =>
               \E t \in sliceCalls(b, r) : t.model = r.list[i]
      BY <3>1, SliceFacts, Zenon
    <3> QED BY <2>1, <3>2, <3>3, <3>4, <3>5 DEF r
  <2> HIDE DEF new
  <2>3. \A a \in Batches : live(a)' = live(a)
    BY <1>1, <2>1, <2>2 DEF live
  <2>4. TestTypes'
    BY <1>1, <2>1, <2>2 DEF TInv, TestTypes
  <2>5. MarksAreHeld'
    BY <2>1, <2>2, <2>3 DEF TInv, MarksAreHeld
  <2>6. Unseen' /\ Fresh' /\ StopRaised'
    BY <1>1, <2>1, <2>2, <2>3 DEF TInv, Unseen, Fresh, StopRaised
  <2>7. Between'
    BY <2>1, <2>2 DEF TInv, Between
  <2>8. Begun'
    <3> SUFFICES ASSUME NEW a \in Batches, live(a)', batch'[a].overlapped = FALSE,
                        NEW i \in 1..Len(batch'[a].list), i < batch'[a].next
                 PROVE  \/ results'[<<batch'[a].ch, batch'[a].list[i]>>] # "none"
                        \/ \E t \in tests' : t.by = a /\ t.ch = batch'[a].ch /\ t.model = batch'[a].list[i]
      BY DEF Begun
    <3>1. CASE a # b
      BY <1>1, <2>1, <2>3, <3>1 DEF TInv, Begun
    <3>2. CASE a = b /\ i < batch[b].next
      BY <1>1, <2>1, <2>2, <2>3, <3>2 DEF TInv, Begun
    <3>3. CASE a = b /\ ~(i < batch[b].next)
      BY <1>1, <2>1, <2>2, <3>3
    <3> QED BY <3>1, <3>2, <3>3
  <2> QED BY <2>4, <2>5, <2>6, <2>7, <2>8 DEF TInv
<1> QED BY <1>2, <1>3

\* The summary ends its batch.
LEMMA SummaryKeeps ==
    ASSUME TInv, NEW b \in Batches, SummaryShown(b)
    PROVE  TInv'
<1>1. DOMAIN batch[b] = Fields /\ DOMAIN batch = Batches
      /\ UNCHANGED <<stop, results, started, tests, testing>>
  BY DEF SummaryShown, TInv, TestTypes
<1>2. /\ DOMAIN batch' = Batches /\ \A a \in Batches \ {b} : batch'[a] = batch[a]
      /\ DOMAIN batch'[b] = Fields /\ batch'[b].phase = "ended" /\ batch'[b].next = batch[b].next
      /\ batch'[b].stopped = batch[b].stopped /\ batch'[b].overlapped = batch[b].overlapped
      /\ batching' = FALSE
  BY <1>1 DEF SummaryShown, Fields
<1>3. ~live(b)' /\ \A a \in Batches \ {b} : live(a)' = live(a)
  BY <1>2 DEF live
<1>4. TestTypes'
  BY <1>1, <1>2 DEF TInv, TestTypes
<1>5. MarksAreHeld' /\ Unseen' /\ Fresh' /\ StopRaised'
  BY <1>1, <1>2, <1>3 DEF TInv, MarksAreHeld, Unseen, Fresh, StopRaised
<1>6. Between' /\ Begun'
  BY <1>1, <1>2, <1>3 DEF TInv, Between, Begun
<1> QED BY <1>4, <1>5, <1>6 DEF TInv


\* A batch that starts clears the results it is to count, and marks the batches
\* that run with it.
LEMMA BatchKeeps ==
    ASSUME TInv, NEW matching, batchTestModels(matching)
    PROVE  /\ TInv'
           /\ \A b \in Batches : live(b) => batch'[b].next = batch[b].next
<1>n. PICK n : n = started + 1
  OBVIOUS
<1> DEFINE chosen == SelectSeq(Models[current], LAMBDA m : m \in matching)
           r == [phase |-> "slice", ch |-> current, list |-> chosen, next |-> 1, env |-> env,
                 stopped |-> FALSE, overlapped |-> \E b \in Batches : live(b)]
           f == begun(r)
           new == sliceCalls(n, r)
<1>1. /\ started < MaxBatches /\ started' = n
      /\ batching' = TRUE /\ stop' = FALSE
      /\ DOMAIN results' = DOMAIN results
      /\ tests' = tests \cup new /\ testing' = testing \cup slice(r)
      /\ batch' = [b \in Batches |->
                     IF b = n THEN f ELSE [batch[b] EXCEPT !.overlapped = @ \/ live(b)]]
  BY <1>n DEF batchTestModels
<1>2. n \in Batches /\ n \in Nat /\ started \in Nat
  BY <1>1, <1>n, ChannelTestsAssumption DEF TInv, TestTypes, Batches
<1>3. /\ DOMAIN r = Fields /\ r.next = 1 /\ r.next \in Nat \ {0} /\ r.stopped = FALSE
      /\ (r.overlapped = FALSE => \A b \in Batches : ~live(b)) /\ r.overlapped \in BOOLEAN
  BY DEF Fields
<1> HIDE DEF r
<1>4. /\ f.phase = "slice" /\ f.ch = r.ch /\ f.list = r.list
      /\ f.stopped = r.stopped /\ f.overlapped = r.overlapped
      /\ DOMAIN f = Fields /\ f.next \in Nat \ {0}
  BY <1>2, <1>3, SliceFacts
<1>5. \A t \in new : t.by = n /\ t.seen = FALSE /\ t.ch = r.ch
  BY <1>2, <1>3, SliceFacts, Zenon
<1>6. \A m \in slice(r) : \E t \in new : t.model = m
  BY <1>2, SliceTested
<1>7. \A i \in 1..Len(r.list) : i >= r.next /\ i < f.next => \E t \in new : t.model = r.list[i]
  <2>1. DOMAIN r = Fields /\ r.next \in Nat \ {0}
    BY <1>3
  <2> QED BY <1>2, <2>1, SliceFacts, Zenon
<1>8. batch'[n] = f /\ DOMAIN batch' = Batches
  BY <1>1, <1>2
<1> HIDE DEF f, new
<1>9. ASSUME NEW b \in Batches, b # n
      PROVE  /\ DOMAIN batch'[b] = Fields /\ batch'[b].next = batch[b].next
             /\ batch'[b].phase = batch[b].phase /\ batch'[b].list = batch[b].list
             /\ batch'[b].stopped = batch[b].stopped
             /\ batch'[b].overlapped = (batch[b].overlapped \/ live(b))
  <2>1. batch'[b] = [batch[b] EXCEPT !.overlapped = @ \/ live(b)] /\ DOMAIN batch[b] = Fields
    BY <1>1, <1>9 DEF TInv, TestTypes
  <2> QED BY <2>1 DEF Fields
<1>10. ASSUME NEW b \in Batches, b # n, live(b)' PROVE live(b) /\ batch'[b].overlapped = TRUE
  BY <1>9, <1>10 DEF live
<1>11. ~live(n)
  BY <1>2, <1>n DEF TInv, Fresh
<1>12. TestTypes'
  <2>1. started' \in Nat /\ batching' \in BOOLEAN /\ stop' \in BOOLEAN
    BY <1>1, <1>2
  <2>2. ASSUME NEW b \in Batches
        PROVE /\ DOMAIN batch'[b] = Fields /\ batch'[b].next \in Nat \ {0}
              /\ batch'[b].phase \in {"slice", "pause", "summary", "ended"}
    <3>1. CASE b = n
      BY <1>4, <1>8, <3>1
    <3>2. CASE b # n
      BY <1>9, <3>2 DEF TInv, TestTypes
    <3> QED BY <3>1, <3>2
  <2>3. ASSUME NEW b \in Batches
        PROVE batch'[b].stopped \in BOOLEAN /\ batch'[b].overlapped \in BOOLEAN
    <3>1. CASE b = n
      BY <1>3, <1>4, <1>8, <3>1, Zenon
    <3>2. CASE b # n
      <4>1. batch[b].stopped \in BOOLEAN
        BY DEF TInv, TestTypes
      <4> QED BY <1>9, <3>2, <4>1
    <3> QED BY <3>1, <3>2
  <2> QED BY <1>1, <1>8, <2>1, <2>2, <2>3 DEF TInv, TestTypes
<1>13. live(n)'
  BY <1>4, <1>8 DEF live
<1>14. MarksAreHeld'
  BY <1>1, <1>2, <1>6, <1>13 DEF TInv, MarksAreHeld
<1>15. Fresh'
  <2> SUFFICES ASSUME NEW b \in Batches, b > started', live(b)' PROVE FALSE
    BY DEF Fresh
  <2>1. b \in Int /\ b > n /\ b > started
    BY <1>1, <1>2, <1>n, ChannelTestsAssumption DEF Batches
  <2>2. b # n
    BY <1>2, <2>1
  <2> QED BY <1>10, <2>1, <2>2 DEF TInv, Fresh
<1>16. Unseen'
  BY <1>1, <1>5 DEF TInv, Unseen
<1>17. StopRaised'
  <2> SUFFICES ASSUME NEW b \in Batches, batch'[b].stopped = TRUE, live(b)', batch'[b].overlapped = FALSE
               PROVE  FALSE
    BY DEF StopRaised
  <2>1. b = n
    BY <1>10
  <2> QED BY <1>3, <1>4, <1>8, <2>1
<1>18. Between'
  <2> SUFFICES ASSUME NEW b \in Batches, batch'[b].phase \in {"pause", "summary"}
               PROVE  /\ \A t \in tests' : t.by # b
                      /\ batch'[b].phase = "summary" => batch'[b].next > Len(batch'[b].list)
    BY DEF Between
  <2>1. b # n
    BY <1>4, <1>8
  <2> QED BY <1>1, <1>5, <1>9, <2>1 DEF TInv, Between
<1>19. Begun'
  <2> SUFFICES ASSUME NEW b \in Batches, live(b)', batch'[b].overlapped = FALSE,
                      NEW i \in 1..Len(batch'[b].list), i < batch'[b].next
               PROVE  \E t \in tests' : t.by = b /\ t.ch = batch'[b].ch /\ t.model = batch'[b].list[i]
    BY DEF Begun
  <2>1. b = n
    BY <1>10
  <2>2. i \in 1..Len(r.list) /\ i >= r.next /\ i < f.next
    BY <1>3, <1>4, <1>8, <2>1
  <2> QED BY <1>1, <1>4, <1>5, <1>7, <1>8, <2>1, <2>2
<1>20. \A b \in Batches : live(b) => batch'[b].next = batch[b].next
  BY <1>9, <1>11
<1> QED BY <1>12, <1>14, <1>15, <1>16, <1>17, <1>18, <1>19, <1>20 DEF TInv

\* An answer reaches every call for its model; the result of a batch's call is
\* always recorded, since the call has not seen its own batch.
LEMMA TestAnswerKeeps ==
    ASSUME TInv, NEW ch \in Channels, NEW model \in allNames, NEW outcome \in {"ok", "fail"},
           TestAnswered(ch, model, outcome)
    PROVE  /\ TInv'
           /\ \A b \in Batches : batch'[b].next = batch[b].next
<1> DEFINE ts == {t \in tests : t.ch = ch /\ t.model = model}
           kept == {t \in ts : records(t)}
           left == tests \ ts
           moved(b) == batch[b].phase = "slice" /\ \A t \in left : t.by # b
<1>1. /\ tests' = left /\ testing' = testing \ {model}
      /\ results' = IF kept = {} THEN results ELSE [results EXCEPT ![<<ch, model>>] = outcome]
      /\ batch' = [b \in Batches |-> IF moved(b) THEN afterSlice(batch[b]) ELSE batch[b]]
      /\ batching' = (batching /\ ~\E b \in Batches : moved(b) /\ stop)
      /\ UNCHANGED <<stop, started>>
  BY DEF TestAnswered
<1>2. ASSUME NEW b \in Batches
      PROVE  /\ DOMAIN batch'[b] = Fields /\ batch'[b].next = batch[b].next
             /\ batch'[b].ch = batch[b].ch /\ batch'[b].list = batch[b].list
             /\ batch'[b].stopped = batch[b].stopped
             /\ batch'[b].overlapped = batch[b].overlapped
             /\ ~moved(b) => batch'[b] = batch[b]
             /\ moved(b) => batch'[b].phase = IF stop THEN "ended"
                                ELSE IF batch[b].next <= Len(batch[b].list) THEN "pause" ELSE "summary"
  <2>1. DOMAIN batch[b] = Fields
    BY DEF TInv, TestTypes
  <2>2. CASE moved(b)
    <3>1. batch'[b] = afterSlice(batch[b])
      BY <1>1, <2>2
    <3> QED BY <2>1, <2>2, <3>1 DEF afterSlice, Fields
  <2>3. CASE ~moved(b)
    <3>1. batch'[b] = batch[b]
      BY <1>1, <2>3
    <3> QED BY <2>1, <2>3, <3>1
  <2> QED BY <2>2, <2>3
<1>3. ASSUME NEW b \in Batches PROVE live(b)' => live(b)
  BY <1>2 DEF live
<1>4. DOMAIN batch' = Batches /\ DOMAIN results' = DOMAIN results
  BY <1>1
<1>5. batching' \in BOOLEAN
  BY <1>1 DEF TInv, TestTypes
<1>6. TestTypes'
  BY <1>1, <1>2, <1>4, <1>5 DEF TInv, TestTypes
<1>7. batching' => \E b \in Batches : live(b)'
  <2> SUFFICES ASSUME batching' PROVE \E b \in Batches : live(b)'
    OBVIOUS
  <2>1. batching /\ ~\E b \in Batches : moved(b) /\ stop
    BY <1>1
  <2>2. PICK b \in Batches : live(b)
    BY <2>1 DEF TInv, MarksAreHeld
  <2>3. CASE moved(b)
    BY <1>2, <2>1, <2>3 DEF live
  <2>4. CASE ~moved(b)
    BY <1>2, <2>2, <2>4 DEF live
  <2> QED BY <2>3, <2>4
<1>8. \A m \in testing' : \E t \in tests' : t.model = m
  BY <1>1 DEF TInv, MarksAreHeld
<1>9. MarksAreHeld'
  BY <1>7, <1>8 DEF MarksAreHeld
<1>10. Fresh' /\ Unseen'
  BY <1>1, <1>3 DEF TInv, Fresh, Unseen
<1>11. StopRaised'
  BY <1>1, <1>2, <1>3 DEF TInv, StopRaised
<1>12. Between'
  <2> SUFFICES ASSUME NEW b \in Batches, batch'[b].phase \in {"pause", "summary"}
               PROVE  /\ \A t \in tests' : t.by # b
                      /\ batch'[b].phase = "summary" => batch'[b].next > Len(batch'[b].list)
    BY DEF Between
  <2>1. CASE moved(b)
    <3>1. batch[b].next \in Nat /\ Len(batch[b].list) \in Nat
      BY DEF TInv, TestTypes
    <3> QED BY <1>1, <1>2, <2>1, <3>1
  <2>2. CASE ~moved(b)
    BY <1>1, <1>2, <2>2 DEF TInv, Between
  <2> QED BY <2>1, <2>2
<1>13. Begun'
  <2> SUFFICES ASSUME NEW b \in Batches, live(b)', batch'[b].overlapped = FALSE,
                      NEW i \in 1..Len(batch'[b].list), i < batch'[b].next
               PROVE  \/ results'[<<batch'[b].ch, batch'[b].list[i]>>] # "none"
                      \/ \E t \in tests' : t.by = b /\ t.ch = batch'[b].ch /\ t.model = batch'[b].list[i]
    BY DEF Begun
  <2> DEFINE c == batch[b].ch
             m == batch[b].list[i]
  <2>0. batch'[b].ch = c /\ batch'[b].list[i] = m
    BY <1>2
  <2>1. results[<<c, m>>] # "none" \/ \E t \in tests : t.by = b /\ t.ch = c /\ t.model = m
    BY <1>2, <1>3 DEF TInv, Begun
  <2>2. <<ch, model>> \in DOMAIN results
    BY DEF TInv, TestTypes
  <2> HIDE DEF c, m
  <2>3. CASE results[<<c, m>>] # "none"
    <3>1. results'[<<c, m>>] # "none"
      BY <1>1, <2>2, <2>3
    <3> QED BY <2>0, <3>1
  <2>4. ASSUME NEW t \in tests, t.by = b, t.ch = c, t.model = m
        PROVE  results'[<<c, m>>] # "none" \/ \E u \in tests' : u.by = b /\ u.ch = c /\ u.model = m
    <3>1. CASE t \in ts
      <4>1. c = ch /\ m = model
        BY <2>4, <3>1
      <4>2. t.seen = FALSE
        BY <2>4 DEF TInv, Unseen, Batches, Single
      <4>3. t \in kept
        BY <3>1, <4>2 DEF records
      <4>4. results' = [results EXCEPT ![<<ch, model>>] = outcome]
        BY <1>1, <4>3
      <4> QED BY <2>2, <4>1, <4>4
    <3>2. CASE t \notin ts
      BY <1>1, <2>4, <3>2
    <3> QED BY <3>1, <3>2
  <2> QED BY <2>0, <2>1, <2>3, <2>4
<1>14. \A b \in Batches : batch'[b].next = batch[b].next
  BY <1>2
<1> QED BY <1>6, <1>9, <1>10, <1>11, <1>12, <1>13, <1>14 DEF TInv

\* Every step keeps the invariant, and moves a batch on only if it is not
\* stopped, or shares the flag with another one.
StopObeyed == \A b \in Batches :
    batch[b].stopped = TRUE /\ live(b) /\ batch[b].overlapped = FALSE => batch'[b].next = batch[b].next

LEMMA StepTInv ==
    ASSUME TInv, [Next]_vars
    PROVE  TInv' /\ StopObeyed
<1>1. ASSUME NEW ch \in Channels, openTestModal(ch) PROVE TInv' /\ StopObeyed
  BY <1>1, NothingTested DEF openTestModal, StopObeyed
<1>2. CASE handleCloseModal
  <2>1. \A b \in Batches : batch'[b].next = batch[b].next
    BY <1>2 DEF handleCloseModal, TInv, TestTypes, Fields
  <2> QED BY <1>2, <2>1, CloseKeeps DEF StopObeyed
<1>3. ASSUME NEW ch \in Channels, NEW model \in allNames, testChannel(ch, model)
      PROVE  TInv' /\ StopObeyed
  BY <1>3, SingleKeeps DEF testChannel, StopObeyed
<1>4. ASSUME NEW matching, batchTestModels(matching) PROVE TInv' /\ StopObeyed
  BY <1>4, BatchKeeps DEF StopObeyed
<1>5. ASSUME NEW ch \in Channels, NEW m \in allNames, NEW o \in {"ok", "fail"}, TestAnswered(ch, m, o)
      PROVE  TInv' /\ StopObeyed
  BY <1>5, TestAnswerKeeps DEF StopObeyed
<1>6. ASSUME NEW b \in Batches, PauseOver(b) PROVE TInv' /\ StopObeyed
  <2>1. \A a \in Batches \ {b} : batch'[a] = batch[a]
    BY <1>6 DEF PauseOver, TInv, TestTypes
  <2>2. CASE stop
    <3>1. batch'[b].next = batch[b].next
      BY <1>6, <2>2 DEF PauseOver, TInv, TestTypes, Fields
    <3> QED BY <1>6, <2>1, <3>1, PauseKeeps DEF StopObeyed
  <2>3. CASE ~stop
    <3>1. ~(batch[b].stopped = TRUE /\ live(b) /\ batch[b].overlapped = FALSE)
      BY <2>3 DEF TInv, StopRaised
    <3> QED BY <1>6, <2>1, <3>1, PauseKeeps DEF StopObeyed
  <2> QED BY <2>2, <2>3
<1>7. ASSUME NEW b \in Batches, SummaryShown(b) PROVE TInv' /\ StopObeyed
  <2>1. \A a \in Batches : batch'[a].next = batch[a].next
    BY <1>7 DEF SummaryShown, TInv, TestTypes, Fields
  <2> QED BY <1>7, <2>1, SummaryKeeps DEF StopObeyed
<1>8. CASE UNCHANGED testVars
  BY <1>8, NothingTested DEF testVars, dialogVars, StopObeyed
<1> QED
  BY <1>1, <1>2, <1>3, <1>4, <1>5, <1>6, <1>7, <1>8
  DEF Next, TableStep, DialogStep, TestStep, Done, vars

LEMMA TestInvariant == Spec => []TInv
<1>1. TInv /\ [Next]_vars => TInv'
  BY StepTInv
<1> QED BY InitTInv, <1>1, PTL DEF Spec

\* isBatchTesting is on only while a batch runs, and a model is marked as being
\* tested only while a test of it is under way, however tests, batches and
\* dialogs overlap.
THEOREM MarksHeld == Spec => []MarksAreHeld
<1>1. TInv => MarksAreHeld
  BY DEF TInv
<1> QED BY <1>1, TestInvariant, PTL

\* When the summary of a batch that ran alone is due, every model it was to test
\* has a result, whatever else was tested and closed meanwhile.
THEOREM SummaryComplete == Spec => []SummaryIsComplete
<1>1. TInv => SummaryIsComplete
  <2> SUFFICES ASSUME TInv, NEW b \in Batches, batch[b].phase = "summary", ~batch[b].overlapped,
                      NEW i \in 1..Len(batch[b].list)
               PROVE  results[<<batch[b].ch, batch[b].list[i]>>] # "none"
    BY DEF SummaryIsComplete
  <2>1. live(b) /\ batch[b].overlapped = FALSE
    BY DEF live, TInv, TestTypes
  <2>2. i < batch[b].next /\ \A t \in tests : t.by # b
    BY DEF TInv, Between, TestTypes
  <2> QED BY <2>1, <2>2 DEF TInv, Begun
<1> QED BY <1>1, TestInvariant, PTL

\* A batch that shares the stop flag with no other begins no test after its
\* dialog was closed.
THEOREM StopIsKept == Spec => StopIsObeyed
<1>1. TInv /\ [Next]_vars =>
        [\A b \in Batches : batch[b].stopped /\ live(b) /\ ~batch[b].overlapped =>
           batch'[b].next = batch[b].next]_vars
  <2> SUFFICES ASSUME TInv, [Next]_vars, NEW b \in Batches,
                      batch[b].stopped, live(b), ~batch[b].overlapped
               PROVE  batch'[b].next = batch[b].next
    OBVIOUS
  <2>1. batch[b].stopped = TRUE /\ batch[b].overlapped = FALSE
    BY DEF TInv, TestTypes
  <2> QED BY <2>1, StepTInv DEF StopObeyed
<1> QED BY <1>1, TestInvariant, PTL DEF Spec, StopIsObeyed

-----------------------------------------------------------------------------
(* The list while models are tested *)

\* A step of the tests leaves the list alone, but for the rows an answer writes
\* back: it is quiet for the spinners and the locks.
LEMMA TestsAreQuiet ==
    ASSUME IInv, DialogStep \/ TestStep
    PROVE  Quiet
<1>1. CASE UNCHANGED tableVars
  BY <1>1 DEF IInv, Flags, Quiet, tableVars, list, spinners, waiting
<1>2. ASSUME NEW ch, NEW m, NEW o, TestAnswered(ch, m, o) PROVE Quiet
  <2>1. UNCHANGED <<shown, spinners, waiting, muts, busy>>
    BY <1>2 DEF TestAnswered
  <2> QED BY <2>1 DEF IInv, Flags, Quiet, spinners, waiting
<1>3. ASSUME DialogStep PROVE UNCHANGED tableVars
  <2>1. ASSUME NEW matching, batchTestModels(matching) PROVE UNCHANGED tableVars
    BY <2>1 DEF batchTestModels
  <2>2. ASSUME NEW ch, openTestModal(ch) PROVE UNCHANGED tableVars
    BY <2>2 DEF openTestModal
  <2>3. ASSUME NEW ch, NEW m, testChannel(ch, m) PROVE UNCHANGED tableVars
    BY <2>3 DEF testChannel
  <2> QED BY <1>3, <2>1, <2>2, <2>3 DEF DialogStep, handleCloseModal
<1>4. ASSUME NEW b, PauseOver(b) \/ SummaryShown(b) PROVE UNCHANGED tableVars
  BY <1>4 DEF PauseOver, SummaryShown
<1> QED BY <1>1, <1>2, <1>3, <1>4 DEF TestStep

\* Model tests, whose answers write old copies of the list back, break neither
\* the spinners and locks of the list nor the order of its loads.
THEOREM ListKeptByTests == Spec => []SpinnersAreHeld /\ LoadsInOrder
  <1>1. IInv /\ [Next]_vars => IInv' /\ [shown' >= shown]_tableVars
    <2> SUFFICES ASSUME IInv, [Next]_vars PROVE IInv' /\ shown' >= shown
      OBVIOUS
    <2>1. CASE DialogStep \/ TestStep
      BY <2>1, TestsAreQuiet, QuietKeeps, QuietShown
    <2>2. CASE [TableNext]_tableVars
      BY <2>2, StepIInv
    <2> QED BY <2>1, <2>2 DEF Next, TableStep, Done, TableNext, vars
  <1>2. IInv => SpinnersAreHeld
    BY DEF IInv
  <1>3. Init => IInv
    BY InitIInv DEF Init
  <1> QED BY <1>1, <1>2, <1>3, PTL DEF Spec, LoadsInOrder
=============================================================================
