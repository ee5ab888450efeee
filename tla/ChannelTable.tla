---------------------------- MODULE ChannelTable ----------------------------
(***************************************************************************)
(* The channel list of the web console (hooks/channels/useChannelsData.jsx *)
(* and useChannelUpstreamUpdates.jsx): its controls, the requests that     *)
(* fill it, and the operations on channels that reload it or write a copy  *)
(* of it back.                                                             *)
(*                                                                         *)
(* Of a list only the query it answers and whether it is empty are kept.   *)
(* A handler runs to its next await in one step; what follows an await     *)
(* uses the values its closure captured before it.  Dialogs that are only  *)
(* opened and closed, the row selection and the toasts are left out.       *)
(***************************************************************************)
EXTENDS Integers, FiniteSets

CONSTANTS
    Options,    \* page size, sort, tag mode, type tab and status filter together
    Forms,      \* what the search form may hold, NoForm (all empty) among them
    MaxPage,    \* pages of the list
    MaxActions  \* bound on the actions of the user

NoForm       == "empty"
SupplierOnly == "supplier"   \* only the supplier field is filled

ASSUME ChannelTableAssumption ==
    /\ NoForm \in Forms /\ Options # {}
    /\ MaxPage \in Nat \ {0} /\ MaxActions \in Nat

\* The page "the refresh button" asks for: it hands its click event to refresh.
EventPage == 0
Pages     == 0..MaxPage

Query  == [form: Forms, page: Pages, opts: Options]
NoRows == [query |-> [form |-> NoForm, page |-> EventPage, opts |-> CHOOSE o \in Options : TRUE],
           empty |-> TRUE]
Rows   == [query: Query, empty: BOOLEAN]

\* Operations guarded by an in-flight ref of useChannelUpstreamUpdates.
UpdateOps == {"apply", "applyAll", "detect", "detectAll"}
\* What remains to be done when a reload has ended.
Outers == {"nothing", "timer", "batchDelete"} \cup UpdateOps

VARIABLES
    form,      \* the values of the search form
    page,      \* activePage
    opts,      \* pageSize, idSort, enableTagMode, activeTypeKey and statusFilter
    rows,      \* channels
    loading, searching,
    counter,   \* requestCounter.current
    shown,     \* the highest request number of a load whose answer was installed
    calls,     \* callers of loadChannels and searchChannels waiting for the list
    muts,      \* operations on channels waiting for their answer
    timers,    \* reloads scheduled with a timeout
    busy,      \* the in-flight refs of the upstream updates that are set
    dialog,    \* a channel is open in the upstream update dialog
    stuck,     \* "loading" was left on by a rejected request
    acts       \* actions of the user so far

controls  == <<form, page, opts>>
list      == <<rows, shown>>
spinners  == <<loading, searching, stuck>>
waiting   == <<calls, counter>>
tableVars == <<controls, list, spinners, waiting, muts, timers, busy, dialog, acts>>

Closure == [page: Pages, opts: Options, rows: Rows, n: 0..MaxActions]
Call == [q: Query, id: 0..(3 * MaxActions + 1), load: BOOLEAN, srch: BOOLEAN,
         outer: Outers, env: Closure]

\* What a closure made now captures; n tells the user's actions apart.
env == [page |-> page, opts |-> opts, rows |-> rows, n |-> acts]

TableTypeOK ==
    /\ form \in Forms /\ page \in Pages /\ opts \in Options
    /\ rows \in Rows /\ shown \in 0..counter
    /\ loading \in BOOLEAN /\ searching \in BOOLEAN /\ stuck \in BOOLEAN
    /\ counter \in Nat /\ calls \subseteq Call
    /\ muts \subseteq [op: Outers \cup {"writeBack", "rowDelete", "reload"}, env: Closure]
    /\ timers \subseteq [env: Closure, back: BOOLEAN]
    /\ busy \subseteq UpdateOps /\ dialog \in BOOLEAN /\ acts \in 0..MaxActions

-----------------------------------------------------------------------------
(* Reloading the list *)

\* Mutant of fetch: a search takes a request number too.
fetchNumbersSearches(p, o, asSearch, outer, captured) ==
    LET plain == form = NoForm
        call  == [q |-> [form |-> form, page |-> p, opts |-> o],
                  id |-> IF plain THEN counter + 1 ELSE 0,
                  load |-> plain \/ ~asSearch, srch |-> ~plain \/ asSearch,
                  outer |-> outer, env |-> captured]
    IN  /\ calls' = calls \cup {call}
        /\ counter' = counter + 1
        /\ loading' = (loading \/ call.load)
        /\ searching' = (searching \/ call.srch)

\* A caller asks for page p under options o.  A filled form turns a load into
\* a search (no request number) and an empty one turns a search into a load.
fetch(p, o, asSearch, outer, captured) ==
    LET plain == form = NoForm
        call  == [q |-> [form |-> form, page |-> p, opts |-> o],
                  id |-> IF plain THEN counter + 1 ELSE 0,
                  load |-> plain \/ ~asSearch, srch |-> ~plain \/ asSearch,
                  outer |-> outer, env |-> captured]
    IN  /\ calls' = calls \cup {call}
        /\ counter' = IF plain THEN counter + 1 ELSE counter
        /\ loading' = (loading \/ call.load)
        /\ searching' = (searching \/ call.srch)

loadChannels(p, o)   == fetch(p, o, FALSE, "nothing", env)
searchChannels(p, o) == fetch(p, o, TRUE, "nothing", env)

\* refresh: the page is given, the options are those of the render it was made in.
refresh(p, captured, outer) == fetch(p, captured.opts, form # NoForm, outer, captured)

TableInit ==
    /\ acts = 0
    /\ form = NoForm /\ page = 1 /\ opts \in Options
    /\ rows = NoRows /\ shown = 0
    /\ loading = TRUE /\ searching = FALSE /\ stuck = FALSE
    /\ counter = 1
    /\ calls = {[q |-> [form |-> NoForm, page |-> 1, opts |-> opts], id |-> 1, load |-> TRUE,
                 srch |-> FALSE, outer |-> "nothing", env |-> env]}
    /\ muts = {} /\ timers = {} /\ busy = {} /\ dialog = FALSE

-----------------------------------------------------------------------------
(* The answer to a GET.  patchAPIInstance gives concurrent identical GETs one *)
(* promise: all callers with the same query go on together.                   *)

sharers(q) == {c \in calls : c.q = q}

\* Mutant of installs: every answer is shown.
installsAlways(c) == TRUE

\* loadChannels drops the answer of a load that a newer load has overtaken.
installs(c) == c.id = 0 \/ c.id = counter

\* The statements after the await clear the spinners; a load that was overtaken
\* returns before it does, and a rejected promise skips all but the finally.
clearsLoading(c, rejected) ==
    /\ ~rejected
    /\ (c.load /\ installs(c)) \/ c.outer = "batchDelete"

ownsLoading(c) == (c.load /\ installs(c)) \/ c.outer = "batchDelete"

answerEffects(q, rejected) ==
    LET cs == sharers(q)
    IN  /\ calls' = calls \ cs
        /\ loading' = (loading /\ \A c \in cs : ~clearsLoading(c, rejected))
        /\ stuck' = (loading' /\ (stuck \/ (rejected /\ \E c \in cs : ownsLoading(c))))
        /\ searching' = (searching /\ \A c \in cs : ~c.srch)
        /\ busy' = busy \ {c.outer : c \in cs}
        /\ timers' = timers \cup
             {[env |-> c.env, back |-> TRUE] :
                c \in {d \in cs : ~rejected /\ d.outer \in {"timer", "batchDelete"}}}
        /\ UNCHANGED <<form, opts, counter, muts, dialog, acts>>

\* A list arrives: callers whose load was overtaken leave it, the others show it;
\* a search sets the page as well.
ListArrives(q) ==
    /\ sharers(q) # {}
    /\ LET takers == {c \in sharers(q) : installs(c)}
           ids    == {c.id : c \in takers}
       IN  /\ \E empty \in BOOLEAN :
                rows' = IF takers = {} THEN rows ELSE [query |-> q, empty |-> empty]
           /\ page' = IF 0 \in ids THEN q.page ELSE page
           /\ shown' = IF ids \subseteq {0} THEN shown ELSE CHOOSE i \in ids \ {0} : TRUE
    /\ answerEffects(q, FALSE)

\* The server refuses (success: false): only a toast, then as before.
ListRefused(q) ==
    /\ sharers(q) # {}
    /\ answerEffects(q, FALSE)
    /\ UNCHANGED <<rows, shown, page>>

\* The promise is rejected (network error, HTTP error): the interceptor shows it.
ListRejected(q) ==
    /\ sharers(q) # {}
    /\ answerEffects(q, TRUE)
    /\ UNCHANGED <<rows, shown, page>>

-----------------------------------------------------------------------------
(* The controls *)

act == acts < MaxActions /\ acts' = acts + 1

controlsOnly == UNCHANGED <<list, stuck, muts, timers, busy, dialog>>

fillForm(f) ==
    /\ act /\ f # form /\ form' = f
    /\ UNCHANGED <<page, opts, loading, searching, waiting>> /\ controlsOnly

submitForm ==
    /\ act /\ searchChannels(1, opts)
    /\ UNCHANGED controls /\ controlsOnly

\* Reset empties the form and refreshes 100 ms later.
resetForm ==
    /\ act /\ form' = NoForm
    /\ timers' = timers \cup {[env |-> env, back |-> FALSE]}
    /\ UNCHANGED <<page, opts, list, spinners, waiting, muts, busy, dialog>>

\* onClick={refresh}: the event is the page.
refreshButton ==
    /\ act /\ refresh(EventPage, env, "nothing")
    /\ UNCHANGED controls /\ controlsOnly

handlePageChange(p) ==
    /\ act /\ page' = p
    /\ IF form = NoForm THEN loadChannels(p, opts) ELSE searchChannels(p, opts)
    /\ UNCHANGED <<form, opts>> /\ controlsOnly

handlePageSizeChange(o) ==
    /\ act /\ opts' = o /\ page' = 1
    /\ IF form = NoForm THEN loadChannels(1, o) ELSE searchChannels(1, o)
    /\ UNCHANGED form /\ controlsOnly

\* The sort switch keeps the page, and does not look at the supplier field.
handleSort(o) ==
    /\ act /\ opts' = o
    /\ IF form \in {NoForm, SupplierOnly} THEN loadChannels(page, o) ELSE searchChannels(page, o)
    /\ UNCHANGED <<form, page>> /\ controlsOnly

\* Tag mode and status filter.
handleSwitch(o) ==
    /\ act /\ opts' = o /\ page' = 1
    /\ loadChannels(1, o)
    /\ UNCHANGED form /\ controlsOnly

handleTabChange(o) ==
    /\ act /\ opts' = o /\ page' = 1
    /\ loadChannels(1, o)
    /\ UNCHANGED form /\ controlsOnly

-----------------------------------------------------------------------------
(* Operations on channels *)

onRow    == ~rows.empty      \* the click is on a row of the list
selected == rows # NoRows    \* rows were ticked, in this list or an earlier one

\* A request is sent that a closure with the present values waits for.
Begin(op) ==
    /\ act
    /\ muts' = muts \cup {[op |-> op, env |-> env]}
    /\ UNCHANGED <<controls, list, searching, waiting, timers, stuck>>

manageChannel             == onRow /\ Begin("writeBack") /\ UNCHANGED <<loading, busy, dialog>>
manageTag                 == onRow /\ Begin("writeBack") /\ UNCHANGED <<loading, busy, dialog>>
updateChannelBalance      == onRow /\ Begin("writeBack") /\ UNCHANGED <<loading, busy, dialog>>
setChannelBalanceManually == onRow /\ Begin("writeBack") /\ UNCHANGED <<loading, busy, dialog>>
deleteFromRow             == onRow /\ Begin("rowDelete") /\ UNCHANGED <<loading, busy, dialog>>
copySelectedChannel       == onRow /\ Begin("reload") /\ UNCHANGED <<loading, busy, dialog>>
submitTagEdit             == onRow /\ Begin("reload") /\ UNCHANGED <<loading, busy, dialog>>
batchSetChannelTag        == selected /\ Begin("reload") /\ UNCHANGED <<loading, busy, dialog>>
deleteAllDisabledChannels == Begin("reload") /\ UNCHANGED <<loading, busy, dialog>>
fixChannelsAbilities      == Begin("reload") /\ UNCHANGED <<loading, busy, dialog>>

batchDeleteChannels ==
    /\ selected /\ Begin("batchDelete")
    /\ loading' = TRUE /\ UNCHANGED <<busy, dialog>>

openUpstreamUpdateModal ==
    /\ act /\ onRow /\ dialog' = TRUE
    /\ UNCHANGED <<controls, list, spinners, waiting, muts, timers, busy>>

closeUpstreamUpdateModal ==
    /\ act /\ dialog /\ dialog' = FALSE
    /\ UNCHANGED <<controls, list, spinners, waiting, muts, timers, busy>>

\* The ref refuses a second click until the first one has ended.
beginUpdate(op) ==
    /\ op \notin busy
    /\ busy' = busy \cup {op}
    /\ Begin(op) /\ UNCHANGED <<loading, dialog>>

applyUpstreamUpdates         == dialog /\ beginUpdate("apply")
applyAllUpstreamUpdates      == beginUpdate("applyAll")
detectChannelUpstreamUpdates == onRow /\ beginUpdate("detect")
detectAllUpstreamUpdates     == beginUpdate("detectAll")

settled(m) == muts' = muts \ {m}

\* setChannels([...channels]): the list of the closure is shown again.
WriteBack(m) ==
    /\ m.op = "writeBack" /\ settled(m)
    /\ rows' = m.env.rows
    /\ UNCHANGED <<controls, shown, spinners, waiting, timers, busy, dialog, acts>>

\* Deleting from the row menu writes back (when the server agreed) and refreshes.
RowDeleted(m, ok) ==
    /\ m.op = "rowDelete" /\ settled(m)
    /\ rows' = IF ok THEN m.env.rows ELSE rows
    /\ refresh(m.env.page, m.env, "timer")
    /\ UNCHANGED <<controls, shown, stuck, timers, busy, dialog, acts>>

\* The other operations refresh when the server agreed.  Applying an update
\* closes whatever update dialog is open by then.
Reload(m) ==
    /\ m.op \in {"reload", "batchDelete"} \cup UpdateOps /\ settled(m)
    /\ refresh(m.env.page, m.env, IF m.op = "reload" THEN "nothing" ELSE m.op)
    /\ dialog' = (dialog /\ m.op # "apply")
    /\ UNCHANGED <<controls, list, stuck, timers, busy, acts>>

\* success: false.  A batch delete clears its spinner, an update its ref.
Refused(m) ==
    /\ m.op # "rowDelete" /\ settled(m)
    /\ loading' = (loading /\ m.op # "batchDelete")
    /\ stuck' = (stuck /\ loading') /\ busy' = busy \ {m.op}
    /\ UNCHANGED <<controls, list, searching, waiting, timers, dialog, acts>>

\* The request is rejected: only the updates have a finally.
Rejected(m) ==
    /\ settled(m)
    /\ stuck' = (loading /\ (stuck \/ m.op = "batchDelete")) /\ busy' = busy \ {m.op}
    /\ UNCHANGED <<controls, list, loading, searching, waiting, timers, dialog, acts>>

\* 100 ms after a deletion the closure goes back a page if ITS list was empty;
\* 100 ms after a reset it refreshes its page.
TimerFires(t) ==
    /\ timers' = timers \ {t}
    /\ IF t.back
       THEN IF t.env.rows.empty /\ t.env.page > 1
            THEN refresh(t.env.page - 1, t.env, "nothing")
            ELSE UNCHANGED <<waiting, loading, searching>>
       ELSE refresh(t.env.page, t.env, "nothing")
    /\ UNCHANGED <<controls, list, stuck, muts, busy, dialog, acts>>

-----------------------------------------------------------------------------
UserStep ==
    \/ \E f \in Forms : fillForm(f)
    \/ submitForm
    \/ resetForm
    \/ refreshButton
    \/ \E p \in 1..MaxPage : handlePageChange(p)
    \/ \E o \in Options : handlePageSizeChange(o)
    \/ \E o \in Options : handleSort(o)
    \/ \E o \in Options : handleSwitch(o)
    \/ \E o \in Options : handleTabChange(o)
    \/ manageChannel
    \/ manageTag
    \/ updateChannelBalance
    \/ setChannelBalanceManually
    \/ deleteFromRow
    \/ copySelectedChannel
    \/ submitTagEdit
    \/ batchSetChannelTag
    \/ deleteAllDisabledChannels
    \/ fixChannelsAbilities
    \/ batchDeleteChannels
    \/ openUpstreamUpdateModal
    \/ closeUpstreamUpdateModal
    \/ applyUpstreamUpdates
    \/ applyAllUpstreamUpdates
    \/ detectChannelUpstreamUpdates
    \/ detectAllUpstreamUpdates

NetworkStep ==
    \/ \E c \in calls : ListArrives(c.q)
    \/ \E c \in calls : ListRefused(c.q)
    \/ \E c \in calls : ListRejected(c.q)
    \/ \E m \in muts : WriteBack(m)
    \/ \E m \in muts, ok \in BOOLEAN : RowDeleted(m, ok)
    \/ \E m \in muts : Reload(m)
    \/ \E m \in muts : Refused(m)
    \/ \E m \in muts : Rejected(m)
    \/ \E t \in timers : TimerFires(t)

TableDone ==
    /\ acts = MaxActions /\ calls = {} /\ muts = {} /\ timers = {}
    /\ UNCHANGED tableVars

TableNext ==
    \/ UserStep
    \/ NetworkStep
    \/ TableDone

TableSpec == TableInit /\ [][TableNext]_tableVars

-----------------------------------------------------------------------------
(* Properties *)

pending(op) == (\E m \in muts : m.op = op) \/ (\E c \in calls : c.outer = op)

\* The spinners of the table and the locks of the upstream updates are held by
\* something that is still to come: the table's "loading" by its newest load, by
\* a search made for a load or by a batch delete (only a rejected request may
\* leave it on), "searching" by a search, and an in-flight ref by its operation.
SpinnersAreHeld ==
    /\ loading => stuck \/ pending("batchDelete") \/ \E c \in calls : c.load /\ installs(c)
    /\ searching => \E c \in calls : c.srch
    /\ \A op \in busy : pending(op)

\* Answers to loads that come back out of order are not shown out of order:
\* requestCounter makes loadChannels drop every answer but the newest request's.
LoadsInOrder == [][shown' >= shown]_tableVars

=============================================================================
