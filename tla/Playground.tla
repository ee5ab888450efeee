----------------------------- MODULE Playground -----------------------------
(***************************************************************************)
(* The playground of the web console (web/src/pages/Playground/index.jsx   *)
(* and web/src/hooks/playground): one conversation per display mode, the   *)
(* requests, streams and pollers that write into it, and its copy in the   *)
(* browser's storage.                                                      *)
(*                                                                         *)
(* A user message and the reply to it are one element of a conversation,   *)
(* numbered by the request that created it.  Of the reply only the status, *)
(* the requests whose data it shows and its video task are kept.           *)
(*                                                                         *)
(* An event handler together with the render and the effects it causes,    *)
(* and the saves it schedules with a timeout of 0, is one action: nothing  *)
(* but another event can come between.  What waits longer is a step of its *)
(* own: the load of the stored conversations, the save 120 ms after a      *)
(* change, the repeated send 100 ms after "regenerate", and the network.   *)
(***************************************************************************)
EXTENDS Integers, Sequences, FiniteSets

CONSTANTS
    Modes,      \* display modes in use, a subset of AllModes
    MaxSends,   \* bound on the requests sent
    MaxActions  \* bound on the actions of the user, sending included

AllModes == {"text", "image", "video"}

ASSUME PlaygroundAssumption ==
    /\ Modes \subseteq AllModes /\ Modes # {}
    /\ MaxSends \in Nat /\ MaxActions \in Nat

Requests == 1..MaxSends
NoTask   == 0
Greeting == 0              \* the message of getDefaultMessages
Newest   == MaxSends + 1   \* target of a poller: whatever message is last

VARIABLES
    mode,      \* inputs.display_mode, which previousModeRef follows
    chat,      \* chat[m]: modeMessagesRef; chat[mode] is the state "message"
    disk,      \* the conversations stored in IndexedDB
    load,      \* the stored conversations on their way to the page (none or one)
    dirty,     \* the timer of the fallback save is running
    sent,      \* number of requests sent
    req,       \* req[r]: "stream" or "fetch" under way, or "none"
    reqMode,   \* the mode a request was sent in
    source,    \* sseSourceRef.current: a request, or 0
    pollers,   \* task pollers, [task, msg]: the message each one patches
    active,    \* activeVideoPollTaskIdsRef
    resend,    \* conversations (as of the click) "regenerate" will send again
    broken,    \* a handler read a field of undefined: the page is gone
    ops        \* other actions of the user so far

network == <<sent, req, reqMode, source>>
polling == <<pollers, active>>
vars == <<mode, chat, disk, load, dirty, network, polling, resend, broken, ops>>

Generating == {"loading", "incomplete"}

\* "complete" and "error" are one status, "final": no handler tells them apart.
Message == [id: 0..MaxSends, status: Generating \cup {"final"}, shows: SUBSET Requests,
            task: 0..MaxSends, live: BOOLEAN]

greeting == <<[id |-> Greeting, status |-> "final", shows |-> {},
               task |-> NoTask, live |-> FALSE]>>

Init ==
    /\ mode \in Modes
    /\ chat = [m \in Modes |-> greeting] /\ disk = chat
    /\ load = {} /\ dirty = FALSE
    /\ sent = 0 /\ source = 0
    /\ req = [r \in Requests |-> "none"] /\ reqMode = [r \in Requests |-> mode]
    /\ pollers = {} /\ active = {} /\ resend = {}
    /\ broken = FALSE /\ ops = 0

-----------------------------------------------------------------------------
(* Conversations *)

last(list) == list[Len(list)]
ongoing(list) == list # <<>> /\ last(list).status \in Generating

\* The list with its last message replaced.
withLast(list, msg) == [list EXCEPT ![Len(list)] = msg]

\* Mutant: only the last message is looked at.
unpolledLast(list, act) ==
    {t \in Requests : list # <<>> /\ last(list).task = t /\ last(list).live} \ act

\* The effect on "message" that resumes polling: for every unfinished video task
\* shown that nobody polls yet, by the id of the first message that shows it.
unpolled(list, act) ==
    {t \in Requests : \E i \in DOMAIN list : list[i].task = t /\ list[i].live} \ act
firstOf(list, t) ==
    list[CHOOSE i \in DOMAIN list :
            /\ list[i].task = t /\ list[i].live
            /\ \A j \in 1..(i-1) : ~(list[j].task = t /\ list[j].live)].id
resumePolling(list, pol, act) ==
    /\ active' = act \cup unpolled(list, act)
    /\ pollers' = pol \cup {[task |-> t, msg |-> firstOf(list, t)] : t \in unpolled(list, act)}

\* setMessage: a new value of "message"; the effects copy it to modeMessagesRef,
\* resume polling and restart the timer of the fallback save.
showing(chats, m, pol, act) ==
    /\ chat' = chats
    /\ dirty' = TRUE
    /\ resumePolling(chats[m], pol, act)

\* Mutant: a conversation in the background is changed but not stored.
setMessageForModeUnsaved(m, list, pol, act) ==
    /\ IF m = mode THEN showing([chat EXCEPT ![m] = list], m, pol, act)
       ELSE /\ chat' = [chat EXCEPT ![m] = list]
            /\ pollers' = pol /\ active' = act
            /\ UNCHANGED dirty
    /\ UNCHANGED disk

\* setMessageForMode: the conversation on display, or another one, which is
\* stored at once.
setMessageForMode(m, list, pol, act) ==
    IF m = mode
    THEN showing([chat EXCEPT ![m] = list], m, pol, act) /\ UNCHANGED disk
    ELSE /\ chat' = [chat EXCEPT ![m] = list]
         /\ disk' = chat'
         /\ pollers' = pol /\ active' = act
         /\ UNCHANGED dirty

\* setMessageForMode followed by saveMessagesForMode.
setAndSave(m, list, pol, act) ==
    /\ IF m = mode THEN showing([chat EXCEPT ![m] = list], m, pol, act)
       ELSE /\ chat' = [chat EXCEPT ![m] = list]
            /\ pollers' = pol /\ active' = act
            /\ UNCHANGED dirty
    /\ disk' = chat'

-----------------------------------------------------------------------------
(* Requests *)

\* createLoadingAssistantMessage.
newReply(r) == [id |-> r, status |-> "loading", shows |-> {}, task |-> NoTask,
                live |-> FALSE]

\* onMessageSend with the conversation and the mode of the render it belongs to:
\* the conversation on display is replaced, and the one of that mode is stored.
\* The request starts in the same turn; an open stream is forgotten, not closed.
send(list, m) ==
    /\ sent < MaxSends /\ sent + ops < MaxActions /\ sent' = sent + 1
    /\ \E kind \in (IF m = "text" THEN {"stream", "fetch"} ELSE {"fetch"}) :
          /\ req' = [req EXCEPT ![sent'] = kind]
          /\ source' = IF kind = "stream" THEN sent' ELSE source
    /\ reqMode' = [reqMode EXCEPT ![sent'] = m]
    /\ LET l == Append(list, newReply(sent'))
       IN  showing([chat EXCEPT ![mode] = l, ![m] = l], mode, pollers, active)
    /\ disk' = chat'

\* The chat's send button, disabled while the last message is generated.
Send ==
    /\ ~broken /\ ~ongoing(chat[mode])
    /\ send(chat[mode], mode)
    /\ UNCHANGED <<mode, load, resend, broken, ops>>

\* Mutant: streamMessageUpdate without the test of the status.
streamedAnyway(list, r) ==
    IF list = <<>> THEN list
    ELSE withLast(list, [last(list) EXCEPT !.status = "incomplete",
                                           !.shows = @ \cup {r}])

\* streamMessageUpdate: only a message that is being generated takes a chunk.
streamed(list, r) ==
    IF ongoing(list)
    THEN withLast(list, [last(list) EXCEPT !.status = "incomplete",
                                           !.shows = @ \cup {r}])
    ELSE list

\* completeMessage; it expects the list not to be empty.
completed(list) ==
    IF ongoing(list) THEN withLast(list, [last(list) EXCEPT !.status = "final"])
    ELSE list

\* Data of an open stream.
Chunk(r) ==
    /\ ~broken /\ req[r] = "stream"
    /\ setMessageForMode(reqMode[r], streamed(chat[reqMode[r]], r), pollers, active)
    /\ UNCHANGED <<mode, load, network, resend, broken, ops>>

\* A stream ends its message, after an error with some text of its own before
\* that.  An empty conversation makes the handler throw; in the update of the
\* conversation on display, that breaks the page.
finish(r, err) ==
    LET m == reqMode[r]
        l == IF err THEN streamed(chat[m], r) ELSE chat[m]
    IN  IF l = <<>>
        THEN broken' = (m = mode) /\ UNCHANGED <<chat, disk, dirty, polling>>
        ELSE UNCHANGED broken /\ setAndSave(m, completed(l), pollers, active)

\* "[DONE]", and the error event: sseSourceRef is cleared whatever it refers to.
StreamEnds(r) ==
    /\ ~broken /\ req[r] = "stream"
    /\ req' = [req EXCEPT ![r] = "none"] /\ source' = 0
    /\ \E err \in BOOLEAN : finish(r, err)
    /\ UNCHANGED <<mode, load, sent, reqMode, resend, ops>>

\* An HTTP status other than 200: the stream is closed, the reference stays.
StreamRefused(r) ==
    /\ ~broken /\ req[r] = "stream"
    /\ req' = [req EXCEPT ![r] = "none"]
    /\ finish(r, TRUE)
    /\ UNCHANGED <<mode, load, sent, reqMode, source, resend, ops>>

\* Data that is not JSON: the message fails, the stream stays open.
ChunkUnreadable(r) ==
    /\ ~broken /\ req[r] = "stream"
    /\ finish(r, TRUE)
    /\ UNCHANGED <<mode, load, network, resend, ops>>

\* The server closes the connection without "[DONE]": no handler reacts.
StreamCut(r) ==
    /\ ~broken /\ req[r] = "stream"
    /\ req' = [req EXCEPT ![r] = "none"]
    /\ UNCHANGED <<mode, chat, disk, load, dirty, sent, reqMode, source, polling,
                   resend, broken, ops>>

\* handleNonStreamRequest after its await: the last message if it is loading.
answered(list, r, task) ==
    IF list # <<>> /\ last(list).status = "loading"
    THEN withLast(list, [last(list) EXCEPT !.status = "final", !.shows = @ \cup {r},
                                           !.task = task, !.live = (task # NoTask)])
    ELSE list

\* An answer in text, a summary of what else came back, or an error.
Reply(r) ==
    /\ ~broken /\ req[r] = "fetch"
    /\ req' = [req EXCEPT ![r] = "none"]
    /\ setMessageForMode(reqMode[r], answered(chat[reqMode[r]], r, NoTask), pollers, active)
    /\ UNCHANGED <<mode, load, sent, reqMode, source, resend, broken, ops>>

\* An accepted image or video task: a poller follows it, whether or not a message
\* took the answer.
TaskAccepted(r) ==
    LET m == reqMode[r]
    IN  /\ ~broken /\ req[r] = "fetch" /\ m # "text"
        /\ req' = [req EXCEPT ![r] = "none"]
        /\ setMessageForMode(m, answered(chat[m], r, IF m = "video" THEN r ELSE NoTask),
                             pollers \cup {[task |-> r, msg |-> Newest]}, active)
        /\ UNCHANGED <<mode, load, sent, reqMode, source, resend, broken, ops>>

-----------------------------------------------------------------------------
(* Task pollers *)

\* A patch of poller p to a message: content, video task, and at the end the status.
patched(msg, p, live) ==
    [msg EXCEPT !.shows = @ \cup {p.task},
                !.status = IF live THEN @ ELSE "final",
                !.task = IF reqMode[p.task] = "video" THEN p.task ELSE @,
                !.live = IF reqMode[p.task] = "video" THEN live ELSE @]

\* The pollers started with the request patch the last message, whichever it is;
\* the resumed ones patch a message by its id.
patch(list, p, live) ==
    IF p.msg = Newest
    THEN IF list = <<>> THEN list
         ELSE withLast(list, patched(last(list), p, live))
    ELSE [i \in DOMAIN list |->
            IF list[i].id = p.msg THEN patched(list[i], p, live) ELSE list[i]]

\* A poll that finds the task unfinished, or fails for the first two times.
PollTick(p) ==
    LET m == reqMode[p.task]
    IN  /\ ~broken /\ p \in pollers
        /\ LET l == patch(chat[m], p, TRUE)
           IN  IF p.msg = Newest THEN setMessageForMode(m, l, pollers, active)
               ELSE setAndSave(m, l, pollers, active)
        /\ UNCHANGED <<mode, load, network, resend, broken, ops>>

\* Mutant: a poller that ends stays in the set of active ones.
PollEndsActive(p) ==
    LET m == reqMode[p.task]
    IN  /\ ~broken /\ p \in pollers
        /\ setMessageForMode(m, patch(chat[m], p, FALSE), pollers \ {p}, active)
        /\ UNCHANGED <<mode, load, network, resend, broken, ops>>

\* The last poll: success, failure, an error or the end of the attempts.  A
\* resumed poller leaves the set of active ones.
PollEnds(p) ==
    LET m == reqMode[p.task]
        act == IF p.msg = Newest THEN active ELSE active \ {p.task}
    IN  /\ ~broken /\ p \in pollers
        /\ LET l == patch(chat[m], p, FALSE)
           IN  IF p.msg = Newest THEN setMessageForMode(m, l, pollers \ {p}, act)
               ELSE setAndSave(m, l, pollers \ {p}, act)
        /\ UNCHANGED <<mode, load, network, resend, broken, ops>>

\* An image poller gives up, on an HTTP error or after its last attempt, without
\* a word.
PollGivesUp(p) ==
    /\ ~broken /\ p \in pollers /\ reqMode[p.task] = "image"
    /\ pollers' = pollers \ {p}
    /\ UNCHANGED <<mode, chat, disk, load, dirty, network, active, resend, broken, ops>>

-----------------------------------------------------------------------------
(* The user *)

op == ~broken /\ sent + ops < MaxActions /\ ops' = ops + 1

\* onStopGenerator (shown while the last message is generated): only the stream
\* sseSourceRef refers to is closed, no other request is aborted.
Stop ==
    /\ op /\ ongoing(chat[mode])
    /\ source' = 0
    /\ req' = [r \in Requests |-> IF r = source THEN "none" ELSE req[r]]
    /\ setAndSave(mode, completed(chat[mode]), pollers, active)
    /\ UNCHANGED <<mode, load, sent, reqMode, resend, broken>>

\* handleClearMessages: neither streams nor pollers are stopped.
Clear ==
    /\ op
    /\ setAndSave(mode, <<>>, pollers, active)
    /\ UNCHANGED <<mode, load, network, resend, broken>>

\* The actions at a message are disabled while any message is generated.
idle == \A i \in DOMAIN chat[mode] : chat[mode][i].status \notin Generating

\* handleMessageDelete of a user message: the message and its reply.
Delete(i) ==
    /\ op /\ idle
    /\ setAndSave(mode, [j \in 1..(Len(chat[mode]) - 1) |->
                            chat[mode][IF j < i THEN j ELSE j + 1]], pollers, active)
    /\ UNCHANGED <<mode, load, network, resend, broken>>

\* handleMessageReset: the conversation is cut off before the message, and
\* 100 ms later onMessageSend runs with the conversation of before the click.
Reset(i) ==
    /\ op /\ idle
    /\ showing([chat EXCEPT ![mode] = SubSeq(@, 1, i - 1)], mode, pollers, active)
    /\ resend' = resend \cup {[list |-> chat[mode], mode |-> mode]}
    /\ UNCHANGED <<mode, disk, load, network, broken>>

Resend(s) ==
    /\ ~broken /\ s \in resend
    /\ resend' = resend \ {s}
    /\ send(s.list, s.mode)
    /\ UNCHANGED <<mode, load, broken, ops>>

\* handleInputChange("display_mode"): the other conversation is shown, and the
\* stored ones are loaded again (a load under way is cancelled).
SwitchMode(m) ==
    /\ op /\ m # mode
    /\ mode' = m
    /\ load' = {disk}
    /\ showing(chat, m, pollers, active)
    /\ UNCHANGED <<disk, network, resend, broken>>

\* Conversations stored empty come back as the greeting.
restored(chats) == [m \in Modes |-> IF chats[m] = <<>> THEN greeting ELSE chats[m]]

\* restoreModeMessages after its await: memory is replaced by what was loaded.
Restore ==
    /\ ~broken
    /\ \E chats \in load : showing(restored(chats), mode, pollers, active)
    /\ load' = {}
    /\ UNCHANGED <<mode, disk, network, resend, broken, ops>>

\* The fallback save, 120 ms after the last change of "message".
Persist ==
    /\ ~broken /\ dirty
    /\ dirty' = FALSE
    /\ disk' = chat
    /\ UNCHANGED <<mode, chat, load, network, polling, resend, broken, ops>>

\* The page is loaded again: only what is stored survives.  The mode comes from
\* the configuration saved up to a second late.
Reload ==
    /\ sent + ops < MaxActions /\ ops' = ops + 1
    /\ broken' = FALSE
    /\ \E m \in Modes :
          /\ mode' = m
          /\ chat' = [n \in Modes |-> IF n = m THEN greeting ELSE <<>>]
    /\ load' = {disk} /\ dirty' = TRUE
    /\ req' = [r \in Requests |-> "none"] /\ source' = 0
    /\ pollers' = {} /\ active' = {} /\ resend' = {}
    /\ UNCHANGED <<disk, sent, reqMode>>

-----------------------------------------------------------------------------

User == \/ Send \/ Stop \/ Clear \/ Reload \/ \E m \in Modes : SwitchMode(m)
        \/ \E i \in DOMAIN chat[mode] : Delete(i) \/ Reset(i)

Network == \E r \in Requests :
              \/ Chunk(r) \/ StreamEnds(r) \/ StreamRefused(r)
              \/ ChunkUnreadable(r) \/ StreamCut(r)
              \/ Reply(r) \/ TaskAccepted(r)

Timers == \/ Restore \/ Persist \/ \E s \in resend : Resend(s)
          \/ \E p \in pollers : PollTick(p) \/ PollEnds(p) \/ PollGivesUp(p)

Next == User \/ Network \/ Timers

\* Loads and timers happen, pollers stop after 120 attempts; nobody has to click
\* and no server has to answer.
Fairness ==
    /\ WF_vars(Restore) /\ WF_vars(Persist) /\ WF_vars(\E s \in resend : Resend(s))
    /\ WF_vars(\E p \in pollers : p.msg = Newest /\ PollEnds(p))
    /\ WF_vars(\E p \in pollers : p.msg # Newest /\ PollEnds(p))

Spec == Init /\ [][Next]_vars /\ Fairness

-----------------------------------------------------------------------------
(* Properties *)

TypeOK ==
    /\ mode \in Modes
    /\ \A m \in Modes : \A i \in DOMAIN chat[m] : chat[m][i] \in Message
    /\ \A m \in Modes : \A i \in DOMAIN disk[m] : disk[m][i] \in Message
    /\ Cardinality(load) <= 1 /\ dirty \in BOOLEAN
    /\ sent \in 0..MaxSends /\ source \in 0..sent
    /\ req \in [Requests -> {"none", "stream", "fetch"}]
    /\ reqMode \in [Requests -> Modes]
    /\ pollers \subseteq [task: Requests, msg: 0..(MaxSends + 1)]
    /\ active \subseteq Requests
    /\ broken \in BOOLEAN /\ ops \in 0..MaxActions

\* The set of active polls is exact: every task in it has one resumed poller, and
\* no task is polled twice by the effect, however messages are restored, deleted
\* or taken over by another task's poller.  A task left in it by mistake would
\* never be resumed again, one missing would be polled once per render.
ActivePollsAreExact ==
    LET resumed == {p \in pollers : p.msg # Newest}
    IN  /\ active = {p.task : p \in resumed}
        /\ Cardinality(resumed) = Cardinality(active)

\* A message that is complete or failed is not written again by streams, replies,
\* pollers or the stop button, although most of them address whichever message
\* is last, and deleting or switching the mode puts no other in its place.  Only
\* three steps replace a whole conversation: the page is loaded again, the stored
\* conversations arrive, and the send repeated 100 ms after "regenerate", which
\* installs the conversation of the click in whatever mode is then on display.
FinalTextStays ==
    [][\/ Restore \/ Reload \/ \E s \in resend : Resend(s)
       \/ "text" \in Modes =>
            \A i \in DOMAIN chat["text"] \cap DOMAIN chat'["text"] :
                /\ chat["text"][i].id = chat'["text"][i].id
                /\ chat["text"][i].status = "final"
                => chat'["text"][i] = chat["text"][i]]_vars

ShownLive(r) ==
    /\ mode = "video"
    /\ \E i \in DOMAIN chat[mode] : chat[mode][i].task = r /\ chat[mode][i].live

\* A video task on display never stays unfinished: its poller ends, and a message
\* that a restore has set back, or that got the task from another message's
\* poller, is polled again.
VideoTaskSettles ==
    \A r \in Requests : ShownLive(r) ~> (~ShownLive(r) \/ broken)

\* "Fallback: every change of a message is stored": the stored conversations
\* catch up with the page, those in the background included.
StorageCatchesUp == []<>(disk = chat \/ broken)

\* A message shows data of its own request only.
OwnReplyOnly ==
    \A m \in Modes : \A i \in DOMAIN chat[m] : chat[m][i].shows \subseteq {chat[m][i].id}

\* "A restored session whose tail is still being generated would spin for ever
\* after a refresh; it is closed when read": a conversation is restored with a
\* generated tail only while a request of its mode is under way.
RestoredIsSettled ==
    [][load # {} /\ load' = {} =>
        \A m \in Modes : ongoing(chat'[m]) =>
            \E r \in Requests : req[r] # "none" /\ reqMode[r] = m]_vars
=============================================================================
