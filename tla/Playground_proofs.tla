-------------------------- MODULE Playground_proofs --------------------------
(***************************************************************************)
(* For any number of requests and actions, in any of the modes: the set of *)
(* active polls is exact, and a finished text is written again by no       *)
(* stream, reply, poller or button.                                        *)
(***************************************************************************)
EXTENDS Playground, TLAPS, SequenceTheorems, FiniteSetTheorems, WellFoundedInduction

-----------------------------------------------------------------------------
(* Conversations *)

\* The ids of a conversation are those of its greeting and of requests sent, each
\* once; a video task it shows is one of a request sent in the video mode.
Good(l) ==
    /\ l \in Seq(Message)
    /\ \A i \in 1..Len(l) :
        /\ l[i].id <= sent
        /\ l[i].task # NoTask => l[i].task <= sent /\ reqMode[l[i].task] = "video"
    /\ \A i, j \in 1..Len(l) : l[i].id = l[j].id => i = j

\* Two conversations of the same messages: the same ids, and no new task but
\* those of video requests.
Same(l, k) ==
    /\ k \in Seq(Message) /\ Len(k) = Len(l)
    /\ \A i \in 1..Len(l) :
        /\ k[i].id = l[i].id
        /\ \/ k[i].task \in {l[i].task, NoTask}
           \/ k[i].task <= sent /\ reqMode[k[i].task] = "video"

\* What was final stays as it was, where the ids agree.
Keeps(l, k) ==
    \A i \in DOMAIN l \cap DOMAIN k :
        l[i].id = k[i].id /\ l[i].status = "final" => k[i] = l[i]

LEMMA SameGood ==
    ASSUME NEW l, NEW k, Good(l), Same(l, k)
    PROVE  Good(k)
BY DEF Good, Same, NoTask

LEMMA KeepsSelf ==
    ASSUME NEW l PROVE Keeps(l, l)
BY DEF Keeps

\* The last message is replaced by one with its id.
LEMMA LastReplaced ==
    ASSUME NEW l \in Seq(Message), l # <<>>, NEW msg \in Message, msg.id = last(l).id,
           \/ msg.task \in {last(l).task, NoTask}
           \/ msg.task <= sent /\ reqMode[msg.task] = "video"
    PROVE  /\ Same(l, withLast(l, msg))
           /\ last(l).status # "final" => Keeps(l, withLast(l, msg))
<1>1. Len(l) \in 1..Len(l) /\ Len(l) \in Nat /\ DOMAIN l = 1..Len(l)
  BY EmptySeq
<1> DEFINE k == withLast(l, msg)
<1>2. k \in Seq(Message) /\ Len(k) = Len(l) /\ DOMAIN k = DOMAIN l
  BY <1>1 DEF withLast
<1>3. \A i \in 1..Len(l) : k[i] = IF i = Len(l) THEN msg ELSE l[i]
  BY <1>1 DEF withLast
<1> HIDE DEF k
<1>4. Same(l, k)
  BY <1>1, <1>2, <1>3 DEF Same, last
<1>5. last(l).status # "final" => Keeps(l, k)
  BY <1>1, <1>2, <1>3 DEF Keeps, last
<1> QED BY <1>4, <1>5 DEF k

LEMMA LastIsMessage ==
    ASSUME NEW l \in Seq(Message), l # <<>>
    PROVE  last(l) \in Message
BY EmptySeq DEF last

\* A chunk, the end of a message and an answer change the last message, if it is
\* being generated.
LEMMA StreamedSame ==
    ASSUME NEW l \in Seq(Message), NEW r \in Requests
    PROVE  Same(l, streamed(l, r)) /\ Keeps(l, streamed(l, r))
<1>1. CASE ongoing(l)
  <2> DEFINE msg == [last(l) EXCEPT !.status = "incomplete", !.shows = @ \cup {r}]
  <2>1. last(l) \in Message /\ l # <<>> /\ last(l).status # "final"
    BY <1>1, LastIsMessage DEF ongoing, Generating
  <2>2. msg \in Message /\ msg.id = last(l).id /\ msg.task = last(l).task
    BY <2>1 DEF Message, Generating
  <2>3. streamed(l, r) = withLast(l, msg)
    BY <1>1 DEF streamed
  <2> HIDE DEF msg
  <2> QED BY <2>1, <2>2, <2>3, LastReplaced
<1>2. CASE ~ongoing(l)
  BY <1>2, KeepsSelf DEF streamed, Same
<1> QED BY <1>1, <1>2

LEMMA CompletedSame ==
    ASSUME NEW l \in Seq(Message)
    PROVE  Same(l, completed(l)) /\ Keeps(l, completed(l))
<1>1. CASE ongoing(l)
  <2> DEFINE msg == [last(l) EXCEPT !.status = "final"]
  <2>1. last(l) \in Message /\ l # <<>> /\ last(l).status # "final"
    BY <1>1, LastIsMessage DEF ongoing, Generating
  <2>2. msg \in Message /\ msg.id = last(l).id /\ msg.task = last(l).task
    BY <2>1 DEF Message
  <2>3. completed(l) = withLast(l, msg)
    BY <1>1 DEF completed
  <2> HIDE DEF msg
  <2> QED BY <2>1, <2>2, <2>3, LastReplaced
<1>2. CASE ~ongoing(l)
  BY <1>2, KeepsSelf DEF completed, Same
<1> QED BY <1>1, <1>2

LEMMA AnsweredSame ==
    ASSUME NEW l \in Seq(Message), NEW r \in Requests, NEW t \in 0..MaxSends,
           t # NoTask => t <= sent /\ reqMode[t] = "video"
    PROVE  Same(l, answered(l, r, t)) /\ Keeps(l, answered(l, r, t))
<1>1. CASE l # <<>> /\ last(l).status = "loading"
  <2> DEFINE msg == [last(l) EXCEPT !.status = "final", !.shows = @ \cup {r},
                                    !.task = t, !.live = (t # NoTask)]
  <2>1. last(l) \in Message
    BY <1>1, LastIsMessage
  <2>2. msg \in Message /\ msg.id = last(l).id /\ msg.task = t
    BY <2>1 DEF Message
  <2>3. answered(l, r, t) = withLast(l, msg)
    BY <1>1 DEF answered
  <2> HIDE DEF msg
  <2> QED BY <1>1, <2>2, <2>3, LastReplaced
<1>2. CASE ~(l # <<>> /\ last(l).status = "loading")
  BY <1>2, KeepsSelf DEF answered, Same
<1> QED BY <1>1, <1>2


\* A patch of a poller changes no id, and brings only its own task.
LEMMA PatchedMessage ==
    ASSUME NEW msg \in Message, NEW p, p.task \in Requests, p.task <= sent, NEW live \in BOOLEAN
    PROVE  /\ patched(msg, p, live) \in Message
           /\ patched(msg, p, live).id = msg.id
           /\ \/ patched(msg, p, live).task = msg.task
              \/ /\ patched(msg, p, live).task <= sent
                 /\ reqMode[patched(msg, p, live).task] = "video"
<1>1. p.task \in 0..MaxSends
  BY PlaygroundAssumption DEF Requests
<1>2. CASE reqMode[p.task] = "video"
  BY <1>1, <1>2 DEF patched, Message, Generating
<1>3. CASE reqMode[p.task] # "video"
  BY <1>1, <1>3 DEF patched, Message, Generating
<1> QED BY <1>2, <1>3

LEMMA PatchSame ==
    ASSUME NEW l \in Seq(Message), NEW p, p.task \in Requests, p.task <= sent, NEW live \in BOOLEAN
    PROVE  Same(l, patch(l, p, live))
<1>1. CASE p.msg = Newest /\ l = <<>>
  BY <1>1 DEF patch, Same
<1>2. CASE p.msg = Newest /\ l # <<>>
  <2> DEFINE msg == patched(last(l), p, live)
  <2>1. last(l) \in Message
    BY <1>2, LastIsMessage
  <2>2. /\ msg \in Message /\ msg.id = last(l).id
        /\ msg.task = last(l).task \/ (msg.task <= sent /\ reqMode[msg.task] = "video")
    BY <2>1, PatchedMessage
  <2>3. patch(l, p, live) = withLast(l, msg)
    BY <1>2 DEF patch
  <2> HIDE DEF msg
  <2> QED BY <1>2, <2>2, <2>3, LastReplaced
<1>3. CASE p.msg # Newest
  <2> DEFINE k == patch(l, p, live)
  <2>1. k = [i \in 1..Len(l) |-> IF l[i].id = p.msg THEN patched(l[i], p, live) ELSE l[i]]
    BY <1>3 DEF patch
  <2>2. \A i \in 1..Len(l) : l[i] \in Message
    OBVIOUS
  <2>3. \A i \in 1..Len(l) : k[i] = IF l[i].id = p.msg THEN patched(l[i], p, live) ELSE l[i]
    BY <2>1
  <2>4. \A i \in 1..Len(l) :
          /\ k[i] \in Message /\ k[i].id = l[i].id
          /\ k[i].task = l[i].task \/ (k[i].task <= sent /\ reqMode[k[i].task] = "video")
    BY <2>2, <2>3, PatchedMessage
  <2>5. Len(l) \in Nat /\ k \in [1..Len(l) -> Message]
    BY <2>1, <2>4
  <2> HIDE DEF k
  <2>6. k \in Seq(Message)
    BY <2>5, SeqDef
  <2>7. Len(k) = Len(l)
    BY <2>5, <2>6
  <2>8. Same(l, k)
    BY <2>4, <2>6, <2>7 DEF Same
  <2> QED BY <2>8 DEF k
<1> QED BY <1>1, <1>2, <1>3

\* A prefix of a conversation, and a conversation without one message.
LEMMA PrefixGood ==
    ASSUME NEW l, Good(l), NEW i \in 1..Len(l)
    PROVE  Good(SubSeq(l, 1, i - 1)) /\ Keeps(l, SubSeq(l, 1, i - 1))
<1> DEFINE k == SubSeq(l, 1, i - 1)
<1>1. l \in Seq(Message) /\ Len(l) \in Nat
  BY DEF Good
<1>2. k \in Seq(Message) /\ Len(k) = i - 1 /\ \A j \in 1..(i - 1) : k[j] = l[j]
  BY <1>1, SubSeqProperties
<1> HIDE DEF k
<1>3. \A j \in 1..Len(k) : j \in 1..Len(l) /\ k[j] = l[j]
  BY <1>1, <1>2
<1>4. Good(k)
  BY <1>2, <1>3 DEF Good
<1>5. DOMAIN k = 1..Len(k)
  BY <1>2
<1>6. Keeps(l, k)
  BY <1>3, <1>5 DEF Keeps
<1> QED BY <1>4, <1>6 DEF k

Without(l, i) == [j \in 1..(Len(l) - 1) |-> l[IF j < i THEN j ELSE j + 1]]

LEMMA WithoutGood ==
    ASSUME NEW l, Good(l), NEW i \in 1..Len(l)
    PROVE  Good(Without(l, i)) /\ Keeps(l, Without(l, i))
<1> DEFINE k == Without(l, i)
           at(j) == IF j < i THEN j ELSE j + 1
<1>1. l \in Seq(Message) /\ Len(l) \in Nat /\ Len(l) - 1 \in Nat /\ DOMAIN l = 1..Len(l)
  BY DEF Good
<1>2. \A j \in 1..(Len(l) - 1) : at(j) \in 1..Len(l) /\ k[j] = l[at(j)]
  BY <1>1 DEF Without
<1>3. \A j, h \in 1..(Len(l) - 1) : at(j) = at(h) => j = h
  BY <1>1
<1>4. k \in [1..(Len(l) - 1) -> Message]
  <2>1. \A j \in 1..Len(l) : l[j] \in Message
    BY <1>1
  <2> QED BY <1>2, <2>1 DEF Without
<1>5. \A j \in 1..(Len(l) - 1) : j \in 1..Len(l) /\ (at(j) = j \/ at(j) # j)
  BY <1>1
<1> HIDE DEF k, at
<1>6. k \in Seq(Message) /\ Len(k) = Len(l) - 1 /\ DOMAIN k = 1..(Len(l) - 1)
  <2>1. k \in Seq(Message)
    BY <1>1, <1>4, SeqDef
  <2>2. DOMAIN k = 1..(Len(l) - 1)
    BY <1>4
  <2>3. Len(k) \in Nat /\ DOMAIN k = 1..Len(k)
    BY <2>1
  <2>4. ASSUME NEW a \in Nat, NEW b \in Nat, 1..a = 1..b PROVE a = b
    <3>1. a \in 0..0 \/ a \in 1..a
      OBVIOUS
    <3>2. b \in 0..0 \/ b \in 1..b
      OBVIOUS
    <3>3. \A h \in 1..a : h <= b /\ h >= 1
      BY <2>4
    <3>4. \A h \in 1..b : h <= a /\ h >= 1
      BY <2>4
    <3> QED BY <3>1, <3>2, <3>3, <3>4
  <2>5. Len(k) = Len(l) - 1
    BY <1>1, <2>2, <2>3, <2>4
  <2> QED BY <2>1, <2>2, <2>5
<1>7. Good(k)
  BY <1>1, <1>2, <1>3, <1>6 DEF Good
<1>8. Keeps(l, k)
  <2> SUFFICES ASSUME NEW j \in 1..(Len(l) - 1), l[j].id = k[j].id PROVE k[j] = l[j]
    BY <1>6 DEF Keeps
  <2>1. at(j) = j
    BY <1>1, <1>2, <1>5 DEF Good
  <2> QED BY <1>2, <2>1
<1> QED BY <1>7, <1>8 DEF k

\* What is good stays so when more requests are sent.
Grows == sent <= sent' /\ \A r \in 1..sent : reqMode'[r] = reqMode[r]

LEMMA GoodStays ==
    ASSUME NEW l, Good(l), Grows, sent \in Nat, sent' \in Nat, MaxSends \in Nat
    PROVE  Good(l)'
<1>1. \A i \in 1..Len(l) : l[i].id \in Nat /\ l[i].task \in Nat
  <2>1. \A i \in 1..Len(l) : l[i] \in Message
    BY DEF Good
  <2> QED BY <2>1 DEF Message
<1>2. ASSUME NEW i \in 1..Len(l) PROVE l[i].id <= sent'
  BY <1>1 DEF Good, Grows
<1>3. ASSUME NEW i \in 1..Len(l), l[i].task # NoTask
      PROVE  l[i].task <= sent' /\ reqMode'[l[i].task] = "video"
  <2>1. l[i].task \in 1..sent /\ reqMode[l[i].task] = "video"
    BY <1>1, <1>3 DEF Good, NoTask
  <2> QED BY <2>1 DEF Grows
<1> QED BY <1>2, <1>3 DEF Good

\* A new reply is added.
LEMMA AppendGood ==
    ASSUME NEW l, Good(l), sent \in Nat, sent < MaxSends, sent' = sent + 1, Grows, MaxSends \in Nat,
           NEW msg, msg = newReply(sent'), NEW k, k = Append(l, msg)
    PROVE  Good(k)' /\ Keeps(l, k)
<1>1. msg \in Message /\ msg.id = sent + 1 /\ msg.task = NoTask
  BY DEF newReply, Message, Generating, NoTask
<1>2. l \in Seq(Message) /\ Len(l) \in Nat /\ Good(l)'
  BY GoodStays DEF Good
<1>3. /\ k \in Seq(Message) /\ Len(k) = Len(l) + 1 /\ DOMAIN k = 1..(Len(l) + 1)
      /\ DOMAIN l = 1..Len(l)
      /\ \A i \in 1..(Len(l) + 1) : k[i] = IF i = Len(l) + 1 THEN msg ELSE l[i]
  BY <1>1, <1>2, AppendProperties
<1>4. \A i \in 1..Len(l) : l[i].id <= sent /\ l[i].id \in Nat
  <2>1. \A i \in 1..Len(l) : l[i] \in Message
    BY <1>2
  <2> QED BY <2>1 DEF Good, Message
<1>5. \A i \in 1..Len(k) : k[i].id <= sent'
  BY <1>1, <1>2, <1>3, <1>4
<1>6. \A i \in 1..Len(k) : k[i].task # NoTask => k[i].task <= sent' /\ reqMode'[k[i].task] = "video"
  BY <1>1, <1>2, <1>3 DEF Good
<1>7. \A i, j \in 1..Len(k) : k[i].id = k[j].id => i = j
  <2> SUFFICES ASSUME NEW i \in 1..Len(k), NEW j \in 1..Len(k), k[i].id = k[j].id PROVE i = j
    OBVIOUS
  <2>1. CASE i \in 1..Len(l) /\ j \in 1..Len(l)
    BY <1>2, <1>3, <2>1 DEF Good
  <2>2. CASE i \notin 1..Len(l) /\ j \in 1..Len(l)
    <3>1. k[i].id = sent + 1 /\ k[j] = l[j]
      BY <1>1, <1>2, <1>3, <2>2
    <3>2. k[j].id <= sent /\ k[j].id \in Nat
      BY <1>4, <2>2, <3>1
    <3> QED BY <3>1, <3>2
  <2>3. CASE i \in 1..Len(l) /\ j \notin 1..Len(l)
    <3>1. k[j].id = sent + 1 /\ k[i] = l[i]
      BY <1>1, <1>2, <1>3, <2>3
    <3>2. k[i].id <= sent /\ k[i].id \in Nat
      BY <1>4, <2>3, <3>1
    <3> QED BY <3>1, <3>2
  <2>4. CASE i \notin 1..Len(l) /\ j \notin 1..Len(l)
    BY <1>2, <1>3, <2>4
  <2> QED BY <2>1, <2>2, <2>3, <2>4
<1>8. Good(k)'
  BY <1>3, <1>5, <1>6, <1>7 DEF Good
<1>9. Keeps(l, k)
  BY <1>2, <1>3 DEF Keeps
<1> QED BY <1>8, <1>9


-----------------------------------------------------------------------------
(* The invariant *)

Types ==
    /\ mode \in Modes /\ sent \in 0..MaxSends
    /\ reqMode \in [Requests -> Modes]
    /\ DOMAIN req = Requests
    /\ \A r \in Requests : req[r] # "none" => r <= sent

\* Every conversation, on the page, stored, under way or to be sent, is good.
Lists ==
    /\ DOMAIN chat = Modes
    /\ \A m \in Modes : Good(chat[m]) /\ Good(disk[m])
    /\ \A c \in load : \A m \in Modes : Good(c[m])
    /\ \A s \in resend : s.mode \in Modes /\ Good(s.list)

\* Pollers follow image and video tasks, the resumed ones video tasks; these are
\* the active ones, and no task has two of them.
Polls(pol, act) ==
    /\ \A p \in pol :
        /\ p.task \in Requests /\ p.task <= sent /\ reqMode[p.task] # "text"
        /\ p.msg # Newest => reqMode[p.task] = "video"
    /\ act = {p.task : p \in {q \in pol : q.msg # Newest}}
    /\ \A p, q \in pol : p.msg # Newest /\ q.msg # Newest /\ p.task = q.task => p = q

PInv == Types /\ Lists /\ Polls(pollers, active)

TextKept == "text" \in Modes => Keeps(chat["text"], chat'["text"])

\* The tasks a conversation shows.
Tasked(l) ==
    /\ l \in Seq(Message)
    /\ \A i \in 1..Len(l) :
        l[i].task # NoTask => l[i].task <= sent /\ reqMode[l[i].task] = "video"

LEMMA GoodTasked == ASSUME NEW l, Good(l) PROVE Tasked(l)
BY DEF Good, Tasked

\* A set of numbers has a least element.
Below == {ss \in Nat \X Nat : ss[1] < ss[2]}

LEMMA BelowWellFounded == IsWellFoundedOn(Below, Nat)
BY NatLessThanWellFounded, Zenon DEF OpToRel, Below

\* The first message that shows an unfinished task exists, and has an id.
LEMMA FirstOf ==
    ASSUME NEW l, Tasked(l), NEW act, NEW t \in unpolled(l, act)
    PROVE  firstOf(l, t) # Newest /\ t \in Requests /\ t <= sent /\ reqMode[t] = "video"
<1> DEFINE Shows(i) == l[i].task = t /\ l[i].live
           T == {i \in DOMAIN l : Shows(i)}
<1>1. l \in Seq(Message) /\ Len(l) \in Nat /\ DOMAIN l = 1..Len(l)
  BY DEF Tasked
<1>2. T # {} /\ T \subseteq Nat /\ t \in Requests
  BY <1>1 DEF unpolled
<1>3. \E i \in T : \A j \in T : ~(<<j, i>> \in Below)
  <2> HIDE DEF T
  <2> QED BY <1>2, BelowWellFounded, WFMin, Zenon
<1>4. PICK i \in T : \A j \in T : ~(j < i)
  <2> HIDE DEF T
  <2>1. \A i, j \in Nat : j < i => <<j, i>> \in Below
    BY DEF Below
  <2> QED BY <1>2, <1>3, <2>1
<1>5. \E h \in DOMAIN l : Shows(h) /\ \A j \in 1..(h - 1) : ~Shows(j)
  <2>1. i \in DOMAIN l /\ Shows(i) /\ i \in Nat
    BY <1>1, <1>4
  <2>2. \A j \in 1..(i - 1) : j \in DOMAIN l /\ j < i
    BY <1>1, <2>1
  <2>3. \A j \in 1..(i - 1) : ~Shows(j)
    BY <1>4, <2>2
  <2> QED BY <2>1, <2>3
<1>6. PICK h \in DOMAIN l : Shows(h) /\ firstOf(l, t) = l[h].id
  BY <1>5 DEF firstOf
<1>7. l[h].id \in 0..MaxSends
  <2>1. l[h] \in Message
    BY <1>1
  <2> QED BY <2>1 DEF Message
<1>8. firstOf(l, t) # Newest
  BY <1>6, <1>7, PlaygroundAssumption DEF Newest
<1>9. t # NoTask
  BY <1>2, PlaygroundAssumption DEF Requests, NoTask
<1> QED BY <1>1, <1>2, <1>6, <1>8, <1>9 DEF Tasked

\* The effect polls what nobody polls yet, once.
LEMMA ResumeKeeps ==
    ASSUME NEW l, Tasked(l), NEW pol, NEW act, Polls(pol, act), resumePolling(l, pol, act)
    PROVE  Polls(pollers', active')
<1> DEFINE U == unpolled(l, act)
           new == {[task |-> t, msg |-> firstOf(l, t)] : t \in U}
<1>1. pollers' = pol \cup new /\ active' = act \cup U
  BY DEF resumePolling
<1>2. \A p \in new : /\ p.task \in U /\ p.msg = firstOf(l, p.task)
                     /\ p = [task |-> p.task, msg |-> firstOf(l, p.task)]
                     /\ p.msg # Newest /\ p.task \in Requests /\ p.task <= sent
                     /\ reqMode[p.task] = "video"
  BY FirstOf
<1>3. ASSUME NEW t \in U PROVE \E p \in new : p.task = t /\ p.msg # Newest
  <2>1. [task |-> t, msg |-> firstOf(l, t)] \in new
    OBVIOUS
  <2>2. firstOf(l, t) # Newest
    BY FirstOf
  <2> QED BY <2>1, <2>2
<1>4. U \cap act = {}
  BY DEF unpolled
<1>5. \A p, q \in new : p.task = q.task => p = q
  BY <1>2
<1>6. \A p \in pol, q \in new : p.msg # Newest => p.task # q.task
  <2> HIDE DEF U, new
  <2>1. \A p \in pol : p.msg # Newest => p.task \in act
    BY DEF Polls
  <2> QED BY <1>2, <1>4, <2>1
<1> HIDE DEF U, new
<1>7. active' = {p.task : p \in {q \in pollers' : q.msg # Newest}}
  <2>1. \A t \in active' : \E p \in pollers' : p.msg # Newest /\ p.task = t
    BY <1>1, <1>3 DEF Polls
  <2>2. \A p \in pollers' : p.msg # Newest => p.task \in active'
    BY <1>1, <1>2 DEF Polls
  <2> QED BY <2>1, <2>2
<1>8. \A p \in pollers' :
        /\ p.task \in Requests /\ p.task <= sent /\ reqMode[p.task] # "text"
        /\ p.msg # Newest => reqMode[p.task] = "video"
  BY <1>1, <1>2 DEF Polls
<1>9. \A p, q \in pollers' : p.msg # Newest /\ q.msg # Newest /\ p.task = q.task => p = q
  <2> SUFFICES ASSUME NEW p \in pollers', NEW q \in pollers', p.msg # Newest, q.msg # Newest,
                      p.task = q.task
               PROVE  p = q
    OBVIOUS
  <2>1. CASE p \in pol /\ q \in pol
    BY <2>1 DEF Polls
  <2>2. CASE p \in new /\ q \in new
    BY <1>5, <2>2
  <2>3. CASE p \in pol /\ q \in new
    BY <1>6, <2>3
  <2>4. CASE p \in new /\ q \in pol
    BY <1>6, <2>4
  <2> QED BY <1>1, <2>1, <2>2, <2>3, <2>4
<1> QED BY <1>7, <1>8, <1>9 DEF Polls

\* A change of one conversation, on display or in the background.
LEMMA SetKeeps ==
    ASSUME PInv, NEW m \in Modes, NEW k, Good(k), NEW pol, NEW act, Polls(pol, act),
           setMessageForMode(m, k, pol, act) \/ setAndSave(m, k, pol, act),
           UNCHANGED <<sent, reqMode, load, resend>>
    PROVE  /\ chat' = [chat EXCEPT ![m] = k]
           /\ Lists' /\ Polls(pollers, active)'
           /\ ("text" = m => Keeps(chat["text"], k)) => TextKept
<1>1. chat' = [chat EXCEPT ![m] = k] /\ disk' \in {disk, chat'}
  BY DEF setMessageForMode, setAndSave, showing
<1>2. DOMAIN chat' = Modes /\ chat'[m] = k /\ \A n \in Modes \ {m} : chat'[n] = chat[n]
  BY <1>1 DEF PInv, Lists
<1>3. \A n \in Modes : Good(chat'[n]) /\ Good(disk'[n])
  BY <1>1, <1>2 DEF PInv, Lists
<1>4. \A l : Good(l) => Good(l)'
  BY DEF Good
<1>5. Lists'
  BY <1>2, <1>3, <1>4 DEF PInv, Lists
<1>6. CASE m = mode
  <2>1. resumePolling([chat EXCEPT ![m] = k][m], pol, act) /\ [chat EXCEPT ![m] = k][m] = k
    BY <1>6 DEF setMessageForMode, setAndSave, showing, PInv, Lists
  <2>2. Polls(pollers', active')
    BY <2>1, ResumeKeeps, GoodTasked
  <2> QED BY <1>1, <1>2, <1>5, <2>2, KeepsSelf DEF Polls, TextKept
<1>7. CASE m # mode
  <2>1. pollers' = pol /\ active' = act
    BY <1>7 DEF setMessageForMode, setAndSave
  <2> QED BY <1>1, <1>2, <1>5, <2>1, KeepsSelf DEF Polls, TextKept
<1> QED BY <1>6, <1>7

LEMMA InitPInv == Init => PInv
<1> SUFFICES ASSUME Init PROVE PInv
  OBVIOUS
<1>1. Types
  BY PlaygroundAssumption DEF Init, Types, Requests
<1>2. greeting \in Seq(Message) /\ Len(greeting) = 1 /\ greeting[1].id = 0 /\ greeting[1].task = NoTask
  BY PlaygroundAssumption DEF greeting, Message, Greeting, NoTask
<1>3. Good(greeting)
  BY <1>1, <1>2, PlaygroundAssumption DEF Good, Types
<1>4. Lists
  BY <1>3 DEF Init, Lists
<1>5. Polls(pollers, active)
  BY DEF Init, Polls
<1> QED BY <1>1, <1>4, <1>5 DEF PInv


-----------------------------------------------------------------------------
(* The steps *)

LEMMA PollsStay ==
    ASSUME NEW pol, NEW act, Polls(pol, act), Grows, sent \in Nat, sent' \in Nat, MaxSends \in Nat
    PROVE  Polls(pol, act)'
<1>1. \A p \in pol : p.task \in 1..sent /\ p.task \in Nat
  BY DEF Polls, Requests
<1>2. \A p \in pol : p.task <= sent' /\ reqMode'[p.task] = reqMode[p.task]
  BY <1>1 DEF Grows
<1> QED BY <1>2 DEF Polls

\* Sending again, or for the first time, the conversation of a click.
LEMMA SendKeeps ==
    ASSUME PInv, NEW list, Good(list), NEW m \in Modes, send(list, m),
           UNCHANGED <<mode, load>>, resend' \subseteq resend
    PROVE  PInv' /\ (m = mode /\ list = chat[mode] => TextKept)
<1>0. PICK msg, k : msg = newReply(sent') /\ k = Append(list, msg)
  OBVIOUS
<1>1. /\ sent \in Nat /\ sent' \in Nat /\ MaxSends \in Nat /\ sent < MaxSends /\ sent' = sent + 1
      /\ sent' \in Requests /\ mode \in Modes
  BY PlaygroundAssumption DEF PInv, Types, send, Requests
<1>2. reqMode' = [reqMode EXCEPT ![sent'] = m] /\ reqMode' \in [Requests -> Modes]
  BY <1>1 DEF send, PInv, Types
<1>3. Grows
  BY <1>1, <1>2 DEF Grows, PInv, Types, Requests
<1>4. Types'
  <2>1. PICK kind : req' = [req EXCEPT ![sent'] = kind]
    BY DEF send
  <2>2. DOMAIN req' = Requests /\ \A r \in Requests : r # sent' => req'[r] = req[r]
    BY <1>1, <2>1 DEF PInv, Types
  <2>3. \A r \in Requests : req'[r] # "none" => r <= sent'
    BY <1>1, <2>2 DEF PInv, Types, Requests
  <2> QED BY <1>1, <1>2, <2>2, <2>3 DEF Types
<1>5. \A l : Good(l) => Good(l)'
  BY <1>1, <1>3, GoodStays
<1>6. Good(k)' /\ Keeps(list, k)
  BY <1>0, <1>1, <1>3, AppendGood
<1>7. Tasked(k)
  <2>1. list \in Seq(Message) /\ k \in Seq(Message)
    BY <1>6 DEF Good
  <2>2. msg.task = NoTask
    BY <1>0 DEF newReply
  <2>3. Len(k) = Len(list) + 1 /\ Len(list) \in Nat
        /\ \A i \in 1..(Len(list) + 1) : k[i] = IF i = Len(list) + 1 THEN msg ELSE list[i]
    BY <1>0, <1>6, <2>1, AppendProperties
  <2> QED BY <2>1, <2>2, <2>3 DEF Tasked, Good
<1>8. chat' = [chat EXCEPT ![mode] = k, ![m] = k] /\ disk' = chat'
      /\ resumePolling([chat EXCEPT ![mode] = k, ![m] = k][mode], pollers, active)
  BY <1>0 DEF send, showing
<1>9. DOMAIN chat' = Modes /\ chat'[mode] = k /\ chat'[m] = k
      /\ \A n \in Modes \ {mode, m} : chat'[n] = chat[n]
  BY <1>1, <1>8 DEF PInv, Lists
<1>10. Lists'
  <2>1. \A n \in Modes : Good(chat[n])'
    BY <1>5, <1>6, <1>9 DEF PInv, Lists
  <2> QED BY <1>5, <1>8, <1>9, <2>1 DEF PInv, Lists
<1>11. Polls(pollers, active)'
  <2>1. Polls(pollers', active')
    BY <1>7, <1>8, <1>9, ResumeKeeps DEF PInv
  <2> QED BY <1>1, <1>3, <2>1, PollsStay DEF Polls
<1>12. m = mode /\ list = chat[mode] => TextKept
  BY <1>6, <1>9, KeepsSelf DEF TextKept
<1> QED BY <1>4, <1>10, <1>11, <1>12 DEF PInv


\* A conversation that comes on display is polled for.
LEMMA ShowKeeps ==
    ASSUME PInv, NEW c, NEW n, Good(c[n]), showing(c, n, pollers, active),
           UNCHANGED <<sent, reqMode>>
    PROVE  chat' = c /\ Polls(pollers, active)'
<1>1. chat' = c /\ resumePolling(c[n], pollers, active)
  BY DEF showing
<1>2. Polls(pollers', active')
  BY <1>1, ResumeKeeps, GoodTasked DEF PInv
<1> QED BY <1>1, <1>2 DEF Polls

LEMMA TypesSame ==
    ASSUME Types, UNCHANGED <<mode, sent, reqMode, req>> PROVE Types'
BY DEF Types

\* A request that ends.
LEMMA TypesEnd ==
    ASSUME Types, UNCHANGED <<mode, sent, reqMode>>, NEW r \in Requests,
           req' = [req EXCEPT ![r] = "none"]
    PROVE  Types'
<1>1. DOMAIN req' = Requests /\ \A s \in Requests : req'[s] = IF s = r THEN "none" ELSE req[s]
  BY DEF Types
<1> QED BY <1>1 DEF Types

LEMMA StreamStep ==
    ASSUME PInv, NEW r \in Requests,
           Chunk(r) \/ StreamEnds(r) \/ StreamRefused(r) \/ ChunkUnreadable(r) \/ StreamCut(r)
    PROVE  PInv' /\ TextKept
<1> DEFINE m == reqMode[r]
<1>1. /\ Types' /\ UNCHANGED <<sent, reqMode, load, resend>>
      /\ m \in Modes /\ Good(chat[m]) /\ chat[m] \in Seq(Message)
  <2>1. UNCHANGED <<mode, sent, reqMode, load, resend>>
    BY DEF Chunk, StreamEnds, StreamRefused, ChunkUnreadable, StreamCut, network
  <2>2. req' = req \/ req' = [req EXCEPT ![r] = "none"]
    BY DEF Chunk, StreamEnds, StreamRefused, ChunkUnreadable, StreamCut, network
  <2>3. Types'
    BY <2>1, <2>2, TypesSame, TypesEnd DEF PInv
  <2>4. m \in Modes
    BY DEF PInv, Types
  <2> QED BY <2>1, <2>3, <2>4 DEF PInv, Lists, Good
<1>2. ASSUME UNCHANGED <<chat, disk, polling>> PROVE PInv' /\ TextKept
  <2>1. Lists' /\ Polls(pollers, active)'
    BY <1>1, <1>2 DEF PInv, Lists, Polls, Good, polling
  <2> QED BY <1>1, <1>2, <2>1, KeepsSelf DEF PInv, TextKept
<1>3. CASE Chunk(r)
  <2>1. PICK k : k = streamed(chat[m], r)
    OBVIOUS
  <2>2. Good(k) /\ Keeps(chat[m], k)
    BY <1>1, <2>1, StreamedSame, SameGood
  <2>3. setMessageForMode(m, k, pollers, active)
    BY <1>3, <2>1 DEF Chunk
  <2>4. Lists' /\ Polls(pollers, active)' /\ TextKept
    BY <1>1, <2>2, <2>3, SetKeeps DEF PInv
  <2> QED BY <1>1, <2>4 DEF PInv
<1>4. ASSUME NEW err \in BOOLEAN, finish(r, err) PROVE PInv' /\ TextKept
  <2>1. PICK l : l = IF err THEN streamed(chat[m], r) ELSE chat[m]
    OBVIOUS
  <2>2. Good(l) /\ Keeps(chat[m], l) /\ l \in Seq(Message)
    <3>1. CASE l = chat[m]
      BY <1>1, <3>1, KeepsSelf
    <3>2. CASE l = streamed(chat[m], r)
      <4>1. Same(chat[m], l) /\ Keeps(chat[m], l)
        BY <1>1, <3>2, StreamedSame
      <4> QED BY <1>1, <4>1, SameGood DEF Good
    <3> QED BY <2>1, <3>1, <3>2
  <2>3. CASE l = <<>>
    BY <1>2, <1>4, <2>1, <2>3 DEF finish
  <2>4. CASE l # <<>>
    <3>1. PICK k : k = completed(l)
      OBVIOUS
    <3>2. Good(k) /\ Keeps(l, k) /\ Same(l, k)
      BY <2>2, <3>1, CompletedSame, SameGood
    <3>3. Keeps(chat[m], k)
      <4>1. l \in Seq(Message) /\ k \in Seq(Message) /\ Len(k) = Len(l) /\ Len(l) \in Nat
        BY <2>2, <3>2 DEF Same
      <4>2. DOMAIN k = DOMAIN l /\ \A i \in DOMAIN k : k[i].id = l[i].id
        BY <3>2, <4>1 DEF Same
      <4> QED BY <2>2, <3>2, <4>2 DEF Keeps
    <3>4. setAndSave(m, k, pollers, active)
      BY <1>4, <2>1, <2>4, <3>1 DEF finish
    <3>5. Lists' /\ Polls(pollers, active)' /\ TextKept
      BY <1>1, <3>2, <3>3, <3>4, SetKeeps DEF PInv
    <3> QED BY <1>1, <3>5 DEF PInv
  <2> QED BY <2>3, <2>4
<1>5. CASE StreamEnds(r)
  BY <1>4, <1>5 DEF StreamEnds
<1>6. CASE StreamRefused(r)
  BY <1>4, <1>6 DEF StreamRefused
<1>7. CASE ChunkUnreadable(r)
  BY <1>4, <1>7 DEF ChunkUnreadable
<1>8. CASE StreamCut(r)
  BY <1>2, <1>8 DEF StreamCut
<1> QED BY <1>3, <1>5, <1>6, <1>7, <1>8

LEMMA FetchStep ==
    ASSUME PInv, NEW r \in Requests, Reply(r) \/ TaskAccepted(r)
    PROVE  PInv' /\ TextKept
<1> DEFINE m == reqMode[r]
<1>1. /\ Types' /\ UNCHANGED <<sent, reqMode, load, resend>>
      /\ m \in Modes /\ Good(chat[m]) /\ chat[m] \in Seq(Message)
  <2>1. UNCHANGED <<mode, sent, reqMode, load, resend>> /\ req' = [req EXCEPT ![r] = "none"]
    BY DEF Reply, TaskAccepted
  <2>2. Types'
    BY <2>1, TypesEnd DEF PInv
  <2>3. m \in Modes
    BY DEF PInv, Types
  <2> QED BY <2>1, <2>2, <2>3 DEF PInv, Lists, Good
<1>2. r \in 0..MaxSends /\ r <= sent /\ NoTask \in 0..MaxSends
  BY PlaygroundAssumption DEF Reply, TaskAccepted, PInv, Types, Requests, NoTask
<1>3. ASSUME NEW t \in {NoTask, r}, t = r => m = "video", NEW pol, Polls(pol, active),
             setMessageForMode(m, answered(chat[m], r, t), pol, active)
      PROVE  PInv' /\ TextKept
  <2>1. PICK k : k = answered(chat[m], r, t)
    OBVIOUS
  <2>2. t \in 0..MaxSends /\ (t # NoTask => t <= sent /\ reqMode[t] = "video")
    BY <1>2, <1>3
  <2>3. Good(k) /\ Keeps(chat[m], k)
    BY <1>1, <2>1, <2>2, AnsweredSame, SameGood
  <2>4. Lists' /\ Polls(pollers, active)' /\ TextKept
    BY <1>1, <1>3, <2>1, <2>3, SetKeeps
  <2> QED BY <1>1, <2>4 DEF PInv
<1>4. CASE Reply(r)
  <2>1. NoTask # r
    BY PlaygroundAssumption DEF Requests, NoTask
  <2> QED BY <1>3, <1>4, <2>1 DEF Reply, PInv
<1>5. CASE TaskAccepted(r)
  <2>1. PICK t : t = IF m = "video" THEN r ELSE NoTask
    OBVIOUS
  <2>2. PICK pol : pol = pollers \cup {[task |-> r, msg |-> Newest]}
    OBVIOUS
  <2>3. Polls(pol, active)
    <3>1. m # "text"
      BY <1>5 DEF TaskAccepted
    <3>2. {q \in pol : q.msg # Newest} = {q \in pollers : q.msg # Newest}
      BY <2>2
    <3>3. \A p \in pol : /\ p.task \in Requests /\ p.task <= sent /\ reqMode[p.task] # "text"
                         /\ p.msg # Newest => reqMode[p.task] = "video"
      BY <1>2, <2>2, <3>1 DEF PInv, Polls
    <3>4. \A p, q \in pol : p.msg # Newest /\ q.msg # Newest /\ p.task = q.task => p = q
      BY <2>2 DEF PInv, Polls
    <3> QED BY <3>2, <3>3, <3>4 DEF PInv, Polls
  <2>4. NoTask # r
    BY PlaygroundAssumption DEF Requests, NoTask
  <2>5. setMessageForMode(m, answered(chat[m], r, t), pol, active)
    BY <1>5, <2>1, <2>2 DEF TaskAccepted
  <2>6. t \in {NoTask, r} /\ (t = r => m = "video")
    BY <2>1, <2>4
  <2> QED BY <1>3, <2>3, <2>5, <2>6
<1> QED BY <1>4, <1>5


LEMMA PollStep ==
    ASSUME PInv, NEW p \in pollers, PollTick(p) \/ PollEnds(p) \/ PollGivesUp(p)
    PROVE  PInv' /\ TextKept
<1> DEFINE m == reqMode[p.task]
<1>1. p.task \in Requests /\ p.task <= sent /\ m # "text" /\ (p.msg # Newest => m = "video")
  BY DEF PInv, Polls
<1>2. /\ Types' /\ UNCHANGED <<sent, reqMode, load, resend>>
      /\ m \in Modes /\ Good(chat[m]) /\ chat[m] \in Seq(Message)
  <2>1. UNCHANGED <<mode, sent, reqMode, req, load, resend>>
    BY DEF PollTick, PollEnds, PollGivesUp, network
  <2>2. Types'
    BY <2>1, TypesSame DEF PInv
  <2>3. m \in Modes
    BY <1>1 DEF PInv, Types
  <2> QED BY <2>1, <2>2, <2>3 DEF PInv, Lists, Good
<1>3. ASSUME NEW live \in BOOLEAN, NEW k, k = patch(chat[m], p, live), NEW pol, NEW act, Polls(pol, act),
             setMessageForMode(m, k, pol, act) \/ setAndSave(m, k, pol, act)
      PROVE  PInv' /\ TextKept
  <2>1. Same(chat[m], k)
    BY <1>1, <1>2, <1>3, PatchSame
  <2>2. Good(k)
    BY <1>2, <2>1, SameGood
  <2>3. Lists' /\ Polls(pollers, active)' /\ (("text" = m => Keeps(chat["text"], k)) => TextKept)
    BY <1>2, <1>3, <2>2, SetKeeps
  <2> QED BY <1>1, <1>2, <2>3 DEF PInv
<1>4. CASE PollTick(p)
  <2>1. PICK k : k = patch(chat[m], p, TRUE)
    OBVIOUS
  <2>2. setMessageForMode(m, k, pollers, active) \/ setAndSave(m, k, pollers, active)
    BY <1>4, <2>1 DEF PollTick
  <2> QED BY <1>3, <2>1, <2>2 DEF PInv
<1>5. CASE PollEnds(p)
  <2>1. PICK k : k = patch(chat[m], p, FALSE)
    OBVIOUS
  <2>2. PICK pol, act : pol = pollers \ {p} /\ act = IF p.msg = Newest THEN active ELSE active \ {p.task}
    OBVIOUS
  <2>3. setMessageForMode(m, k, pol, act) \/ setAndSave(m, k, pol, act)
    BY <1>5, <2>1, <2>2 DEF PollEnds
  <2>4. act = {q.task : q \in {o \in pol : o.msg # Newest}}
    <3>1. \A t \in act : \E q \in pol : q.msg # Newest /\ q.task = t
      <4> SUFFICES ASSUME NEW t \in act PROVE \E q \in pol : q.msg # Newest /\ q.task = t
        OBVIOUS
      <4>1. t \in active /\ (p.msg # Newest => t # p.task)
        BY <2>2
      <4>2. PICK q \in pollers : q.msg # Newest /\ q.task = t
        BY <4>1 DEF PInv, Polls
      <4> QED BY <2>2, <4>1, <4>2
    <3>2. ASSUME NEW q \in pol, q.msg # Newest PROVE q.task \in act
      <4>1. q \in pollers /\ q # p /\ q.task \in active
        BY <2>2, <3>2 DEF PInv, Polls
      <4>2. p.msg # Newest => q.task # p.task
        BY <3>2, <4>1 DEF PInv, Polls
      <4> QED BY <2>2, <4>1, <4>2
    <3> QED BY <3>1, <3>2
  <2>5. Polls(pol, act)
    BY <2>2, <2>4 DEF PInv, Polls
  <2> QED BY <1>3, <2>1, <2>3, <2>5
<1>6. CASE PollGivesUp(p)
  <2>1. p.msg = Newest /\ pollers' = pollers \ {p} /\ UNCHANGED <<chat, disk, active>>
    BY <1>1, <1>6 DEF PollGivesUp
  <2>2. {q \in pollers' : q.msg # Newest} = {q \in pollers : q.msg # Newest}
    BY <2>1
  <2>3. Polls(pollers, active)'
    BY <1>2, <2>1, <2>2 DEF PInv, Polls
  <2>4. Lists'
    BY <1>2, <2>1 DEF PInv, Lists, Good
  <2> QED BY <1>2, <2>1, <2>3, <2>4, KeepsSelf DEF PInv, TextKept
<1> QED BY <1>4, <1>5, <1>6

LEMMA GreetingGood ==
    ASSUME sent \in Nat PROVE Good(greeting) /\ Good(<<>>)
<1>1. greeting \in Seq(Message) /\ Len(greeting) = 1 /\ greeting[1].id = 0 /\ greeting[1].task = NoTask
  BY PlaygroundAssumption DEF greeting, Message, Greeting, NoTask
<1>2. Good(greeting)
  BY <1>1 DEF Good
<1>3. Good(<<>>)
  BY DEF Good
<1> QED BY <1>2, <1>3

\* The buttons of the page.
LEMMA UserStep ==
    ASSUME PInv, Stop \/ Clear \/ \E i \in DOMAIN chat[mode] : Delete(i)
    PROVE  PInv' /\ TextKept
<1>1. /\ Types' /\ UNCHANGED <<sent, reqMode, load, resend>>
      /\ mode \in Modes /\ Good(chat[mode]) /\ chat[mode] \in Seq(Message)
  <2>1. UNCHANGED <<mode, sent, reqMode, load, resend>>
    BY DEF Stop, Clear, Delete, network
  <2>2. req' = req \/ req' = [r \in Requests |-> IF r = source THEN "none" ELSE req[r]]
    BY DEF Stop, Clear, Delete, network
  <2>3. DOMAIN req' = Requests /\ \A r \in Requests : req'[r] \in {"none", req[r]}
    BY <2>2 DEF PInv, Types
  <2>4. Types'
    BY <2>1, <2>3 DEF PInv, Types
  <2> QED BY <2>1, <2>4 DEF PInv, Types, Lists, Good
<1>2. ASSUME NEW k, Good(k), Keeps(chat[mode], k), setAndSave(mode, k, pollers, active)
      PROVE  PInv' /\ TextKept
  <2>1. Lists' /\ Polls(pollers, active)' /\ TextKept
    BY <1>1, <1>2, SetKeeps DEF PInv
  <2> QED BY <1>1, <2>1 DEF PInv
<1>3. CASE Stop
  <2>1. PICK k : k = completed(chat[mode])
    OBVIOUS
  <2>2. Good(k) /\ Keeps(chat[mode], k)
    BY <1>1, <2>1, CompletedSame, SameGood
  <2> QED BY <1>2, <1>3, <2>1, <2>2 DEF Stop
<1>4. CASE Clear
  <2>1. Good(<<>>)
    BY PlaygroundAssumption, GreetingGood DEF PInv, Types
  <2>2. Keeps(chat[mode], <<>>)
    BY DEF Keeps
  <2> QED BY <1>2, <1>4, <2>1, <2>2 DEF Clear
<1>5. CASE \E i \in DOMAIN chat[mode] : Delete(i)
  <2>1. PICK i \in DOMAIN chat[mode] : Delete(i)
    BY <1>5
  <2>2. i \in 1..Len(chat[mode])
    BY <1>1
  <2>3. PICK k : k = Without(chat[mode], i)
    OBVIOUS
  <2>4. Good(k) /\ Keeps(chat[mode], k)
    BY <1>1, <2>2, <2>3, WithoutGood
  <2>5. setAndSave(mode, k, pollers, active)
    BY <2>1, <2>3 DEF Delete, Without
  <2> QED BY <1>2, <2>4, <2>5
<1> QED BY <1>3, <1>4, <1>5


\* "Regenerate" and the change of the mode.
LEMMA ClickStep ==
    ASSUME PInv, \/ \E i \in DOMAIN chat[mode] : Reset(i)
                 \/ \E n \in Modes : SwitchMode(n)
    PROVE  PInv' /\ TextKept
<1>1. /\ Types' /\ UNCHANGED <<sent, reqMode>>
      /\ mode \in Modes /\ Good(chat[mode]) /\ chat[mode] \in Seq(Message)
  BY DEF PInv, Types, Lists, Good, Reset, SwitchMode, network
<1>2. \A l : Good(l) => Good(l)'
  BY <1>1 DEF Good
<1>3. CASE \E i \in DOMAIN chat[mode] : Reset(i)
  <2>1. PICK i \in DOMAIN chat[mode] : Reset(i)
    BY <1>3
  <2>2. PICK k : k = SubSeq(chat[mode], 1, i - 1)
    OBVIOUS
  <2>3. PICK c : c = [chat EXCEPT ![mode] = k]
    OBVIOUS
  <2>4. Good(k) /\ Keeps(chat[mode], k)
    BY <1>1, <2>2, PrefixGood
  <2>5. c[mode] = k /\ DOMAIN c = Modes /\ \A n \in Modes \ {mode} : c[n] = chat[n]
    BY <1>1, <2>3 DEF PInv, Lists
  <2>6. /\ showing(c, mode, pollers, active) /\ UNCHANGED <<disk, load>>
        /\ resend' = resend \cup {[list |-> chat[mode], mode |-> mode]}
    BY <2>1, <2>2, <2>3 DEF Reset
  <2>7. chat' = c /\ Polls(pollers, active)'
    BY <1>1, <2>4, <2>5, <2>6, ShowKeeps
  <2>8. \A s \in resend' : s.mode \in Modes /\ Good(s.list)
    BY <1>1, <2>6 DEF PInv, Lists
  <2>9. Lists'
    BY <1>2, <2>4, <2>5, <2>6, <2>7, <2>8 DEF PInv, Lists
  <2>10. TextKept
    BY <2>4, <2>5, <2>7, KeepsSelf DEF TextKept
  <2> QED BY <1>1, <2>7, <2>9, <2>10 DEF PInv
<1>4. CASE \E n \in Modes : SwitchMode(n)
  <2>1. PICK n \in Modes : SwitchMode(n)
    BY <1>4
  <2>2. showing(chat, n, pollers, active) /\ load' = {disk} /\ UNCHANGED <<disk, resend>>
    BY <2>1 DEF SwitchMode
  <2>3. chat' = chat /\ Polls(pollers, active)'
    BY <1>1, <2>2, ShowKeeps DEF PInv, Lists
  <2>4. Lists'
    BY <1>2, <2>2, <2>3 DEF PInv, Lists
  <2> QED BY <1>1, <2>3, <2>4, KeepsSelf DEF PInv, TextKept
<1> QED BY <1>3, <1>4

LEMMA StorageStep ==
    ASSUME PInv, Restore \/ Persist \/ Reload
    PROVE  PInv' /\ (Persist => TextKept)
<1>1. UNCHANGED <<sent, reqMode>> /\ Types'
  <2>1. UNCHANGED <<sent, reqMode>> /\ mode' \in Modes
    BY DEF Restore, Persist, Reload, network, PInv, Types
  <2>2. DOMAIN req' = Requests /\ \A r \in Requests : req'[r] \in {"none", req[r]}
    BY DEF Restore, Persist, Reload, network, PInv, Types
  <2> QED BY <2>1, <2>2 DEF PInv, Types
<1>2. \A l : Good(l) => Good(l)'
  BY <1>1 DEF Good
<1>3. Good(greeting) /\ Good(<<>>)
  BY PlaygroundAssumption, GreetingGood DEF PInv, Types
<1>4. CASE Restore
  <2>1. PICK s \in load : showing(restored(s), mode, pollers, active)
    BY <1>4 DEF Restore
  <2>2. PICK c : c = restored(s)
    OBVIOUS
  <2>3. DOMAIN c = Modes /\ \A n \in Modes : Good(c[n])
    BY <1>3, <2>2 DEF restored, PInv, Lists
  <2>4. load' = {} /\ UNCHANGED <<disk, resend>> /\ mode \in Modes
    BY <1>4 DEF Restore, PInv, Types
  <2>5. chat' = c /\ Polls(pollers, active)'
    BY <1>1, <2>1, <2>2, <2>3, <2>4, ShowKeeps
  <2>6. Lists'
    BY <1>2, <2>3, <2>4, <2>5 DEF PInv, Lists
  <2>7. ASSUME Persist PROVE TextKept
    BY <2>7, KeepsSelf DEF Persist, TextKept
  <2> QED BY <1>1, <2>5, <2>6, <2>7 DEF PInv
<1>5. CASE Persist
  <2>1. disk' = chat /\ UNCHANGED <<chat, load, resend, pollers, active>>
    BY <1>5 DEF Persist, polling
  <2>2. Lists'
    BY <1>2, <2>1 DEF PInv, Lists
  <2>3. Polls(pollers, active)'
    BY <1>1, <2>1 DEF PInv, Polls
  <2> QED BY <1>1, <2>1, <2>2, <2>3, KeepsSelf DEF PInv, TextKept
<1>6. CASE Reload
  <2>1. load' = {disk} /\ pollers' = {} /\ active' = {} /\ resend' = {} /\ UNCHANGED disk
    BY <1>6 DEF Reload
  <2>2. PICK n \in Modes : chat' = [o \in Modes |-> IF o = n THEN greeting ELSE <<>>]
    BY <1>6 DEF Reload
  <2>3. DOMAIN chat' = Modes /\ \A o \in Modes : Good(chat'[o])
    BY <1>3, <2>2
  <2>4. Lists'
    BY <1>2, <2>1, <2>3 DEF PInv, Lists
  <2>5. Polls(pollers, active)'
    BY <2>1 DEF Polls
  <2>6. ASSUME Persist PROVE TextKept
    BY <2>6, KeepsSelf DEF Persist, TextKept
  <2> QED BY <1>1, <2>4, <2>5, <2>6 DEF PInv
<1> QED BY <1>4, <1>5, <1>6

LEMMA SendStep ==
    ASSUME PInv, Send \/ \E s \in resend : Resend(s)
    PROVE  PInv' /\ (Send => TextKept)
<1>1. CASE Send
  BY <1>1, SendKeeps DEF Send, PInv, Types, Lists
<1>2. ASSUME NEW s \in resend, Resend(s), ~Send PROVE PInv'
  <2>1. s.mode \in Modes /\ Good(s.list)
    BY DEF PInv, Lists
  <2>2. send(s.list, s.mode) /\ UNCHANGED <<mode, load>> /\ resend' \subseteq resend
    BY <1>2 DEF Resend
  <2> QED BY <2>1, <2>2, SendKeeps
<1> QED BY <1>1, <1>2

\* Every step keeps the invariant, and all but three keep the finished texts.
LEMMA PStep ==
    ASSUME PInv, [Next]_vars
    PROVE  PInv' /\ (TextKept \/ Restore \/ Reload \/ \E s \in resend : Resend(s))
<1>1. CASE Next
  BY <1>1, SendStep, UserStep, ClickStep, StorageStep, StreamStep, FetchStep, PollStep
     DEF Next, User, Network, Timers
<1>2. CASE UNCHANGED vars
  <2>1. PInv'
    BY <1>2 DEF vars, network, polling, PInv, Types, Lists, Polls, Good
  <2> QED BY <1>2, <2>1, KeepsSelf DEF vars, TextKept
<1> QED BY <1>1, <1>2

-----------------------------------------------------------------------------
(* The theorems *)

\* The tasks of the resumed pollers are as many as these.
LEMMA ExactCount ==
    ASSUME PInv PROVE ActivePollsAreExact
<1> DEFINE R == {p \in pollers : p.msg # Newest}
           f == [p \in R |-> p.task]
<1>1. active = {p.task : p \in R}
  BY DEF PInv, Polls
<1>2. f \in Injection(R, active)
  <2>1. \A p, q \in R : f[p] = f[q] => p = q
    BY DEF PInv, Polls
  <2> QED BY <1>1, <2>1 DEF Injection, IsInjective
<1>3. f \in Surjection(R, active)
  <2>1. \A t \in active : \E p \in R : f[p] = t
    BY <1>1
  <2> QED BY <1>1, <2>1 DEF Surjection
<1>4. IsFiniteSet(active)
  <2>1. active \subseteq Requests
    BY <1>1 DEF PInv, Polls
  <2>2. IsFiniteSet(Requests)
    BY PlaygroundAssumption, FS_Interval DEF Requests
  <2> QED BY <2>1, <2>2, FS_Subset
<1>5. Cardinality(R) = Cardinality(active)
  <2> HIDE DEF R, f
  <2> QED BY <1>2, <1>3, <1>4, FS_Injection
<1> QED BY <1>1, <1>5 DEF ActivePollsAreExact

\* Spec => []ActivePollsAreExact: the set of active polls holds the tasks of the
\* resumed pollers, one each.
THEOREM ActivePollsExact == Spec => []ActivePollsAreExact
<1>1. Init => PInv
  BY InitPInv
<1>2. PInv /\ [Next]_vars => PInv'
  BY PStep
<1>3. PInv => ActivePollsAreExact
  BY ExactCount
<1> QED BY <1>1, <1>2, <1>3, PTL DEF Spec

\* Spec => FinalTextStays: a finished text is written again by no stream, reply,
\* poller or button.
THEOREM FinalTextKept == Spec => FinalTextStays
<1> DEFINE Kept ==
      "text" \in Modes =>
        \A i \in DOMAIN chat["text"] \cap DOMAIN chat'["text"] :
            /\ chat["text"][i].id = chat'["text"][i].id
            /\ chat["text"][i].status = "final"
            => chat'["text"][i] = chat["text"][i]
<1>1. Init => PInv
  BY InitPInv
<1>2. PInv /\ [Next]_vars => PInv'
  BY PStep
<1>3. PInv /\ [Next]_vars
        => [Restore \/ Reload \/ (\E s \in resend : Resend(s)) \/ Kept]_vars
  BY PStep DEF TextKept, Keeps
<1> QED BY <1>1, <1>2, <1>3, PTL DEF Spec, FinalTextStays
=============================================================================
