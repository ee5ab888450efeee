------------------------ MODULE StreamScanner_proofs ------------------------
(***************************************************************************)
(* For every capacity of the queue and any number of lines: no sender      *)
(* waits on the stop channel, the main loop never leaves its select        *)
(* without a reason, and a stream reported as complete was delivered       *)
(* completely and in order.                                                *)
(***************************************************************************)
EXTENDS StreamScanner, TLAPS, SequenceTheorems

-----------------------------------------------------------------------------
(* Types *)

\* The Boolean part of TypeOK and the rest of it, which suit different provers.
Flags ==
    /\ pingEnabled \in BOOLEAN /\ clientGone \in BOOLEAN /\ stopClosed \in BOOLEAN
    /\ dataClosed \in BOOLEAN /\ cancelled \in BOOLEAN /\ timedOut \in BOOLEAN

Values ==
    /\ main \in {"select", "send", "wait", "returned"}
    /\ ping \in {"idle", "sending", "ended"}
    /\ writer \in {"none", "waiting", "writing", "ok", "failed"}
    /\ data \in {"range", "lock", "handle", "exit", "send", "ended"}
    /\ scan \in {"scan", "check", "put", "exit", "send", "ended"}
    /\ stopChan \in 0..StopCap
    /\ dataChan \in Seq(Nat) /\ Len(dataChan) <= DataCap
    /\ writeMutex \in {"free", "data", "writer"}
    /\ reason \in Reasons
    /\ line \in Nat /\ item \in Nat /\ lines \in Nat
    /\ sent \in Seq(Nat) /\ handled \in Seq(Nat)
    /\ result \in {"go", "stop", "panic"}

\* TypeOK is both.
LEMMA TypeSplit == TypeOK <=> Flags /\ Values
  BY DEF TypeOK, Flags, Values

\* What sending to and receiving from a channel does to its contents.
LEMMA QueueFacts ==
    ASSUME NEW s \in Seq(Nat)
    PROVE  /\ \A n \in Nat : Append(s, n) \in Seq(Nat) /\ Len(Append(s, n)) = Len(s) + 1
           /\ s # <<>> => Head(s) \in Nat /\ Tail(s) \in Seq(Nat) /\ Len(Tail(s)) <= Len(s)
           /\ Len(s) \in Nat
  OBVIOUS

\* Every step of every goroutine keeps the flags Boolean.
LEMMA FlagsStep ==
    ASSUME TypeOK, [Next]_vars
    PROVE  Flags'
  <1> USE TypeSplit DEF Flags, env, stops, queue
  <1>1. CASE MainTimeout
    BY <1>1, Zenon DEF MainTimeout, leaveSelect, SetEndReason
  <1>2. CASE MainStop
    BY <1>2, Zenon DEF MainStop, leaveSelect, TakeStop, StopReady
  <1>3. CASE MainClientGone
    BY <1>3, Zenon DEF MainClientGone, leaveSelect, SetEndReason
  <1>4. CASE MainSendStop
    BY <1>4, Zenon DEF MainSendStop, SendStop
  <1>5. CASE MainWait
    BY <1>5, Zenon DEF MainWait, finish, DataIsDone, ScanIsDone
  <1>6. CASE MainWaitTimeout
    BY <1>6, Zenon DEF MainWaitTimeout, finish
  <1>7. CASE PingTick
    BY <1>7, Zenon DEF PingTick
  <1>8. CASE WriterLock
    BY <1>8, Zenon DEF WriterLock
  <1>9. ASSUME NEW failed \in BOOLEAN, PingData(failed) PROVE Flags'
    BY <1>9, Zenon DEF PingData
  <1>10. CASE PingSent
    BY <1>10, Zenon DEF PingSent
  <1>11. CASE PingFails
    BY <1>11, Zenon DEF PingFails, pingEnds, SetEndReason
  <1>12. CASE PingStop
    BY <1>12, Zenon DEF PingStop, pingEnds, TakeStop, StopReady
  <1>13. CASE PingEnds
    BY <1>13, Zenon DEF PingEnds, pingEnds
  <1>14. CASE PingMaxDuration
    BY <1>14, Zenon DEF PingMaxDuration, pingEnds
  <1>15. CASE DataNext
    BY <1>15, Zenon DEF DataNext
  <1>16. CASE DataLock
    BY <1>16, Zenon DEF DataLock
  <1>17. ASSUME NEW r \in {"go", "stop", "panic"},
             NEW why \in {None, "handler_stop", "done"},
             r = "stop" => why # None, DataHandle(r, why)
        PROVE  Flags'
    BY <1>17, Zenon DEF DataHandle, SetEndReason, None
  <1>18. CASE DataExit
    BY <1>18, Zenon DEF DataExit, SetEndReason
  <1>19. CASE DataSendStop
    BY <1>19, Zenon DEF DataSendStop, SendStop
  <1>20. ASSUME NEW l \in {0, lines + 1, DoneLine}, ScanLine(l) PROVE Flags'
    BY <1>20, Zenon DEF ScanLine, DoneLine, scanned
  <1>21. ASSUME NEW error \in BOOLEAN, ScanEnds(error) PROVE Flags'
    BY <1>21, Zenon DEF ScanEnds, SetEndReason, scanned
  <1>22. CASE ScanCheck
    BY <1>22, Zenon DEF ScanCheck, SetEndReason, TakeStop, StopReady, scanned
  <1>23. CASE ScanPut
    BY <1>23, Zenon DEF ScanPut, TakeStop, StopReady, scanned
  <1>24. CASE ScanExit
    BY <1>24, Zenon DEF ScanExit, scanned
  <1>25. CASE ScanSendStop
    BY <1>25, Zenon DEF ScanSendStop, SendStop, scanned
  <1>26. CASE ClientGoes
    BY <1>26, Zenon DEF ClientGoes
  <1>27. CASE UNCHANGED vars
    BY <1>27, Zenon DEF vars
  <1> HIDE DEF env, stops, queue
  <1> QED
    BY <1>1, <1>2, <1>3, <1>4, <1>5, <1>6, <1>7, <1>8, <1>9, <1>10, <1>11, <1>12, <1>13, <1>14,
       <1>15, <1>16, <1>17, <1>18, <1>19, <1>20, <1>21, <1>22, <1>23, <1>24, <1>25, <1>26, <1>27
    DEF Next, HandlerReturns, None

\* Every step keeps the values in their ranges and the queue within its capacity.
LEMMA ValuesStep ==
    ASSUME TypeOK, [Next]_vars
    PROVE  Values'
  <1> USE StreamAssumption DEF TypeOK, Values, Reasons, None, StopCap, env, stops, queue, log
  <1>1. CASE MainTimeout
    BY <1>1 DEF MainTimeout, leaveSelect, SetEndReason
  <1>2. CASE MainStop
    BY <1>2 DEF MainStop, leaveSelect, TakeStop, StopReady
  <1>3. CASE MainClientGone
    BY <1>3 DEF MainClientGone, leaveSelect, SetEndReason
  <1>4. CASE MainSendStop
    BY <1>4 DEF MainSendStop, SendStop
  <1>5. CASE MainWait
    BY <1>5 DEF MainWait, finish, DataIsDone, ScanIsDone
  <1>6. CASE MainWaitTimeout
    BY <1>6 DEF MainWaitTimeout, finish
  <1>7. CASE PingTick
    BY <1>7 DEF PingTick
  <1>8. CASE WriterLock
    BY <1>8 DEF WriterLock
  <1>9. ASSUME NEW failed \in BOOLEAN, PingData(failed) PROVE Values'
    BY <1>9 DEF PingData
  <1>10. CASE PingSent
    BY <1>10 DEF PingSent
  <1>11. CASE PingFails
    BY <1>11 DEF PingFails, pingEnds, SetEndReason
  <1>12. CASE PingStop
    BY <1>12 DEF PingStop, pingEnds, TakeStop, StopReady
  <1>13. CASE PingEnds
    BY <1>13 DEF PingEnds, pingEnds
  <1>14. CASE PingMaxDuration
    BY <1>14 DEF PingMaxDuration, pingEnds
  <1>15. CASE DataNext
    <2>1. dataChan' \in Seq(Nat) /\ Len(dataChan') <= DataCap /\ item' \in Nat
      <3>1. CASE dataChan' = dataChan /\ item' = item
        BY <3>1
      <3>2. CASE dataChan # <<>> /\ dataChan' = Tail(dataChan) /\ item' = Head(dataChan)
        <4>1. dataChan \in Seq(Nat) /\ Len(dataChan) <= DataCap
          OBVIOUS
        <4>2. /\ Len(dataChan) \in Nat /\ Head(dataChan) \in Nat
              /\ Tail(dataChan) \in Seq(Nat) /\ Len(Tail(dataChan)) <= Len(dataChan)
          BY <3>2, <4>1, QueueFacts
        <4>3. Len(Tail(dataChan)) \in Nat
          BY <4>2, QueueFacts
        <4> QED
          BY <3>2, <4>1, <4>2, <4>3
      <3> QED
        BY <1>15, <3>1, <3>2 DEF DataNext
    <2>2. /\ UNCHANGED <<main, ping, writer, scan, stopChan, writeMutex, reason, line,
                         lines, sent, handled, result>>
          /\ data' \in {"lock", "exit"}
      BY <1>15 DEF DataNext
    <2> QED
      BY <2>1, <2>2
  <1>16. CASE DataLock
    BY <1>16 DEF DataLock
  <1>17. ASSUME NEW r \in {"go", "stop", "panic"},
             NEW why \in {None, "handler_stop", "done"},
             r = "stop" => why # None, DataHandle(r, why)
        PROVE  Values'
    BY <1>17 DEF DataHandle, SetEndReason, None
  <1>18. CASE DataExit
    BY <1>18 DEF DataExit, SetEndReason
  <1>19. CASE DataSendStop
    BY <1>19 DEF DataSendStop, SendStop
  <1>20. ASSUME NEW l \in {0, lines + 1, DoneLine}, ScanLine(l) PROVE Values'
    BY <1>20 DEF ScanLine, DoneLine, scanned
  <1>21. ASSUME NEW error \in BOOLEAN, ScanEnds(error) PROVE Values'
    BY <1>21 DEF ScanEnds, SetEndReason, scanned
  <1>22. CASE ScanCheck
    BY <1>22 DEF ScanCheck, SetEndReason, TakeStop, StopReady, scanned
  <1>23. CASE ScanPut
    <2>1. dataChan' \in Seq(Nat) /\ Len(dataChan') <= DataCap
      <3>1. CASE dataChan' = dataChan
        BY <3>1
      <3>2. CASE Len(dataChan) < DataCap /\ dataChan' = Append(dataChan, line)
        <4>1. dataChan \in Seq(Nat) /\ line \in Nat
          OBVIOUS
        <4>2. /\ Append(dataChan, line) \in Seq(Nat)
              /\ Len(Append(dataChan, line)) = Len(dataChan) + 1
              /\ Len(dataChan) \in Nat
          BY <4>1, QueueFacts
        <4> QED
          BY <3>2, <4>1, <4>2
      <3> QED
        BY <1>23, <3>1, <3>2 DEF ScanPut
    <2>2. stopChan' \in 0..StopCap
      BY <1>23 DEF ScanPut, TakeStop, StopReady
    <2>3. /\ UNCHANGED <<main, ping, writer, data, writeMutex, reason, item, lines,
                         sent, handled, result>>
          /\ scan' \in {"scan", "exit"} /\ line' = 0
      BY <1>23 DEF ScanPut, scanned
    <2> QED
      BY <2>1, <2>2, <2>3
  <1>24. CASE ScanExit
    BY <1>24 DEF ScanExit, scanned
  <1>25. CASE ScanSendStop
    BY <1>25 DEF ScanSendStop, SendStop, scanned
  <1>26. CASE ClientGoes
    BY <1>26 DEF ClientGoes
  <1>27. CASE UNCHANGED vars
    BY <1>27 DEF vars
  <1> HIDE DEF TypeOK, Values, Reasons, StopCap, env, stops, queue, log
  <1> QED
    BY <1>1, <1>2, <1>3, <1>4, <1>5, <1>6, <1>7, <1>8, <1>9, <1>10, <1>11, <1>12, <1>13, <1>14,
       <1>15, <1>16, <1>17, <1>18, <1>19, <1>20, <1>21, <1>22, <1>23, <1>24, <1>25, <1>26, <1>27
    DEF Next, HandlerReturns, None

\* Both parts together.
LEMMA TypeStep ==
    ASSUME TypeOK, [Next]_vars
    PROVE  TypeOK'
  BY FlagsStep, ValuesStep, TypeSplit DEF TypeOK, Flags, Values

\* The variables keep their types and neither channel holds more than its
\* capacity, whatever the goroutines of StreamScannerHandler do.
THEOREM TypesHold == Spec => []TypeOK
  <1>1. Init => Flags
    BY DEF Init, Flags
  <1>2. Init => Values
    BY StreamAssumption DEF Init, Values, StopCap, Reasons, None
  <1> QED
    BY <1>1, <1>2, TypeSplit, TypeStep, PTL DEF Spec

-----------------------------------------------------------------------------
(* Stops and reasons *)

One(b) == IF b THEN 1 ELSE 0

\* The main loop, the data handler and the scanner each send at most one stop.
Tokens ==
    stopChan <= One(data = "ended") + One(scan = "ended") + One(main \in {"wait", "returned"})

\* A stop, a cancelled context, a closed channel or an ending goroutine always
\* comes after a reason.
Known ==
    /\ stopChan > 0 \/ stopClosed \/ cancelled \/ dataClosed => reason # None
    /\ main # "select" => reason # None
    /\ scan \in {"exit", "send", "ended"} => reason # None
    /\ data \in {"send", "ended"} => reason # None
    /\ data = "exit" => reason # None \/ result = "panic"

IInv == TypeOK /\ Tokens /\ Known

\* No step sends a second stop.
LEMMA TokensStep ==
    ASSUME TypeOK, Tokens, [Next]_vars
    PROVE  Tokens'
  <1>0. stopChan \in Nat
    BY DEF TypeOK, StopCap
  <1> USE <1>0 DEF Tokens, One, stops
  <1>1. CASE MainTimeout
    BY <1>1 DEF MainTimeout, leaveSelect, SetEndReason
  <1>2. CASE MainStop
    BY <1>2 DEF MainStop, leaveSelect, TakeStop, StopReady
  <1>3. CASE MainClientGone
    BY <1>3 DEF MainClientGone, leaveSelect, SetEndReason
  <1>4. CASE MainSendStop
    BY <1>4 DEF MainSendStop, SendStop
  <1>5. CASE MainWait
    BY <1>5 DEF MainWait, finish, DataIsDone, ScanIsDone
  <1>6. CASE MainWaitTimeout
    BY <1>6 DEF MainWaitTimeout, finish
  <1>7. CASE PingTick
    BY <1>7 DEF PingTick
  <1>8. CASE WriterLock
    BY <1>8 DEF WriterLock
  <1>9. ASSUME NEW failed \in BOOLEAN, PingData(failed) PROVE Tokens'
    BY <1>9 DEF PingData
  <1>10. CASE PingSent
    BY <1>10 DEF PingSent
  <1>11. CASE PingFails
    BY <1>11 DEF PingFails, pingEnds, SetEndReason
  <1>12. CASE PingStop
    BY <1>12 DEF PingStop, pingEnds, TakeStop, StopReady
  <1>13. CASE PingEnds
    BY <1>13 DEF PingEnds, pingEnds
  <1>14. CASE PingMaxDuration
    BY <1>14 DEF PingMaxDuration, pingEnds
  <1>15. CASE DataNext
    BY <1>15 DEF DataNext
  <1>16. CASE DataLock
    BY <1>16 DEF DataLock
  <1>17. ASSUME NEW r \in {"go", "stop", "panic"},
             NEW why \in {None, "handler_stop", "done"},
             r = "stop" => why # None, DataHandle(r, why)
        PROVE  Tokens'
    BY <1>17 DEF DataHandle, SetEndReason, None
  <1>18. CASE DataExit
    BY <1>18 DEF DataExit, SetEndReason
  <1>19. CASE DataSendStop
    BY <1>19 DEF DataSendStop, SendStop
  <1>20. ASSUME NEW l \in {0, lines + 1, DoneLine}, ScanLine(l) PROVE Tokens'
    BY <1>20 DEF ScanLine, DoneLine, scanned
  <1>21. ASSUME NEW error \in BOOLEAN, ScanEnds(error) PROVE Tokens'
    BY <1>21 DEF ScanEnds, SetEndReason, scanned
  <1>22. CASE ScanCheck
    BY <1>22 DEF ScanCheck, SetEndReason, TakeStop, StopReady, scanned
  <1>23. CASE ScanPut
    BY <1>23 DEF ScanPut, TakeStop, StopReady, scanned
  <1>24. CASE ScanExit
    BY <1>24 DEF ScanExit, scanned
  <1>25. CASE ScanSendStop
    BY <1>25 DEF ScanSendStop, SendStop, scanned
  <1>26. CASE ClientGoes
    BY <1>26 DEF ClientGoes
  <1>27. CASE UNCHANGED vars
    BY <1>27 DEF vars
  <1> HIDE DEF Tokens, One, stops
  <1> QED
    BY <1>1, <1>2, <1>3, <1>4, <1>5, <1>6, <1>7, <1>8, <1>9, <1>10, <1>11, <1>12, <1>13, <1>14,
       <1>15, <1>16, <1>17, <1>18, <1>19, <1>20, <1>21, <1>22, <1>23, <1>24, <1>25, <1>26, <1>27
    DEF Next, HandlerReturns, None

\* No step wakes anybody before the reason is recorded.
LEMMA KnownStep ==
    ASSUME TypeOK, Known, [Next]_vars
    PROVE  Known'
  <1>0. stopChan \in Nat
    BY DEF TypeOK, StopCap
  <1> USE <1>0 DEF Known, None, env, stops, queue
  <1>1. CASE MainTimeout
    BY <1>1 DEF MainTimeout, leaveSelect, SetEndReason
  <1>2. CASE MainStop
    BY <1>2 DEF MainStop, leaveSelect, TakeStop, StopReady
  <1>3. CASE MainClientGone
    BY <1>3 DEF MainClientGone, leaveSelect, SetEndReason
  <1>4. CASE MainSendStop
    BY <1>4 DEF MainSendStop, SendStop
  <1>5. CASE MainWait
    BY <1>5 DEF MainWait, finish, DataIsDone, ScanIsDone
  <1>6. CASE MainWaitTimeout
    BY <1>6 DEF MainWaitTimeout, finish
  <1>7. CASE PingTick
    BY <1>7 DEF PingTick
  <1>8. CASE WriterLock
    BY <1>8 DEF WriterLock
  <1>9. ASSUME NEW failed \in BOOLEAN, PingData(failed) PROVE Known'
    BY <1>9 DEF PingData
  <1>10. CASE PingSent
    BY <1>10 DEF PingSent
  <1>11. CASE PingFails
    BY <1>11 DEF PingFails, pingEnds, SetEndReason
  <1>12. CASE PingStop
    BY <1>12 DEF PingStop, pingEnds, TakeStop, StopReady
  <1>13. CASE PingEnds
    BY <1>13 DEF PingEnds, pingEnds
  <1>14. CASE PingMaxDuration
    BY <1>14 DEF PingMaxDuration, pingEnds
  <1>15. CASE DataNext
    BY <1>15 DEF DataNext
  <1>16. CASE DataLock
    BY <1>16 DEF DataLock
  <1>17. ASSUME NEW r \in {"go", "stop", "panic"},
             NEW why \in {None, "handler_stop", "done"},
             r = "stop" => why # None, DataHandle(r, why)
        PROVE  Known'
    BY <1>17 DEF DataHandle, SetEndReason, None
  <1>18. CASE DataExit
    BY <1>18 DEF DataExit, SetEndReason
  <1>19. CASE DataSendStop
    BY <1>19 DEF DataSendStop, SendStop
  <1>20. ASSUME NEW l \in {0, lines + 1, DoneLine}, ScanLine(l) PROVE Known'
    BY <1>20 DEF ScanLine, DoneLine, scanned
  <1>21. ASSUME NEW error \in BOOLEAN, ScanEnds(error) PROVE Known'
    BY <1>21 DEF ScanEnds, SetEndReason, scanned
  <1>22. CASE ScanCheck
    BY <1>22 DEF ScanCheck, SetEndReason, TakeStop, StopReady, scanned
  <1>23. CASE ScanPut
    BY <1>23 DEF ScanPut, TakeStop, StopReady, scanned
  <1>24. CASE ScanExit
    BY <1>24 DEF ScanExit, scanned
  <1>25. CASE ScanSendStop
    BY <1>25 DEF ScanSendStop, SendStop, scanned
  <1>26. CASE ClientGoes
    BY <1>26 DEF ClientGoes
  <1>27. CASE UNCHANGED vars
    BY <1>27 DEF vars
  <1> HIDE DEF Known, env, stops, queue
  <1> QED
    BY <1>1, <1>2, <1>3, <1>4, <1>5, <1>6, <1>7, <1>8, <1>9, <1>10, <1>11, <1>12, <1>13, <1>14,
       <1>15, <1>16, <1>17, <1>18, <1>19, <1>20, <1>21, <1>22, <1>23, <1>24, <1>25, <1>26, <1>27
    DEF Next, HandlerReturns, None

\* The inductive invariant.
LEMMA Inductive == Spec => []IInv
  <1>1. Init => Tokens /\ Known
    BY DEF Init, Tokens, One, Known, None
  <1>2. IInv /\ [Next]_vars => Tokens' /\ Known'
    BY TokensStep, KnownStep DEF IInv
  <1> QED
    BY <1>1, <1>2, TypesHold, PTL DEF Spec, IInv

\* The three places of stopChan are enough: no goroutine, and not the deferred
\* clean-up, ever waits for room in it.
THEOREM StopsNeverBlock == Spec => []StopNeverBlocks
  <1>1. IInv => StopNeverBlocks
    BY DEF IInv, TypeOK, Tokens, One, StopNeverBlocks, StopCap
  <1> QED
    BY <1>1, Inductive, PTL

\* The main loop never goes on without a reason for the end of the stream.
THEOREM ReasonsAreKnown == Spec => []ReasonIsKnown
  <1>1. IInv => ReasonIsKnown
    BY DEF IInv, Known, ReasonIsKnown
  <1> QED
    BY <1>1, Inductive, PTL

-----------------------------------------------------------------------------
(* Delivery *)

\* The line the data handler holds, and the data line the scanner holds.
Held == IF data \in {"lock", "handle"} THEN <<item>> ELSE <<>>
Coming == IF scan \in {"check", "put"} /\ line \in 1..MaxLines THEN <<line>> ELSE <<>>

\* Everything on its way from the upstream to dataHandler, oldest first.
Join(h, x, q, c) == ((h \o x) \o q) \o c
Stream == Join(handled, Held, dataChan, Coming)

\* As long as the scanner runs, nothing is missing; it stops running with a line
\* in its hand only when the stream will not be called complete.
Flow ==
    /\ scan \in {"scan", "check", "put"} => Stream = sent
    /\ result = "go" /\ reason \in {"done", "eof"} =>
         scan \notin {"scan", "check", "put"} /\ Stream = sent
    /\ data \in {"range", "lock", "handle"} => result = "go"
    /\ dataClosed => scan \in {"send", "ended"}
    /\ data \in {"exit", "send", "ended"} /\ result = "go" => dataClosed /\ dataChan = <<>>
    /\ main = "returned" /\ ~timedOut => data \in {"send", "ended"} /\ scan \in {"send", "ended"}
    /\ scan = "put" => line \in 1..MaxLines

\* Concatenation of sequences of lines.
LEMMA ConcatFacts ==
    ASSUME NEW s \in Seq(Nat), NEW t \in Seq(Nat), NEW n \in Nat
    PROVE  s \o t \in Seq(Nat) /\ s \o <<>> = s /\ s \o <<n>> = Append(s, n)
  OBVIOUS

\* It is associative.
LEMMA ConcatRegroups ==
    ASSUME NEW s \in Seq(Nat), NEW t \in Seq(Nat), NEW u \in Seq(Nat)
    PROVE  (s \o t) \o u = s \o (t \o u)
  BY ConcatAssociative

\* A line moves from the queue to the data handler.
LEMMA TakeMoves ==
    ASSUME NEW h \in Seq(Nat), NEW q \in Seq(Nat), NEW c, q # <<>>
    PROVE  Join(h, <<>>, q, c) = Join(h, <<Head(q)>>, Tail(q), c)
  <1>1. <<Head(q)>> \in Seq(Nat) /\ Tail(q) \in Seq(Nat) /\ <<Head(q)>> \o Tail(q) = q
    OBVIOUS
  <1>2. (h \o <<Head(q)>>) \o Tail(q) = h \o q
    BY <1>1, ConcatRegroups
  <1>3. h \o <<>> = h
    OBVIOUS
  <1> QED
    BY <1>2, <1>3, Zenon DEF Join

\* It moves from there to dataHandler.
LEMMA HandleMoves ==
    ASSUME NEW h \in Seq(Nat), NEW q, NEW c, NEW n \in Nat
    PROVE  Join(h, <<n>>, q, c) = Join(Append(h, n), <<>>, q, c)
  <1>1. h \o <<n>> = Append(h, n) /\ Append(h, n) \o <<>> = Append(h, n)
    OBVIOUS
  <1> QED
    BY <1>1, Zenon DEF Join

\* It moves from the scanner to the queue; a new one arrives at the end.
LEMMA PutMoves ==
    ASSUME NEW h \in Seq(Nat), NEW x \in Seq(Nat), NEW q \in Seq(Nat), NEW n \in Nat
    PROVE  /\ Join(h, x, q, <<n>>) = Join(h, x, Append(q, n), <<>>)
           /\ Join(h, x, q, <<n>>) = Append(Join(h, x, q, <<>>), n)
  <1> DEFINE y == h \o x
  <1>1. y \in Seq(Nat) /\ <<n>> \in Seq(Nat)
    OBVIOUS
  <1>2. q \o <<n>> = Append(q, n) /\ Append(q, n) \in Seq(Nat)
    OBVIOUS
  <1> HIDE DEF y
  <1>3. (y \o q) \o <<n>> = y \o Append(q, n)
    <2>1. (y \o q) \o <<n>> = y \o (q \o <<n>>)
      BY <1>1, ConcatRegroups
    <2> QED
      BY <1>2, <2>1
  <1>4. y \o q \in Seq(Nat) /\ y \o Append(q, n) \in Seq(Nat)
    BY <1>1, <1>2
  <1>5. /\ (y \o Append(q, n)) \o <<>> = y \o Append(q, n)
        /\ (y \o q) \o <<>> = y \o q
        /\ (y \o q) \o <<n>> = Append(y \o q, n)
    BY <1>4, ConcatFacts
  <1> QED
    BY <1>3, <1>5, Zenon DEF Join, y

\* A new line arrives at the end.
LEMMA LineArrives ==
    ASSUME NEW h \in Seq(Nat), NEW x \in Seq(Nat), NEW q \in Seq(Nat), NEW n \in Nat
    PROVE  Join(h, x, q, <<n>>) = Append(Join(h, x, q, <<>>), n)
  BY PutMoves, Zenon

\* Nothing else is left.
LEMMA JoinOfHandled == ASSUME NEW h \in Seq(Nat) PROVE Join(h, <<>>, <<>>, <<>>) = h
  <1>1. h \o <<>> = h
    OBVIOUS
  <1> QED
    BY <1>1, Zenon DEF Join

\* A step that touches neither the lines nor their owners.
Aside ==
    /\ UNCHANGED <<handled, item, data, dataChan, dataClosed, scan, line, sent, result>>
    /\ reason' = reason \/ reason' \notin {"done", "eof"}
    /\ main' = "returned" /\ ~timedOut' =>
         \/ main = "returned" /\ ~timedOut
         \/ data \in {"send", "ended"} /\ scan \in {"send", "ended"}

\* Such a step keeps the flow.
LEMMA AsideKeeps ==
    ASSUME Flow, Aside
    PROVE  Flow'
  <1>1. Stream' = Stream
    BY DEF Aside, Stream, Held, Coming
  <1> QED
    BY <1>1 DEF Aside, Flow

\* Every step keeps the flow.
LEMMA FlowStep ==
    ASSUME TypeOK, Flow, [Next]_vars
    PROVE  Flow'
  <1>0. /\ handled \in Seq(Nat) /\ dataChan \in Seq(Nat) /\ sent \in Seq(Nat)
        /\ item \in Nat /\ line \in Nat /\ lines \in Nat
        /\ Held \in Seq(Nat) /\ Coming \in Seq(Nat)
    <2>1. /\ handled \in Seq(Nat) /\ dataChan \in Seq(Nat) /\ sent \in Seq(Nat)
          /\ item \in Nat /\ line \in Nat /\ lines \in Nat
      BY DEF TypeOK
    <2>2. Held \in Seq(Nat)
      BY <2>1 DEF Held
    <2>3. Coming \in Seq(Nat)
      BY <2>1 DEF Coming
    <2> QED
      BY <2>1, <2>2, <2>3
  <1> USE DEF env, stops, queue, log
  <1>1. CASE MainTimeout
    <2>1. Aside
      BY <1>1 DEF Aside, MainTimeout, leaveSelect, SetEndReason
    <2> QED
      BY <2>1, AsideKeeps
  <1>2. CASE MainStop
    <2>1. Aside
      BY <1>2 DEF Aside, MainStop, leaveSelect, TakeStop, StopReady
    <2> QED
      BY <2>1, AsideKeeps
  <1>3. CASE MainClientGone
    <2>1. Aside
      BY <1>3 DEF Aside, MainClientGone, leaveSelect, SetEndReason
    <2> QED
      BY <2>1, AsideKeeps
  <1>4. CASE MainSendStop
    <2>1. Aside
      BY <1>4 DEF Aside, MainSendStop, SendStop
    <2> QED
      BY <2>1, AsideKeeps
  <1>5. CASE MainWait
    <2>1. Aside
      BY <1>5 DEF Aside, MainWait, finish, DataIsDone, ScanIsDone
    <2> QED
      BY <2>1, AsideKeeps
  <1>6. CASE MainWaitTimeout
    <2>1. Aside
      BY <1>6 DEF Aside, MainWaitTimeout, finish
    <2> QED
      BY <2>1, AsideKeeps
  <1>7. CASE PingTick
    <2>1. Aside
      BY <1>7 DEF Aside, PingTick
    <2> QED
      BY <2>1, AsideKeeps
  <1>8. CASE WriterLock
    <2>1. Aside
      BY <1>8 DEF Aside, WriterLock
    <2> QED
      BY <2>1, AsideKeeps
  <1>9. ASSUME NEW failed \in BOOLEAN, PingData(failed) PROVE Flow'
    <2>1. Aside
      BY <1>9 DEF Aside, PingData
    <2> QED
      BY <2>1, AsideKeeps
  <1>10. CASE PingSent
    <2>1. Aside
      BY <1>10 DEF Aside, PingSent
    <2> QED
      BY <2>1, AsideKeeps
  <1>11. CASE PingFails
    <2>1. Aside
      BY <1>11 DEF Aside, PingFails, pingEnds, SetEndReason
    <2> QED
      BY <2>1, AsideKeeps
  <1>12. CASE PingStop
    <2>1. Aside
      BY <1>12 DEF Aside, PingStop, pingEnds, TakeStop, StopReady
    <2> QED
      BY <2>1, AsideKeeps
  <1>13. CASE PingEnds
    <2>1. Aside
      BY <1>13 DEF Aside, PingEnds, pingEnds
    <2> QED
      BY <2>1, AsideKeeps
  <1>14. CASE PingMaxDuration
    <2>1. Aside
      BY <1>14 DEF Aside, PingMaxDuration, pingEnds
    <2> QED
      BY <2>1, AsideKeeps
  <1>15. CASE DataNext
    <2>1. CASE dataChan # <<>> /\ data' = "lock"
      <3>1. Held = <<>> /\ Held' = <<Head(dataChan)>> /\ Coming' = Coming
        BY <1>15, <2>1 DEF DataNext, Held, Coming
      <3>2. handled' = handled /\ dataChan' = Tail(dataChan)
        BY <1>15, <2>1 DEF DataNext
      <3>3. Stream' = Stream
        BY <1>0, <2>1, <3>1, <3>2, TakeMoves DEF Stream
      <3> QED
        BY <1>15, <2>1, <3>3 DEF DataNext, Flow
    <2>2. CASE dataChan = <<>> /\ dataClosed /\ data' = "exit"
      <3>1. Held = <<>> /\ Held' = <<>> /\ Coming' = Coming
        BY <1>15, <2>2 DEF DataNext, Held, Coming
      <3>2. Stream' = Stream
        BY <1>15, <2>2, <3>1 DEF DataNext, Stream
      <3> QED
        BY <1>15, <2>2, <3>2 DEF DataNext, Flow
    <2> QED
      BY <1>15, <2>1, <2>2 DEF DataNext
  <1>16. CASE DataLock
    <2>1. Stream' = Stream
      BY <1>16 DEF DataLock, Stream, Held, Coming
    <2> QED
      BY <1>16, <2>1 DEF DataLock, Flow
  <1>17. ASSUME NEW r \in {"go", "stop", "panic"},
             NEW why \in {None, "handler_stop", "done"},
             r = "stop" => why # None, DataHandle(r, why)
        PROVE  Flow'
    <2>1. Held = <<item>> /\ Held' = <<>> /\ Coming' = Coming
      BY <1>17 DEF DataHandle, Held, Coming
    <2>2. handled' = Append(handled, item) /\ dataChan' = dataChan
      BY <1>17 DEF DataHandle
    <2>3. Stream' = Stream
      BY <1>0, <2>1, <2>2, HandleMoves DEF Stream
    <2>4. /\ UNCHANGED <<scan, line, sent, dataClosed, main, timedOut>>
          /\ data = "handle" /\ result' = r
          /\ data' = IF r = "go" THEN "range" ELSE "exit"
          /\ r # "stop" => reason' = reason
      BY <1>17 DEF DataHandle
    <2> QED
      BY <1>17, <2>3, <2>4 DEF Flow
  <1>18. CASE DataExit
    <2>1. Stream' = Stream
      BY <1>18 DEF DataExit, Stream, Held, Coming
    <2> QED
      BY <1>18, <2>1 DEF DataExit, SetEndReason, Flow
  <1>19. CASE DataSendStop
    <2>1. Stream' = Stream
      BY <1>19 DEF DataSendStop, Stream, Held, Coming
    <2> QED
      BY <1>19, <2>1 DEF DataSendStop, Flow
  <1>20. ASSUME NEW l \in {0, lines + 1, DoneLine}, ScanLine(l) PROVE Flow'
    <2>1. /\ scan = "scan" /\ scan' = "check" /\ line' = l
          /\ sent' = IF l \in 1..MaxLines THEN Append(sent, l) ELSE sent
          /\ UNCHANGED <<handled, item, data, dataChan, dataClosed, result, reason, main, timedOut>>
      BY <1>20 DEF ScanLine, scanned
    <2>2. Coming = <<>> /\ Held' = Held
      BY <2>1 DEF Coming, Held
    <2>3. Stream' = sent'
      <3>1. CASE l \in 1..MaxLines
        <4>1. Coming' = <<l>> /\ l \in Nat
          BY <2>1, <3>1, StreamAssumption DEF Coming
        <4>2. Stream = Join(handled, Held, dataChan, <<>>)
          BY <2>2, Zenon DEF Stream
        <4>3. Stream' = Join(handled, Held, dataChan, <<l>>)
          BY <2>1, <2>2, <4>1, Zenon DEF Stream
        <4>4. Join(handled, Held, dataChan, <<l>>) = Append(Join(handled, Held, dataChan, <<>>), l)
          <5>1. handled \in Seq(Nat) /\ Held \in Seq(Nat) /\ dataChan \in Seq(Nat) /\ l \in Nat
            BY <1>0, <4>1
          <5> QED
            BY <5>1, LineArrives
        <4>5. Stream' = Append(Stream, l)
          BY <4>2, <4>3, <4>4, Zenon
        <4> QED
          BY <2>1, <3>1, <4>5 DEF Flow
      <3>2. CASE l \notin 1..MaxLines
        <4>1. Coming' = <<>>
          BY <2>1, <3>2 DEF Coming
        <4> QED
          BY <2>1, <2>2, <3>2, <4>1 DEF Flow, Stream
      <3> QED
        BY <3>1, <3>2
    <2> QED
      BY <2>1, <2>3 DEF Flow
  <1>21. ASSUME NEW error \in BOOLEAN, ScanEnds(error) PROVE Flow'
    <2>1. Stream' = Stream
      BY <1>21 DEF ScanEnds, scanned, Stream, Held, Coming
    <2> QED
      BY <1>21, <2>1 DEF ScanEnds, SetEndReason, scanned, None, Flow
  <1>22. CASE ScanCheck
    <2>1. /\ scan = "check"
          /\ UNCHANGED <<handled, item, data, dataChan, dataClosed, result, main, timedOut, sent>>
          /\ Held' = Held
      BY <1>22 DEF ScanCheck, scanned, Held
    <2>2. CASE scan' = "scan" \/ scan' = "put"
      <3>1. /\ reason' = reason
            /\ scan' = "scan" => line = 0
            /\ scan' = "put" => line \in 1..MaxLines /\ line' = line
        BY <1>22, <2>2 DEF ScanCheck
      <3>2. Coming' = Coming
        BY <2>1, <2>2, <3>1 DEF Coming
      <3>3. Stream' = Stream
        BY <2>1, <3>2 DEF Stream
      <3> QED
        BY <2>1, <2>2, <3>1, <3>3 DEF Flow
    <2>3. CASE scan' = "exit" /\ (reason' = reason \/ reason' \notin {"done", "eof"})
      BY <2>1, <2>3 DEF Flow
    <2>4. CASE scan' = "exit" /\ line = DoneLine
      <3>1. Coming = <<>> /\ Coming' = <<>>
        BY <2>1, <2>4, StreamAssumption DEF Coming, DoneLine
      <3>2. Stream' = Stream
        BY <2>1, <3>1 DEF Stream
      <3> QED
        BY <2>1, <2>4, <3>2 DEF Flow
    <2> QED
      BY <1>22, <2>2, <2>3, <2>4 DEF ScanCheck, SetEndReason
  <1>23. CASE ScanPut
    <2>1. /\ scan = "put" /\ line \in 1..MaxLines
          /\ UNCHANGED <<handled, item, data, dataClosed, result, main, timedOut, sent, reason>>
          /\ Held' = Held
      BY <1>23 DEF ScanPut, scanned, Held, Flow
    <2>2. CASE dataChan' = Append(dataChan, line) /\ scan' = "scan"
      <3>1. Coming = <<line>> /\ Coming' = <<>>
        BY <2>1, <2>2 DEF Coming
      <3>2. Stream = Join(handled, Held, dataChan, <<line>>)
        BY <3>1, Zenon DEF Stream
      <3>3. Stream' = Join(handled, Held, Append(dataChan, line), <<>>)
        BY <2>1, <2>2, <3>1, Zenon DEF Stream
      <3>4. Join(handled, Held, dataChan, <<line>>) = Join(handled, Held, Append(dataChan, line), <<>>)
        BY <1>0, PutMoves
      <3>5. Stream' = Stream
        BY <3>2, <3>3, <3>4, Zenon
      <3> QED
        BY <2>1, <2>2, <3>5 DEF Flow
    <2>3. CASE dataChan' = dataChan /\ scan' = "exit"
      BY <2>1, <2>3 DEF Flow
    <2> QED
      BY <1>23, <2>2, <2>3 DEF ScanPut
  <1>24. CASE ScanExit
    <2>1. Stream' = Stream
      BY <1>24 DEF ScanExit, scanned, Stream, Held, Coming
    <2> QED
      BY <1>24, <2>1 DEF ScanExit, scanned, Flow
  <1>25. CASE ScanSendStop
    <2>1. Stream' = Stream
      BY <1>25 DEF ScanSendStop, scanned, Stream, Held, Coming
    <2> QED
      BY <1>25, <2>1 DEF ScanSendStop, scanned, Flow
  <1>26. CASE ClientGoes
    <2>1. Aside
      BY <1>26 DEF Aside, ClientGoes
    <2> QED
      BY <2>1, AsideKeeps
  <1>27. CASE UNCHANGED vars
    <2>1. Aside
      BY <1>27 DEF Aside, vars
    <2> QED
      BY <2>1, AsideKeeps
  <1> HIDE DEF env, stops, queue, log
  <1> QED
    BY <1>1, <1>2, <1>3, <1>4, <1>5, <1>6, <1>7, <1>8, <1>9, <1>10, <1>11, <1>12, <1>13, <1>14,
       <1>15, <1>16, <1>17, <1>18, <1>19, <1>20, <1>21, <1>22, <1>23, <1>24, <1>25, <1>26, <1>27
    DEF Next, HandlerReturns, None

\* A stream that ended with [DONE] or at the end of the body reaches dataHandler
\* completely and in order before StreamScannerHandler returns, unless it gave up
\* waiting or dataHandler itself ended the stream.
THEOREM NothingIsLost == Spec => []NothingLost
  <1>1. Init => Flow
    <2> SUFFICES ASSUME Init PROVE Flow
      OBVIOUS
    <2>1. Held = <<>> /\ Coming = <<>> /\ handled = <<>> /\ dataChan = <<>> /\ sent = <<>>
      BY DEF Init, Held, Coming
    <2>2. Stream = sent
      <3>1. <<>> \in Seq(Nat)
        OBVIOUS
      <3>2. Stream = Join(<<>>, <<>>, <<>>, <<>>)
        BY <2>1, Zenon DEF Stream
      <3> QED
        BY <2>1, <3>1, <3>2, JoinOfHandled, Zenon
    <2> QED
      BY <2>2 DEF Init, Flow, None
  <1>2. TypeOK /\ Flow => NothingLost
    <2> SUFFICES ASSUME TypeOK, Flow, main = "returned", ~timedOut, result = "go",
                        reason \in {"done", "eof"}
                 PROVE  handled = sent
      BY DEF NothingLost
    <2>1. data \in {"send", "ended"} /\ scan \in {"send", "ended"} /\ Stream = sent
      BY DEF Flow
    <2>2. Held = <<>> /\ Coming = <<>> /\ dataChan = <<>> /\ handled \in Seq(Nat)
      BY <2>1 DEF Flow, Held, Coming, TypeOK
    <2> QED
      BY <2>1, <2>2, JoinOfHandled DEF Stream
  <1> QED
    BY <1>1, <1>2, FlowStep, TypesHold, PTL DEF Spec
=============================================================================
