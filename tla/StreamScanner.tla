---------------------------- MODULE StreamScanner ----------------------------
(***************************************************************************)
(* StreamScannerHandler (relay/helper/stream_scanner.go): one streamed     *)
(* answer of an upstream is read line by line and handed to the client.    *)
(* Four goroutines take part: the handler itself (main), the scanner, the  *)
(* data handler and, if enabled, the ping, which has every ping written by *)
(* a short-lived goroutine of its own (the writer).  They share two        *)
(* buffered channels, a mutex, a context and a wait group.                 *)
(*                                                                         *)
(* A goroutine's step goes from one operation another one can observe to   *)
(* the next.  The upstream, the client and the clock are the environment:  *)
(* a timer may fire whenever somebody waits for it.  What a line says is   *)
(* left out except for what the scanner tells apart: data lines are        *)
(* numbered, a skipped line is 0 and [DONE] is DoneLine.                   *)
(***************************************************************************)
EXTENDS Naturals, Sequences

CONSTANTS
    DataCap,      \* capacity of dataChan (10)
    MaxLines      \* bound on the lines the upstream sends

ASSUME StreamAssumption ==
    /\ DataCap \in Nat \ {0}
    /\ MaxLines \in Nat

\* Mutant: one place short.
StopCapTwo == 2

\* Capacity of stopChan.
StopCap == 3

DoneLine == MaxLines + 1

None == "none"    \* StreamEndReasonNone

VARIABLES
    pingEnabled,  \* chosen when the handler starts
    main,         \* "select", "send" (of the stop), "wait" or "returned"
    ping,         \* "idle", "sending" or "ended"
    writer,       \* the ping being written: "none", "waiting", "writing", or its
                  \* result in the channel done: "ok" or "failed"
    data,         \* "range", "lock", "handle", "exit", "send" or "ended"
    scan,         \* "scan", "check", "put", "exit", "send" or "ended"
    stopChan,     \* tokens in stopChan
    stopClosed,   \* close(stopChan) was called; the body is closed right after
    dataChan,     \* contents of dataChan
    dataClosed,   \* close(dataChan) was called
    writeMutex,   \* "free", or held by "data" or "writer"
    cancelled,    \* ctx is cancelled
    clientGone,   \* c.Request.Context() is done
    reason,       \* info.StreamStatus.EndReason
    line,         \* the line the scanner holds, or 0
    item,         \* the data the data handler holds, or 0
    lines,        \* lines scanned, [DONE] aside
    sent,         \* data lines scanned, in order
    handled,      \* data lines dataHandler was called with, in order
    result,       \* what dataHandler last asked for: "go", "stop" or "panic"
    timedOut      \* main gave up waiting for the goroutines

env   == <<pingEnabled, clientGone>>
stops == <<stopChan, stopClosed>>
queue == <<dataChan, dataClosed>>
log   == <<sent, handled>>
vars  == <<env, main, ping, writer, data, scan, stops, queue, writeMutex,
           cancelled, reason, line, item, lines, log, result, timedOut>>

Reasons == {None, "done", "timeout", "client_gone", "scanner_error",
            "handler_stop", "eof", "panic", "ping_fail"}

TypeOK ==
    /\ pingEnabled \in BOOLEAN /\ clientGone \in BOOLEAN
    /\ main \in {"select", "send", "wait", "returned"}
    /\ ping \in {"idle", "sending", "ended"}
    /\ writer \in {"none", "waiting", "writing", "ok", "failed"}
    /\ data \in {"range", "lock", "handle", "exit", "send", "ended"}
    /\ scan \in {"scan", "check", "put", "exit", "send", "ended"}
    /\ stopChan \in 0..StopCap /\ stopClosed \in BOOLEAN
    /\ dataChan \in Seq(Nat) /\ Len(dataChan) <= DataCap /\ dataClosed \in BOOLEAN
    /\ writeMutex \in {"free", "data", "writer"}
    /\ cancelled \in BOOLEAN /\ timedOut \in BOOLEAN
    /\ reason \in Reasons
    /\ line \in Nat /\ item \in Nat /\ lines \in Nat
    /\ sent \in Seq(Nat) /\ handled \in Seq(Nat)
    /\ result \in {"go", "stop", "panic"}

Init ==
    /\ pingEnabled \in BOOLEAN /\ clientGone = FALSE
    /\ main = "select"
    /\ ping = (IF pingEnabled THEN "idle" ELSE "ended") /\ writer = "none"
    /\ data = "range" /\ scan = "scan"
    /\ stopChan = 0 /\ stopClosed = FALSE
    /\ dataChan = <<>> /\ dataClosed = FALSE
    /\ writeMutex = "free" /\ cancelled = FALSE
    /\ reason = None
    /\ line = 0 /\ item = 0 /\ lines = 0
    /\ sent = <<>> /\ handled = <<>> /\ result = "go"
    /\ timedOut = FALSE

-----------------------------------------------------------------------------
(* Shared objects *)

\* SetEndReason: the first reason stays (endOnce).
SetEndReason(r) == reason' = IF reason = None THEN r ELSE reason

\* A receive from stopChan: a token, or at once when the channel is closed.
StopReady == stopChan > 0 \/ stopClosed
TakeStop ==
    /\ StopReady
    /\ stopChan' = IF stopChan > 0 THEN stopChan - 1 ELSE 0
    /\ UNCHANGED stopClosed

\* SafeSendBool: waits for room; on a closed channel the panic is recovered.
SendStop ==
    /\ stopClosed \/ stopChan < StopCap
    /\ stopChan' = IF stopClosed THEN stopChan ELSE stopChan + 1
    /\ UNCHANGED stopClosed

\* The goroutines of the wait group that have called wg.Done.
DataIsDone == data \in {"send", "ended"}
ScanIsDone == scan \in {"send", "ended"}

-----------------------------------------------------------------------------
(* The handler *)

\* The select of the main loop, then the deferred cancel().
leaveSelect ==
    /\ main = "select" /\ main' = "send"
    /\ cancelled' = TRUE
    /\ UNCHANGED <<env, ping, writer, data, scan, queue, writeMutex, line, item,
                   lines, log, result, timedOut>>

\* No line came for the streaming timeout.
MainTimeout == leaveSelect /\ SetEndReason("timeout") /\ UNCHANGED stops

\* A goroutine sent the stop.
MainStop == leaveSelect /\ TakeStop /\ UNCHANGED reason

\* The client went away.
MainClientGone ==
    leaveSelect /\ clientGone /\ SetEndReason("client_gone") /\ UNCHANGED stops

\* The deferred clean-up: the stop for the others.
MainSendStop ==
    /\ main = "send" /\ main' = "wait"
    /\ SendStop
    /\ UNCHANGED <<env, ping, writer, data, scan, queue, writeMutex, cancelled,
                   reason, line, item, lines, log, result, timedOut>>

\* It waits for the wait group or 5 s, closes stopChan, and the body is closed.
finish(gaveUp) ==
    /\ main = "wait" /\ main' = "returned"
    /\ timedOut' = gaveUp
    /\ stopClosed' = TRUE
    /\ UNCHANGED <<env, ping, writer, data, scan, stopChan, queue, writeMutex,
                   cancelled, reason, line, item, lines, log, result>>

MainWait == ping = "ended" /\ DataIsDone /\ ScanIsDone /\ finish(FALSE)
MainWaitTimeout == finish(TRUE)

-----------------------------------------------------------------------------
(* The ping *)

\* pingTicker: a new goroutine writes the ping.  A tick may still be in the
\* ticker's channel after the ticker was stopped.
PingTick ==
    /\ main # "returned"
    /\ ping = "idle" /\ ping' = "sending"
    /\ writer' = "waiting"
    /\ UNCHANGED <<env, main, data, scan, stops, queue, writeMutex, cancelled,
                   reason, line, item, lines, log, result, timedOut>>

WriterLock ==
    /\ writer = "waiting" /\ writer' = "writing"
    /\ writeMutex = "free" /\ writeMutex' = "writer"
    /\ UNCHANGED <<env, main, ping, data, scan, stops, queue, cancelled, reason,
                   line, item, lines, log, result, timedOut>>

\* PingData fails when the client is gone or the write fails.  The result goes
\* into a channel with room for it, whether or not the ping still waits.
PingData(failed) ==
    /\ writer = "writing"
    /\ clientGone => failed
    /\ writer' = IF ping # "sending" THEN "none"
                 ELSE IF failed THEN "failed" ELSE "ok"
    /\ writeMutex' = "free"
    /\ UNCHANGED <<env, main, ping, data, scan, stops, queue, cancelled, reason,
                   line, item, lines, log, result, timedOut>>

pingEnds ==
    /\ ping' = "ended"
    /\ writer' = IF writer \in {"ok", "failed"} THEN "none" ELSE writer
    /\ UNCHANGED <<env, main, data, scan, queue, writeMutex, cancelled, line, item,
                   lines, log, result, timedOut>>

PingSent ==
    /\ ping = "sending" /\ writer = "ok"
    /\ ping' = "idle" /\ writer' = "none"
    /\ UNCHANGED <<env, main, data, scan, stops, queue, writeMutex, cancelled,
                   reason, line, item, lines, log, result, timedOut>>

\* The write failed, or the 10 s were over (a result that came just then may be
\* passed over): the ping ends, the stream goes on.
PingFails ==
    /\ ping = "sending"
    /\ pingEnds /\ SetEndReason("ping_fail") /\ UNCHANGED stops

\* The ping takes a stop from stopChan.
PingStop ==
    /\ ping # "ended" /\ TakeStop
    /\ pingEnds /\ UNCHANGED reason

\* The context is cancelled, or the client goes away between two pings.
PingEnds ==
    /\ \/ ping # "ended" /\ cancelled
       \/ ping = "idle" /\ clientGone
    /\ pingEnds /\ UNCHANGED <<stops, reason>>

\* pingTimeout: no ping goroutine lives longer than 30 minutes.
PingMaxDuration ==
    /\ ping = "idle"
    /\ pingEnds /\ UNCHANGED <<stops, reason>>

-----------------------------------------------------------------------------
(* The data handler *)

\* Mutant: the data handler stops with the context.
DataNextStopsWithContext ==
    /\ data = "range"
    /\ \/ /\ dataChan # <<>> /\ ~cancelled
          /\ item' = Head(dataChan) /\ dataChan' = Tail(dataChan)
          /\ data' = "lock"
       \/ /\ cancelled \/ (dataChan = <<>> /\ dataClosed)
          /\ data' = "exit" /\ UNCHANGED <<item, dataChan>>
    /\ UNCHANGED <<env, main, ping, writer, scan, stops, dataClosed, writeMutex,
                   cancelled, reason, line, lines, log, result, timedOut>>

\* for data := range dataChan: until the channel is closed and empty.
DataNext ==
    /\ data = "range"
    /\ \/ /\ dataChan # <<>>
          /\ item' = Head(dataChan) /\ dataChan' = Tail(dataChan)
          /\ data' = "lock"
       \/ /\ dataChan = <<>> /\ dataClosed
          /\ data' = "exit" /\ UNCHANGED <<item, dataChan>>
    /\ UNCHANGED <<env, main, ping, writer, scan, stops, dataClosed, writeMutex,
                   cancelled, reason, line, lines, log, result, timedOut>>

DataLock ==
    /\ data = "lock" /\ data' = "handle"
    /\ writeMutex = "free" /\ writeMutex' = "data"
    /\ UNCHANGED <<env, main, ping, writer, scan, stops, queue, cancelled, reason,
                   line, item, lines, log, result, timedOut>>

\* dataHandler returns, having called sr.Stop, sr.Done or neither; or it panics,
\* and then nobody unlocks the mutex.
DataHandle(r, why) ==
    /\ data = "handle"
    /\ result' = r /\ handled' = Append(handled, item) /\ item' = 0
    /\ data' = IF r = "go" THEN "range" ELSE "exit"
    /\ writeMutex' = IF r = "panic" THEN writeMutex ELSE "free"
    /\ IF r = "stop" THEN SetEndReason(why) ELSE UNCHANGED reason
    /\ UNCHANGED <<env, main, ping, writer, scan, stops, queue, cancelled, line,
                   lines, sent, timedOut>>

\* Mutant: a panic of dataHandler is not recorded.
DataExitSilent ==
    /\ data = "exit" /\ data' = "send"
    /\ UNCHANGED <<env, main, ping, writer, scan, stops, queue, writeMutex,
                   cancelled, reason, line, item, lines, log, result, timedOut>>

\* The deferred function: wg.Done, and the recover of a panic.
DataExit ==
    /\ data = "exit" /\ data' = "send"
    /\ IF result = "panic" THEN SetEndReason("panic") ELSE UNCHANGED reason
    /\ UNCHANGED <<env, main, ping, writer, scan, stops, queue, writeMutex,
                   cancelled, line, item, lines, log, result, timedOut>>

\* Mutant: only a panic is passed on; the end of the channel is the scanner's.
DataSendStopOnPanic ==
    /\ data = "send" /\ data' = "ended"
    /\ IF result = "go" THEN UNCHANGED stops ELSE SendStop
    /\ UNCHANGED <<env, main, ping, writer, scan, queue, writeMutex, cancelled,
                   reason, line, item, lines, log, result, timedOut>>

\* The stop the data handler sends, however it ended.
DataSendStop ==
    /\ data = "send" /\ data' = "ended"
    /\ SendStop
    /\ UNCHANGED <<env, main, ping, writer, scan, queue, writeMutex, cancelled,
                   reason, line, item, lines, log, result, timedOut>>

-----------------------------------------------------------------------------
(* The scanner *)

scanned == <<env, main, ping, writer, data, writeMutex, cancelled, item, handled,
             result, timedOut>>

\* scanner.Scan() returns a line: data, one that is skipped, or [DONE].
ScanLine(l) ==
    /\ scan = "scan" /\ scan' = "check"
    /\ lines < MaxLines \/ l = DoneLine
    /\ line' = l
    /\ lines' = IF l = DoneLine THEN lines ELSE lines + 1
    /\ sent' = IF l \in 1..MaxLines THEN Append(sent, l) ELSE sent
    /\ UNCHANGED <<scanned, stops, queue, reason>>

\* scanner.Scan() returns false, with or without an error of the body.
ScanEnds(error) ==
    /\ scan = "scan" /\ scan' = "exit"
    /\ SetEndReason(IF error THEN "scanner_error" ELSE "eof")
    /\ UNCHANGED <<scanned, stops, queue, line, lines, sent>>

\* The select before a line is looked at: its default is taken only if no other
\* case is ready.
ScanCheck ==
    /\ scan = "check"
    /\ \/ TakeStop /\ scan' = "exit" /\ UNCHANGED reason
       \/ cancelled /\ scan' = "exit" /\ UNCHANGED <<stops, reason>>
       \/ /\ clientGone /\ scan' = "exit"
          /\ SetEndReason("client_gone") /\ UNCHANGED stops
       \/ /\ ~StopReady /\ ~cancelled /\ ~clientGone
          /\ UNCHANGED stops
          /\ \/ line = 0 /\ scan' = "scan" /\ UNCHANGED reason
             \/ line = DoneLine /\ scan' = "exit" /\ SetEndReason("done")
             \/ line \in 1..MaxLines /\ scan' = "put" /\ UNCHANGED reason
    /\ line' = IF scan' = "put" THEN line ELSE 0
    /\ UNCHANGED <<scanned, queue, lines, sent>>

\* Mutant: a send that does not listen to the context or the stop.
ScanPutBlocks ==
    /\ scan = "put"
    /\ Len(dataChan) < DataCap
    /\ dataChan' = Append(dataChan, line) /\ scan' = "scan" /\ line' = 0
    /\ UNCHANGED <<scanned, stops, dataClosed, reason, lines, sent>>

\* The send to dataChan, given up on the context or a stop.
ScanPut ==
    /\ scan = "put"
    /\ \/ /\ Len(dataChan) < DataCap
          /\ dataChan' = Append(dataChan, line) /\ scan' = "scan"
          /\ UNCHANGED stops
       \/ cancelled /\ scan' = "exit" /\ UNCHANGED <<stops, dataChan>>
       \/ TakeStop /\ scan' = "exit" /\ UNCHANGED dataChan
    /\ line' = 0
    /\ UNCHANGED <<scanned, dataClosed, reason, lines, sent>>

\* The deferred function: close(dataChan) and wg.Done.
ScanExit ==
    /\ scan = "exit" /\ scan' = "send"
    /\ dataClosed' = TRUE
    /\ UNCHANGED <<scanned, stops, dataChan, reason, line, lines, sent>>

ScanSendStop ==
    /\ scan = "send" /\ scan' = "ended"
    /\ SendStop
    /\ UNCHANGED <<scanned, queue, reason, line, lines, sent>>

-----------------------------------------------------------------------------

\* The client closes the connection.
ClientGoes ==
    /\ ~clientGone /\ clientGone' = TRUE
    /\ UNCHANGED <<pingEnabled, main, ping, writer, data, scan, stops, queue,
                   writeMutex, cancelled, reason, line, item, lines, log, result,
                   timedOut>>

HandlerReturns ==
    \/ DataHandle("go", None) \/ DataHandle("panic", None)
    \/ \E why \in {"handler_stop", "done"} : DataHandle("stop", why)

Next ==
    \/ MainTimeout \/ MainStop \/ MainClientGone \/ MainSendStop
    \/ MainWait \/ MainWaitTimeout
    \/ PingTick \/ WriterLock \/ \E failed \in BOOLEAN : PingData(failed)
    \/ PingSent \/ PingFails \/ PingStop \/ PingEnds \/ PingMaxDuration
    \/ DataNext \/ DataLock \/ HandlerReturns \/ DataExit \/ DataSendStop
    \/ \E l \in {0, lines + 1, DoneLine} : ScanLine(l)
    \/ \E error \in BOOLEAN : ScanEnds(error)
    \/ ScanCheck \/ ScanPut \/ ScanExit \/ ScanSendStop
    \/ ClientGoes

\* A goroutine that can go on does; writes to the client and dataHandler end; a
\* closed body ends Scan; the 5 s of the clean-up pass.  The streaming timeout is
\* not relied on, and the upstream may say nothing for ever.
Fairness ==
    /\ WF_vars(MainStop \/ MainClientGone) /\ WF_vars(MainSendStop)
    /\ WF_vars(MainWait \/ MainWaitTimeout)
    /\ WF_vars(WriterLock) /\ WF_vars(\E failed \in BOOLEAN : PingData(failed))
    /\ WF_vars(PingSent \/ PingFails \/ PingStop \/ PingEnds)
    /\ WF_vars(DataNext) /\ SF_vars(DataLock) /\ WF_vars(HandlerReturns)
    /\ WF_vars(DataExit) /\ WF_vars(DataSendStop)
    /\ WF_vars(stopClosed /\ ScanEnds(TRUE))
    /\ WF_vars(ScanCheck) /\ WF_vars(ScanPut)
    /\ WF_vars(ScanExit) /\ WF_vars(ScanSendStop)

Spec == Init /\ [][Next]_vars /\ Fairness

-----------------------------------------------------------------------------
(* Properties *)

\* No sender ever waits for room in stopChan, the deferred clean-up included,
\* which nothing could wake: its receivers may all have ended ("make(chan bool,
\* 3)" is said to avoid blocking).
StopNeverBlocks ==
    "send" \in {main, data, scan} => stopClosed \/ stopChan < StopCap

\* Whoever wakes the main loop has recorded why the stream ended: the log line
\* and the usage log that follow never show an unknown end, in whatever order
\* the goroutines pass the stop on.
ReasonIsKnown == main # "select" => reason # None

\* A stream reported as complete was handed on completely and in order: whatever
\* is still in dataChan when the scanner ends, and the main loop has been woken
\* and the context cancelled, reaches dataHandler before the handler returns,
\* unless it gave up after 5 s or dataHandler ended the stream.
NothingLost ==
    main = "returned" /\ ~timedOut /\ result = "go" /\ reason \in {"done", "eof"}
    => handled = sent

\* The end of the stream is noticed without the streaming timeout: the ping can
\* take a stop meant for the main loop, but not both of the scanner's and the
\* data handler's.  (When dataHandler itself stops the stream there may be only
\* one, so this needs the ping to be off: see StopIsDelivered.)
EndIsNoticed ==
    (data = "ended" /\ (~pingEnabled \/ result = "go")) ~> main = "returned"

\* No goroutine outlives the request for ever, even if the upstream has fallen
\* silent, dataHandler stopped with a full channel behind it or it panicked.
GoroutinesEnd ==
    main = "returned" ~> (ping = "ended" /\ data = "ended" /\ scan = "ended")

\* "The stream stops after this chunk" (Done of stream_result.go): once the data
\* handler has ended, somebody will still wake the main loop.
StopIsDelivered ==
    data = "ended" /\ main = "select" => stopChan > 0 \/ scan \in {"exit", "send"}

\* The clean-up "waits for all goroutines to exit": after an orderly return
\* nobody writes to the client any more.
NoWriteAfterReturn == main = "returned" /\ ~timedOut => writeMutex # "writer"

=============================================================================
