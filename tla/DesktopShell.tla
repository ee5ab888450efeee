---------------------------- MODULE DesktopShell ----------------------------
(***************************************************************************)
(* The desktop application (electron/main.js): the Electron main process   *)
(* starts the server binary, probes its port until it answers, opens the   *)
(* window and the tray, and on quitting stops the server before it exits.  *)
(*                                                                         *)
(* Every handler runs to its end in one turn of the event loop, so each is *)
(* one action.  The server process, whoever answers on the port and the    *)
(* user's clicks are the environment.  The text of dialogs and logs        *)
(* (analyzeError, saveAndOpenErrorLog) is left out; which dialog is open   *)
(* and where its buttons lead is kept.                                     *)
(***************************************************************************)
EXTENDS Naturals, FiniteSets

CONSTANTS
    MaxRetries,   \* attempts of checkServerAvailability (30)
    Windows       \* bound on the windows created

ASSUME ShellAssumption ==
    /\ MaxRetries \in Nat \ {0}
    /\ Windows \in Nat \ {0}

NoWindow == 0     \* mainWindow is undefined or null

VARIABLES
    dev,            \* NODE_ENV is "development": no server is started
    mac,            \* the platform is darwin: the dock may activate the app
    app,            \* the application: "ready", "running" or "exited"
    startup,        \* the promise of startServer: "pending", "ok" or "failed"
    proc,           \* the server process: "none", "running" or "exited"
    crashed,        \* it ended with a code other than 0 and null
    serverProcess,  \* whether the variable of that name refers to a process
    port,           \* who answers on the port: "nobody", "server" or "other"
    attempt,        \* currentAttempt of checkServerAvailability
    probes,         \* requests to the port under way
    retries,        \* retry timers set and not yet fired
    win,            \* win[w]: "none", "shown" or "hidden"
    mainWindow,     \* the window the variable refers to, or NoWindow
    tray,           \* the tray icon exists
    isQuitting,     \* app.isQuitting
    crashDialog,    \* dialog on a crash: "none", "error" or "log"
    failDialog,     \* dialog on a failed start: "none", "error", "log", "done"
    exitTimer,      \* a 5 s timer of before-quit is running
    exitOnClose     \* a before-quit listener waits for the server's close event

env   == <<dev, mac>>
probe == <<attempt, probes, retries>>
views == <<win, mainWindow>>
quits == <<isQuitting, exitTimer, exitOnClose>>
vars  == <<env, app, startup, proc, crashed, serverProcess, port, probe, views,
           tray, quits, crashDialog, failDialog>>

TypeOK ==
    /\ dev \in BOOLEAN /\ mac \in BOOLEAN
    /\ app \in {"ready", "running", "exited"}
    /\ startup \in {"pending", "ok", "failed"}
    /\ proc \in {"none", "running", "exited"}
    /\ crashed \in BOOLEAN /\ serverProcess \in BOOLEAN
    /\ port \in {"nobody", "server", "other"}
    /\ attempt \in Nat /\ probes \in Nat /\ retries \in Nat
    /\ win \in [1..Windows -> {"none", "shown", "hidden"}]
    /\ mainWindow \in 0..Windows
    /\ tray \in BOOLEAN /\ isQuitting \in BOOLEAN
    /\ crashDialog \in {"none", "error", "log"}
    /\ failDialog \in {"none", "error", "log", "done"}
    /\ exitTimer \in BOOLEAN /\ exitOnClose \in BOOLEAN

Init ==
    /\ dev \in BOOLEAN /\ mac \in BOOLEAN
    /\ app = "ready" /\ startup = "pending"
    /\ proc = "none" /\ crashed = FALSE /\ serverProcess = FALSE
    /\ port \in {"nobody", "other"}
    /\ attempt = 0 /\ probes = 0 /\ retries = 0
    /\ win = [w \in 1..Windows |-> "none"] /\ mainWindow = NoWindow
    /\ tray = FALSE /\ isQuitting = FALSE
    /\ crashDialog = "none" /\ failDialog = "none"
    /\ exitTimer = FALSE /\ exitOnClose = FALSE

-----------------------------------------------------------------------------
(* Windows *)

NoWindows == [w \in 1..Windows |-> "none"]

\* new BrowserWindow; the previous value of mainWindow is forgotten.
createWindow ==
    \E w \in 1..Windows :
        /\ win[w] = "none"
        /\ win' = [win EXCEPT ![w] = "shown"]
        /\ mainWindow' = w

\* Mutant: the closed handler does not clear mainWindow.
closedKeepsReference(w, quitting) ==
    /\ win' = IF quitting THEN [win EXCEPT ![w] = "none"]
              ELSE IF mainWindow = NoWindow THEN win
              ELSE [win EXCEPT ![mainWindow] = "hidden"]
    /\ UNCHANGED mainWindow

\* The close and closed handlers of every window work on mainWindow, whichever
\* window was closed: hidden to the tray unless the app is quitting.
closed(w, quitting) ==
    IF quitting
    THEN /\ win' = [win EXCEPT ![w] = "none"]
         /\ mainWindow' = NoWindow
    ELSE /\ win' = IF mainWindow = NoWindow THEN win
                   ELSE [win EXCEPT ![mainWindow] = "hidden"]
         /\ UNCHANGED mainWindow

-----------------------------------------------------------------------------
(* Quitting *)

\* Mutant: without the 5 s timer.
beforeQuitNoTimer ==
    /\ exitOnClose' = (exitOnClose \/ proc = "running")
    /\ UNCHANGED <<exitTimer, app, views>>

\* before-quit: SIGTERM, and exit on the server's close event or after 5 s.
beforeQuit ==
    /\ exitTimer' = TRUE
    /\ exitOnClose' = (exitOnClose \/ proc = "running")
    /\ UNCHANGED <<app, views>>

\* app.quit() while serverProcess is unset: every window is asked to close, and
\* the first that refuses cancels the quit.
closeAll(quitting) ==
    /\ UNCHANGED <<exitTimer, exitOnClose>>
    /\ IF quitting \/ win = NoWindows
       THEN app' = "exited" /\ win' = NoWindows /\ mainWindow' = NoWindow
       ELSE UNCHANGED app /\ closed(mainWindow, FALSE)

\* app.quit() with app.isQuitting as given.
appQuit(quitting) ==
    /\ isQuitting' = quitting
    /\ IF serverProcess THEN beforeQuit ELSE closeAll(quitting)
    /\ UNCHANGED <<env, startup, proc, crashed, serverProcess, port, probe, tray>>

\* Mutant: the timer exits without SIGKILL.
ExitTimeoutNoKill ==
    /\ app = "running" /\ exitTimer
    /\ app' = "exited"
    /\ win' = NoWindows /\ mainWindow' = NoWindow
    /\ UNCHANGED <<env, startup, proc, crashed, serverProcess, port, probe, tray,
                   quits, crashDialog, failDialog>>

\* The timer of before-quit: SIGKILL if the server still runs, then app.exit().
ExitTimeout ==
    /\ app = "running" /\ exitTimer
    /\ app' = "exited"
    /\ proc' = IF serverProcess /\ proc = "running" THEN "exited" ELSE proc
    /\ win' = NoWindows /\ mainWindow' = NoWindow
    /\ UNCHANGED <<env, startup, crashed, serverProcess, port, probe, tray,
                   quits, crashDialog, failDialog>>

-----------------------------------------------------------------------------
(* Start-up *)

\* whenReady: startServer.  In development only the port is probed.  In
\* production the binary is spawned; making the data directory may fail, which
\* rejects the promise at once, and so may spawning, when the error event rejects
\* it and the close event that follows (negative code) opens the crash dialog.
Start ==
    /\ app = "ready" /\ app' = "running"
    /\ \/ /\ proc' = (IF dev THEN "none" ELSE "running")
          /\ serverProcess' = ~dev
          /\ attempt' = 1 /\ probes' = 1
          /\ UNCHANGED <<startup, failDialog, crashed, crashDialog>>
       \/ /\ ~dev
          /\ startup' = "failed" /\ failDialog' = "error"
          /\ UNCHANGED <<proc, serverProcess, attempt, probes, crashed, crashDialog>>
       \/ /\ ~dev
          /\ proc' = "exited" /\ serverProcess' = TRUE
          /\ attempt' = 1 /\ probes' = 1
          /\ startup' = "failed" /\ failDialog' = "error"
          /\ crashed' = TRUE /\ crashDialog' = "error"
    /\ UNCHANGED <<env, port, retries, views, tray, quits>>

\* The promise of startServer is resolved: tray and window are created.
resolve ==
    IF startup = "pending"
    THEN startup' = "ok" /\ tray' = TRUE /\ createWindow /\ UNCHANGED failDialog
    ELSE UNCHANGED <<startup, tray, views, failDialog>>

\* The promise is rejected: the start-up error dialog is shown.
reject ==
    /\ startup' = IF startup = "pending" THEN "failed" ELSE startup
    /\ failDialog' = IF startup = "pending" THEN "error" ELSE failDialog

\* The retry timer: tryConnect.
TryConnect ==
    /\ app = "running" /\ retries > 0
    /\ retries' = retries - 1
    /\ attempt' = attempt + 1
    /\ probes' = probes + 1
    /\ UNCHANGED <<env, app, startup, proc, crashed, serverProcess, port, views,
                   tray, quits, crashDialog, failDialog>>

\* Somebody answered on the port.
ProbeAnswered ==
    /\ app = "running" /\ probes > 0 /\ port # "nobody"
    /\ probes' = probes - 1
    /\ resolve
    /\ UNCHANGED <<env, app, proc, crashed, serverProcess, port, attempt, retries,
                   quits, crashDialog>>

\* n handlers of one request each retry, or reject after the last attempt.
retry(n) ==
    /\ app = "running" /\ probes > 0
    /\ probes' = probes - 1
    /\ IF attempt >= MaxRetries
       THEN reject /\ UNCHANGED retries
       ELSE retries' = retries + n /\ UNCHANGED <<startup, failDialog>>
    /\ UNCHANGED <<env, app, proc, crashed, serverProcess, port, attempt, views,
                   tray, quits, crashDialog>>

\* The error event of a request.
ProbeError == retry(1)

\* Mutant: the last attempt's timeout is not reported.
ProbeTimeoutSilent ==
    /\ port # "nobody"
    /\ \/ attempt < MaxRetries /\ retry(2)
       \/ /\ app = "running" /\ probes > 0 /\ attempt >= MaxRetries
          /\ probes' = probes - 1
          /\ UNCHANGED <<env, app, startup, proc, crashed, serverProcess, port,
                         attempt, retries, views, tray, quits, crashDialog,
                         failDialog>>

\* The timeout event: the handler destroys the request, which then also emits
\* its error event, so both handlers retry.
ProbeTimeout == port # "nobody" /\ retry(2)

-----------------------------------------------------------------------------
(* The server process *)

\* The server, or in development the front end's server, opens the port.
PortOpens ==
    /\ app = "running" /\ (dev \/ proc = "running")
    /\ port = "nobody" /\ port' = "server"
    /\ UNCHANGED <<env, app, startup, proc, crashed, serverProcess, probe, views,
                   tray, quits, crashDialog, failDialog>>

\* The close event.  The listener of startServer comes first: a dialog for a
\* bad code, otherwise mainWindow.close().  Those of before-quit then exit.
ServerCloses(bad) ==
    /\ app = "running" /\ proc = "running"
    /\ proc' = "exited" /\ crashed' = bad
    /\ port' = IF port = "server" THEN "nobody" ELSE port
    /\ crashDialog' = IF bad THEN "error" ELSE crashDialog
    /\ IF exitOnClose
       THEN /\ serverProcess' = FALSE /\ app' = "exited"
            /\ win' = NoWindows /\ mainWindow' = NoWindow
       ELSE /\ UNCHANGED <<serverProcess, app>>
            /\ IF bad \/ mainWindow = NoWindow THEN UNCHANGED views
               ELSE closed(mainWindow, isQuitting)
    /\ UNCHANGED <<env, startup, probe, tray, quits, failDialog>>

-----------------------------------------------------------------------------
(* The user *)

\* Mutant: the crash dialog's buttons quit without app.isQuitting.
AnswerCrashDialogPlain ==
    /\ app = "running"
    /\ crashDialog # "none" /\ crashDialog' = "none"
    /\ appQuit(isQuitting)
    /\ UNCHANGED failDialog

\* The buttons of the crash dialog and of the one that follows "view log".
AnswerCrashDialog ==
    /\ app = "running"
    /\ \/ /\ crashDialog = "error" /\ crashDialog' = "log"
          /\ UNCHANGED <<env, app, startup, proc, crashed, serverProcess, port,
                         probe, views, tray, quits>>
       \/ /\ crashDialog # "none" /\ crashDialog' = "none"
          /\ appQuit(TRUE)
    /\ UNCHANGED failDialog

\* The buttons of the start-up error dialog: app.quit() without isQuitting.
AnswerFailDialog ==
    /\ app = "running"
    /\ \/ /\ failDialog = "error" /\ failDialog' = "log"
          /\ UNCHANGED <<env, app, startup, proc, crashed, serverProcess, port,
                         probe, views, tray, quits>>
       \/ /\ failDialog \in {"error", "log"} /\ failDialog' = "done"
          /\ appQuit(isQuitting)
    /\ UNCHANGED crashDialog

\* "Quit" of the tray menu.
TrayQuit ==
    /\ app = "running" /\ tray
    /\ appQuit(TRUE)
    /\ UNCHANGED <<crashDialog, failDialog>>

\* "Quit" of the menu Electron installs by default, or the end of the session.
MenuQuit ==
    /\ app = "running"
    /\ appQuit(isQuitting)
    /\ UNCHANGED <<crashDialog, failDialog>>

\* "Show TokenFactory" of the tray menu.
TrayShow ==
    /\ app = "running" /\ tray
    /\ IF mainWindow = NoWindow THEN createWindow
       ELSE /\ win' = [win EXCEPT ![mainWindow] = "shown"]
            /\ UNCHANGED mainWindow
    /\ UNCHANGED <<env, app, startup, proc, crashed, serverProcess, port, probe,
                   tray, quits, crashDialog, failDialog>>

\* A click on the tray icon shows or hides the window.
TrayClick ==
    /\ app = "running" /\ tray
    /\ IF mainWindow = NoWindow THEN createWindow
       ELSE /\ win' = [win EXCEPT ![mainWindow] =
                         IF @ = "shown" THEN "hidden" ELSE "shown"]
            /\ UNCHANGED mainWindow
    /\ UNCHANGED <<env, app, startup, proc, crashed, serverProcess, port, probe,
                   tray, quits, crashDialog, failDialog>>

\* The window's close button.
CloseWindow(w) ==
    /\ app = "running" /\ win[w] = "shown"
    /\ closed(w, isQuitting)
    /\ UNCHANGED <<env, app, startup, proc, crashed, serverProcess, port, probe,
                   tray, quits, crashDialog, failDialog>>

\* The dock icon (activate, macOS only): a window if there is none, at any time.
Activate ==
    /\ app = "running" /\ mac
    /\ win = NoWindows /\ createWindow
    /\ UNCHANGED <<env, app, startup, proc, crashed, serverProcess, port, probe,
                   tray, quits, crashDialog, failDialog>>

-----------------------------------------------------------------------------

Next ==
    \/ Start \/ TryConnect \/ ProbeAnswered \/ ProbeError \/ ProbeTimeout
    \/ PortOpens \/ \E bad \in BOOLEAN : ServerCloses(bad)
    \/ AnswerCrashDialog \/ AnswerFailDialog \/ ExitTimeout
    \/ TrayQuit \/ MenuQuit \/ TrayShow \/ TrayClick \/ Activate
    \/ \E w \in 1..Windows : CloseWindow(w)

\* Timers fire and requests end; nobody has to click, and no server has to
\* start, answer or stop.
Fairness ==
    /\ WF_vars(Start) /\ WF_vars(TryConnect) /\ WF_vars(ExitTimeout)
    /\ WF_vars(ProbeAnswered \/ ProbeError \/ ProbeTimeout)

Spec == Init /\ [][Next]_vars /\ Fairness

-----------------------------------------------------------------------------
(* Properties *)

\* The application never exits and leaves the server it started behind: on every
\* path out of it (before-quit's listener, its timer, a quit that finds no
\* serverProcess) the process has ended or was killed.
NoOrphanServer == app = "exited" => proc # "running"

\* The handlers that show, hide or toggle the window never meet a reference to
\* one that is gone, also when a window is closed while the application waits for
\* the server to stop and the tray then opens another.
MainWindowIsAlive ==
    mainWindow # NoWindow => win[mainWindow] # "none"

\* A server that crashed is reported: until the application exits, the dialog is
\* open or the user has chosen to leave.
CrashIsReported ==
    crashed /\ app = "running" => crashDialog # "none" \/ isQuitting

\* Once quitting is decided, or before-quit has held a quit up to stop the
\* server, the application exits, whether or not the server reacts to SIGTERM,
\* and also when it had already ended and no close event will ever come.
QuitExits == (isQuitting \/ exitTimer) ~> app = "exited"

\* Starting ends: the window opens or the error dialog does (or the application
\* is quit meanwhile), whatever the port answers.
StartupSettles == (app = "ready") ~> (startup # "pending" \/ app = "exited")

\* "Click 'Exit' to close the application" (text of the start-up error dialog):
\* once its last button is pressed, the application exits.
ExitButtonQuits == (failDialog = "done") ~> app = "exited"

=============================================================================
