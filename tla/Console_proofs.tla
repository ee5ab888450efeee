--------------------------- MODULE Console_proofs ---------------------------
(***************************************************************************)
(* Two parts of the console, for every value of their constants.           *)
(* The desktop shell, with any number of connection attempts and windows:  *)
(* the server is never left behind, the reference to the main window is    *)
(* valid, and a crash is reported.                                         *)
(* The price page, with any models, prices, precision and order of the     *)
(* writes: what is reported as saved is what the page showed, deleted      *)
(* models are gone, and prices nobody touched do not move.                 *)
(***************************************************************************)
EXTENDS DesktopShell, PricingEditor, TLAPS


-----------------------------------------------------------------------------
(* The server process *)

ServerType ==
    /\ app \in {"ready", "running", "exited"}
    /\ proc \in {"none", "running", "exited"}
    /\ serverProcess \in BOOLEAN

\* A running server is known to the application, which has started and not exited.
ServerIsKnown == proc = "running" => serverProcess = TRUE /\ app = "running"

\* app.quit() leaves the process alone; it exits only if there is none to stop.
LEMMA QuitKeepsServer ==
  ASSUME ServerType, ServerIsKnown, app = "running", NEW quitting \in BOOLEAN, appQuit(quitting)
  PROVE  ServerType' /\ ServerIsKnown'
<1>1. UNCHANGED <<proc, serverProcess>>
  BY DEF appQuit
<1>2. app' \in {"running", "exited"} /\ (serverProcess => app' = app)
  BY DEF appQuit, beforeQuit, closeAll
<1> QED
  BY <1>1, <1>2 DEF ServerType, ServerIsKnown

\* Every step keeps it so.
LEMMA ServerStep ==
  ASSUME ServerType, ServerIsKnown, isQuitting \in BOOLEAN, [Next]_vars
  PROVE  ServerType' /\ ServerIsKnown'
<1>1. CASE UNCHANGED <<app, proc, serverProcess>>
  BY <1>1 DEF ServerType, ServerIsKnown
<1>2. CASE Start
  BY <1>2 DEF Start, ServerType, ServerIsKnown
<1>3. CASE ExitTimeout
  BY <1>3 DEF ExitTimeout, ServerType, ServerIsKnown
<1>4. ASSUME NEW bad \in BOOLEAN, ServerCloses(bad) PROVE ServerType' /\ ServerIsKnown'
  BY <1>4 DEF ServerCloses, ServerType, ServerIsKnown
<1>5. CASE AnswerCrashDialog
  BY <1>1, <1>5, QuitKeepsServer DEF AnswerCrashDialog
<1>6. CASE AnswerFailDialog
  BY <1>1, <1>6, QuitKeepsServer DEF AnswerFailDialog
<1>7. CASE TrayQuit \/ MenuQuit
  BY <1>7, QuitKeepsServer DEF TrayQuit, MenuQuit
<1>8. CASE TryConnect \/ ProbeAnswered \/ ProbeError \/ ProbeTimeout \/ PortOpens
  BY <1>1, <1>8 DEF TryConnect, ProbeAnswered, ProbeError, ProbeTimeout, retry, PortOpens
<1>9. CASE TrayShow \/ TrayClick \/ Activate \/ \E w \in 1..Windows : CloseWindow(w)
  BY <1>1, <1>9 DEF TrayShow, TrayClick, Activate, CloseWindow
<1>10. CASE UNCHANGED vars
  BY <1>1, <1>10 DEF vars
<1> QED
  BY <1>2, <1>3, <1>4, <1>5, <1>6, <1>7, <1>8, <1>9, <1>10 DEF Next

-----------------------------------------------------------------------------
(* Quitting and crashes *)

DialogType ==
    /\ isQuitting \in BOOLEAN /\ crashed \in BOOLEAN
    /\ crashDialog \in {"none", "error", "log"}

\* A crash is known only after the start, and reported until the user leaves.
CrashInv == (crashed = TRUE => app # "ready") /\ CrashIsReported

\* app.quit() by a button other than the crash dialog's.
LEMMA QuitKeepsCrash ==
  ASSUME DialogType, CrashInv, app = "running", NEW quitting \in {isQuitting, TRUE},
         appQuit(quitting), UNCHANGED crashDialog
  PROVE  DialogType' /\ CrashInv'
<1>1. crashed' = crashed /\ isQuitting' = quitting
  BY DEF appQuit
<1>2. app' \in {"running", "exited"}
  BY DEF appQuit, beforeQuit, closeAll
<1> QED
  BY <1>1, <1>2 DEF DialogType, CrashInv, CrashIsReported

\* Every step keeps the report.
LEMMA CrashStep ==
  ASSUME DialogType, CrashInv, ServerType, [Next]_vars
  PROVE  DialogType' /\ CrashInv'
<1>1. CASE UNCHANGED <<app, isQuitting, crashed, crashDialog>>
  BY <1>1 DEF DialogType, CrashInv, CrashIsReported
<1>2. CASE Start
  <2>1. isQuitting' = isQuitting /\ app' = "running" /\ crashed # TRUE
    BY <1>2 DEF Start, quits, CrashInv
  <2>2. (crashed' = crashed /\ crashDialog' = crashDialog) \/ (crashed' = TRUE /\ crashDialog' = "error")
    BY <1>2 DEF Start
  <2>3. crashed = FALSE
    BY <2>1 DEF DialogType
  <2>4. CASE crashed' = FALSE /\ crashDialog' = crashDialog
    BY <2>1, <2>4 DEF DialogType, CrashInv, CrashIsReported
  <2>5. CASE crashed' = TRUE /\ crashDialog' = "error"
    BY <2>1, <2>5 DEF DialogType, CrashInv, CrashIsReported
  <2> QED
    BY <2>2, <2>3, <2>4, <2>5
<1>3. CASE ExitTimeout
  BY <1>3 DEF ExitTimeout, quits, DialogType, CrashInv, CrashIsReported
<1>4. ASSUME NEW bad \in BOOLEAN, ServerCloses(bad) PROVE DialogType' /\ CrashInv'
  <2>1. /\ crashed' = bad /\ isQuitting' = isQuitting
        /\ crashDialog' = IF bad THEN "error" ELSE crashDialog
        /\ app' \in {app, "exited"} /\ app = "running"
    BY <1>4 DEF ServerCloses, quits
  <2> QED
    BY <2>1 DEF DialogType, CrashInv, CrashIsReported
<1>5. CASE AnswerCrashDialog
  <2>1. CASE crashDialog' = "log" /\ UNCHANGED <<app, crashed, quits>>
    BY <2>1 DEF quits, DialogType, CrashInv, CrashIsReported
  <2>2. CASE crashDialog' = "none" /\ appQuit(TRUE)
    <3>1. crashed' = crashed /\ isQuitting' = TRUE
      BY <2>2 DEF appQuit
    <3>2. app' \in {"running", "exited"}
      BY <1>5, <2>2 DEF AnswerCrashDialog, appQuit, beforeQuit, closeAll
    <3> QED
      BY <2>2, <3>1, <3>2 DEF DialogType, CrashInv, CrashIsReported
  <2> QED
    BY <1>5, <2>1, <2>2 DEF AnswerCrashDialog
<1>6. CASE AnswerFailDialog
  BY <1>1, <1>6, QuitKeepsCrash DEF AnswerFailDialog, quits
<1>7. CASE TrayQuit \/ MenuQuit
  BY <1>7, QuitKeepsCrash DEF TrayQuit, MenuQuit
<1>8. CASE TryConnect \/ ProbeAnswered \/ ProbeError \/ ProbeTimeout \/ PortOpens
  BY <1>1, <1>8 DEF TryConnect, ProbeAnswered, ProbeError, ProbeTimeout, retry, PortOpens, quits
<1>9. CASE TrayShow \/ TrayClick \/ Activate \/ \E w \in 1..Windows : CloseWindow(w)
  BY <1>1, <1>9 DEF TrayShow, TrayClick, Activate, CloseWindow, quits
<1>10. CASE UNCHANGED vars
  BY <1>1, <1>10 DEF vars, quits
<1> QED
  BY <1>2, <1>3, <1>4, <1>5, <1>6, <1>7, <1>8, <1>9, <1>10 DEF Next

-----------------------------------------------------------------------------
(* The main window *)

WindowInv ==
    /\ win \in [1..Windows -> {"none", "shown", "hidden"}]
    /\ mainWindow \in 0..Windows
    /\ MainWindowIsAlive

\* The handlers that change the windows keep the reference valid.
LEMMA WindowHandlers ==
  ASSUME WindowInv
  PROVE  /\ createWindow => WindowInv'
         /\ \A w \in 1..Windows, q \in BOOLEAN : closed(w, q) => WindowInv'
         /\ win' = NoWindows /\ mainWindow' = NoWindow => WindowInv'
         /\ \A s \in {"shown", "hidden"} :
              /\ mainWindow # NoWindow /\ win' = [win EXCEPT ![mainWindow] = s]
              /\ UNCHANGED mainWindow
              => WindowInv'
         /\ UNCHANGED views => WindowInv'
<1> USE ShellAssumption DEF WindowInv, MainWindowIsAlive, NoWindow
<1>1. createWindow => WindowInv'
  BY DEF createWindow
<1>2. ASSUME NEW w \in 1..Windows, NEW q \in BOOLEAN, closed(w, q) PROVE WindowInv'
  BY <1>2 DEF closed
<1>3. win' = NoWindows /\ mainWindow' = NoWindow => WindowInv'
  BY DEF NoWindows
<1>4. ASSUME NEW s \in {"shown", "hidden"}, mainWindow # NoWindow,
             win' = [win EXCEPT ![mainWindow] = s], UNCHANGED mainWindow
      PROVE  WindowInv'
  BY <1>4
<1>5. UNCHANGED views => WindowInv'
  BY DEF views
<1> QED
  BY <1>1, <1>2, <1>3, <1>4, <1>5

\* app.quit() closes all windows, hides the main one, or waits for the server.
LEMMA QuitKeepsWindow ==
  ASSUME WindowInv, NEW quitting \in BOOLEAN, appQuit(quitting)
  PROVE  WindowInv'
<1>1. CASE UNCHANGED views
  BY <1>1, WindowHandlers
<1>2. CASE win' = NoWindows /\ mainWindow' = NoWindow
  BY <1>2, WindowHandlers
<1>3. CASE closed(mainWindow, FALSE)
  <2>1. UNCHANGED mainWindow
    BY <1>3 DEF closed
  <2>2. win' = IF mainWindow = NoWindow THEN win ELSE [win EXCEPT ![mainWindow] = "hidden"]
    BY <1>3 DEF closed
  <2> QED
    BY <2>1, <2>2, WindowHandlers DEF views
<1> QED
  BY <1>1, <1>2, <1>3 DEF appQuit, beforeQuit, closeAll

\* Every step keeps the reference valid.
LEMMA WindowStep ==
  ASSUME WindowInv, DialogType, [Next]_vars
  PROVE  WindowInv'
<1>1. CASE UNCHANGED views
  BY <1>1, WindowHandlers
<1>2. CASE ExitTimeout
  BY <1>2, WindowHandlers DEF ExitTimeout
<1>3. CASE ProbeAnswered
  BY <1>1, <1>3, WindowHandlers DEF ProbeAnswered, resolve
<1>4. ASSUME NEW bad \in BOOLEAN, ServerCloses(bad) PROVE WindowInv'
  <2>1. CASE win' = NoWindows /\ mainWindow' = NoWindow
    BY <2>1, WindowHandlers
  <2>2. CASE mainWindow # NoWindow /\ closed(mainWindow, isQuitting)
    <3>1. mainWindow \in 1..Windows
      BY <2>2, ShellAssumption DEF WindowInv, NoWindow
    <3> QED
      BY <2>2, <3>1, WindowHandlers DEF DialogType
  <2> QED
    BY <1>1, <1>4, <2>1, <2>2 DEF ServerCloses
<1>5. CASE AnswerCrashDialog
  BY <1>1, <1>5, QuitKeepsWindow DEF AnswerCrashDialog
<1>6. CASE AnswerFailDialog
  BY <1>1, <1>6, QuitKeepsWindow DEF AnswerFailDialog, DialogType
<1>7. CASE TrayQuit \/ MenuQuit
  BY <1>7, QuitKeepsWindow DEF TrayQuit, MenuQuit, DialogType
<1>8. CASE Start \/ TryConnect \/ ProbeError \/ ProbeTimeout \/ PortOpens
  BY <1>1, <1>8 DEF Start, TryConnect, ProbeError, ProbeTimeout, retry, PortOpens
<1>9. CASE TrayShow \/ Activate
  BY <1>9, WindowHandlers DEF TrayShow, Activate
<1>10. CASE TrayClick
  BY <1>10, WindowHandlers DEF TrayClick
<1>11. ASSUME NEW w \in 1..Windows, CloseWindow(w) PROVE WindowInv'
  BY <1>11, WindowHandlers DEF CloseWindow, DialogType
<1>12. CASE UNCHANGED vars
  BY <1>1, <1>12 DEF vars
<1> QED
  BY <1>2, <1>3, <1>4, <1>5, <1>6, <1>7, <1>8, <1>9, <1>10, <1>11, <1>12 DEF Next

-----------------------------------------------------------------------------

IInv == ServerType /\ ServerIsKnown /\ DialogType /\ CrashInv /\ WindowInv

\* The invariant of all three parts.
LEMMA Inductive == Spec => []IInv
<1>1. Init => IInv
  <2> SUFFICES ASSUME Init PROVE IInv
    OBVIOUS
  <2>1. ServerType /\ ServerIsKnown
    BY DEF Init, ServerType, ServerIsKnown
  <2>2. DialogType
    BY DEF Init, DialogType
  <2>3. CrashInv
    BY Zenon DEF Init, CrashInv, CrashIsReported
  <2>4. WindowInv
    BY ShellAssumption DEF Init, WindowInv, MainWindowIsAlive, NoWindow
  <2> QED
    BY <2>1, <2>2, <2>3, <2>4 DEF IInv
<1>2. IInv /\ [Next]_vars => IInv'
  <2> SUFFICES ASSUME IInv, [Next]_vars PROVE IInv'
    OBVIOUS
  <2>1. ServerType' /\ ServerIsKnown'
    BY ServerStep DEF IInv, DialogType
  <2>2. DialogType' /\ CrashInv'
    BY CrashStep DEF IInv
  <2>3. WindowInv'
    BY WindowStep DEF IInv
  <2> QED
    BY <2>1, <2>2, <2>3 DEF IInv
<1> QED
  BY <1>1, <1>2, PTL DEF Spec

\* On every path out of the application (before-quit, its timer, its listener,
\* a quit that finds no serverProcess) the server has ended or was killed.
THEOREM NoOrphans == Spec => []NoOrphanServer
<1>1. IInv => NoOrphanServer
  BY DEF IInv, ServerIsKnown, NoOrphanServer
<1> QED
  BY <1>1, Inductive, PTL

\* mainWindow never refers to a window that is gone.
THEOREM MainWindowAlive == Spec => []MainWindowIsAlive
<1>1. IInv => MainWindowIsAlive
  BY DEF IInv, WindowInv
<1> QED
  BY <1>1, Inductive, PTL

\* A crash of the server is on display until the user has chosen to leave.
THEOREM CrashReported == Spec => []CrashIsReported
<1>1. IInv => CrashIsReported
  BY DEF IInv, CrashInv
<1> QED
  BY <1>1, Inductive, PTL

-----------------------------------------------------------------------------
(* Numbers of the price page *)

\* The quotient of naturals is a natural; multiplied back it misses less than the divisor.
LEMMA DivBounds ==
  ASSUME NEW a \in Nat, NEW b \in Nat \ {0}
  PROVE  /\ a \div b \in Nat
         /\ b * (a \div b) <= a
         /\ a < b * (a \div b) + b
OBVIOUS

\* A rounded quotient misses by at most half the divisor.
LEMMA RoundDivBounds ==
  ASSUME NEW a \in Nat, NEW b \in Nat \ {0}
  PROVE  /\ RoundDiv(a, b) \in Nat
         /\ 2 * (b * RoundDiv(a, b)) <= 2 * a + b
         /\ 2 * a + b < 2 * (b * RoundDiv(a, b)) + 2 * b
<1>1. 2 * a + b \in Nat /\ 2 * b \in Nat \ {0}
  OBVIOUS
<1>2. PICK q \in Nat : /\ q = (2 * a + b) \div (2 * b)
                       /\ (2 * b) * q <= 2 * a + b
                       /\ 2 * a + b < (2 * b) * q + 2 * b
  BY <1>1, DivBounds
<1>3. (2 * b) * q = 2 * (b * q)
  OBVIOUS
<1> QED
  BY <1>2, <1>3 DEF RoundDiv

\* A larger factor makes a product larger by the other factor at least.
LEMMA ProductGrows ==
  ASSUME NEW b \in Nat, NEW x \in Int, NEW y \in Int, x < y
  PROVE  b * x + b <= b * y
<1>1. b * (y - x - 1) >= 0
  OBVIOUS
<1>2. b * (y - x - 1) = b * y - b * x - b
  OBVIOUS
<1>3. b * x \in Int /\ b * y \in Int
  OBVIOUS
<1> QED
  BY <1>1, <1>2, <1>3

\* There is one such quotient.
LEMMA RoundDivUnique ==
  ASSUME NEW a \in Nat, NEW b \in Nat \ {0}, NEW q \in Nat,
         2 * (b * q) <= 2 * a + b, 2 * a + b < 2 * (b * q) + 2 * b
  PROVE  RoundDiv(a, b) = q
<1>1. PICK r \in Nat : /\ r = RoundDiv(a, b)
                       /\ 2 * (b * r) <= 2 * a + b
                       /\ 2 * a + b < 2 * (b * r) + 2 * b
  BY RoundDivBounds
<1>2. b * q \in Nat /\ b * r \in Nat /\ b \in Nat
  OBVIOUS
<1>3. ~(q < r)
  <2> SUFFICES ASSUME q < r PROVE FALSE
    OBVIOUS
  <2>1. b * q + b <= b * r
    BY ProductGrows
  <2> QED
    BY <2>1, <1>1, <1>2
<1>4. ~(r < q)
  <2> SUFFICES ASSUME r < q PROVE FALSE
    OBVIOUS
  <2>1. b * r + b <= b * q
    BY ProductGrows
  <2> QED
    BY <2>1, <1>1, <1>2
<1> QED
  BY <1>1, <1>3, <1>4

\* What formatNumber does: a number less than Absorb from a whole one becomes
\* that one, every other number stays.
LEMMA FormatCases ==
  ASSUME NEW n \in Nat
  PROVE  /\ formatNumber(n) \in Nat
         /\ \/ formatNumber(n) = n
            \/ \E W \in Nat : /\ formatNumber(n) = Scale * W
                              /\ Scale * W - n < Absorb /\ n - Scale * W < Absorb
<1> PICK W \in Nat : W = RoundDiv(n, Scale)
  BY RoundDivBounds, NumberAssumption
<1> PICK S \in Nat : S = Scale * W
  BY NumberAssumption
<1>1. W * Scale = S
  BY NumberAssumption
<1>2. formatNumber(n) = IF (IF n > S THEN n - S ELSE S - n) < Absorb THEN S ELSE n
  BY <1>1 DEF formatNumber
<1>3. CASE S - n < Absorb /\ n - S < Absorb
  <2>1. formatNumber(n) = S
    BY <1>2, <1>3, NumberAssumption
  <2> QED
    BY <2>1, <1>3
<1>4. CASE ~(S - n < Absorb /\ n - S < Absorb)
  BY <1>2, <1>4, NumberAssumption
<1> QED
  BY <1>3, <1>4

\* A number less than Absorb from a whole one becomes that one.
LEMMA FormatAbsorbs ==
  ASSUME NEW n \in Nat, NEW W \in Nat, Scale * W - n < Absorb, n - Scale * W < Absorb
  PROVE  formatNumber(n) = Scale * W
<1> PICK S \in Nat : S = Scale * W
  BY NumberAssumption
<1>1. 2 * S <= 2 * n + Scale /\ 2 * n + Scale < 2 * S + 2 * Scale
  BY NumberAssumption
<1>2. RoundDiv(n, Scale) = W
  BY <1>1, RoundDivUnique, NumberAssumption
<1>3. W * Scale = S
  BY NumberAssumption
<1> QED
  BY <1>2, <1>3, NumberAssumption DEF formatNumber

\* Whole numbers stay.
LEMMA FormatWhole ==
  ASSUME NEW W \in Nat
  PROVE  formatNumber(Scale * W) = Scale * W
<1> PICK S \in Nat : S = Scale * W
  BY NumberAssumption
<1>1. RoundDiv(S, Scale) = W
  BY RoundDivUnique, NumberAssumption
<1>2. W * Scale = S
  BY NumberAssumption
<1> QED
  BY <1>1, <1>2, NumberAssumption DEF formatNumber

\* A number that is less than Absorb from no whole one stays.
LEMMA FormatKeeps ==
  ASSUME NEW n \in Nat,
         \A W \in Nat : Scale * W - n >= Absorb \/ n - Scale * W >= Absorb
  PROVE  formatNumber(n) = n
<1>1. \A W \in Nat : Scale * W \in Nat
  BY NumberAssumption
<1> QED
  BY <1>1, FormatCases, NumberAssumption

\* Formatting twice is formatting once.
LEMMA FormatTwice ==
  ASSUME NEW n \in Nat
  PROVE  formatNumber(formatNumber(n)) = formatNumber(n)
BY FormatCases, FormatWhole

\* formatNumber moves a number by less than Absorb, if at all.
LEMMA FormatNear ==
  ASSUME NEW n \in Nat
  PROVE  /\ formatNumber(n) \in Nat
         /\ formatNumber(n) - n <= Absorb
         /\ n - formatNumber(n) <= Absorb
<1> PICK f \in Nat : f = formatNumber(n)
  BY FormatCases
<1>1. f - n <= Absorb /\ n - f <= Absorb
  BY FormatCases, NumberAssumption
<1> QED
  BY <1>1

\* The input price is twice the input ratio.
LEMMA Doubled ==
  ASSUME NEW r \in Nat
  PROVE  ratioToBasePrice(r) = formatNumber(2 * r)
<1>1. r * (2 * Scale) = Scale * (2 * r) /\ Scale * (2 * r) \in Nat
  BY NumberAssumption
<1>2. RoundDiv(Scale * (2 * r), Scale) = 2 * r
  <2> PICK p \in Nat : p = Scale * (2 * r)
    BY <1>1
  <2>1. 2 * p <= 2 * p + Scale /\ 2 * p + Scale < 2 * p + 2 * Scale
    BY NumberAssumption
  <2> QED
    BY <2>1, RoundDivUnique, NumberAssumption
<1>3. None \notin {r, 2 * Scale}
  BY NumberAssumption DEF None
<1> QED
  BY <1>1, <1>2, <1>3 DEF ratioToBasePrice, Times

\* Half of a number, rounded up.
LEMMA HalfBounds ==
  ASSUME NEW n \in Nat
  PROVE  \E h \in Nat : h = RoundDiv(n, 2) /\ (2 * h = n \/ 2 * h = n + 1)
<1>1. 2 \in Nat \ {0}
  OBVIOUS
<1> PICK h \in Nat : h = RoundDiv(n, 2) /\ 2 * (2 * h) <= 2 * n + 2 /\ 2 * n + 2 < 2 * (2 * h) + 2 * 2
  BY <1>1, RoundDivBounds
<1>2. 2 * h = n \/ 2 * h = n + 1
  OBVIOUS
<1> QED
  BY <1>2

\* Multiples that differ by less than what they are multiples of are equal.
LEMMA SameMultiple ==
  ASSUME NEW b \in Nat \ {0}, NEW x \in Nat, NEW y \in Nat,
         b * x - b * y < b, b * y - b * x < b
  PROVE  x = y
<1>1. b * x \in Nat /\ b * y \in Nat /\ b \in Nat
  OBVIOUS
<1>2. ~(x < y)
  <2> SUFFICES ASSUME x < y PROVE FALSE
    OBVIOUS
  <2>1. b * x + b <= b * y
    BY ProductGrows
  <2> QED
    BY <2>1, <1>1
<1>3. ~(y < x)
  <2> SUFFICES ASSUME y < x PROVE FALSE
    OBVIOUS
  <2>1. b * y + b <= b * x
    BY ProductGrows
  <2> QED
    BY <2>1, <1>1
<1> QED
  BY <1>2, <1>3

\* An input price is exact if the ratio it is saved as shows it again.
Exact(v) == ratioToBasePrice(formatNumber(RoundDiv(v, 2))) = v

\* The input price a normalised ratio shows is exact: if it was taken for a
\* whole number, so is twice the ratio it is saved as.
LEMMA ExactShown ==
  ASSUME NEW r \in Nat, formatNumber(r) = r
  PROVE  ratioToBasePrice(r) \in Nat /\ Exact(ratioToBasePrice(r))
<1> PICK v \in Nat : v = formatNumber(2 * r)
  BY FormatCases
<1>1. ratioToBasePrice(r) = v
  BY Doubled
<1>2. CASE v = 2 * r
  <2>1. RoundDiv(2 * r, 2) = r
    <3>1. 2 * (2 * r) <= 2 * (2 * r) + 2 /\ 2 * (2 * r) + 2 < 2 * (2 * r) + 2 * 2
      OBVIOUS
    <3> QED
      BY <3>1, RoundDivUnique
  <2> QED
    BY <2>1, <1>1, <1>2 DEF Exact
<1>3. ASSUME v # 2 * r PROVE Exact(v)
  <2> PICK W \in Nat : v = Scale * W /\ v - 2 * r < Absorb /\ 2 * r - v < Absorb
    BY <1>3, FormatCases
  <2> PICK h \in Nat : h = RoundDiv(v, 2) /\ (2 * h = v \/ 2 * h = v + 1)
    BY HalfBounds
  <2>1. 2 * h = v \/ 2 * h = v + 1
    OBVIOUS
  <2> PICK n \in Nat : n = formatNumber(h)
    BY FormatCases
  <2>2. CASE n = h
    <3>1. CASE 2 * h = v
      BY <2>2, <3>1, Doubled, FormatWhole DEF Exact
    <3>2. CASE 2 * h = v + 1
      <4>1. v - 2 * h < Absorb /\ 2 * h - v < Absorb
        BY <3>2, <1>3, NumberAssumption
      <4>2. formatNumber(2 * h) = v
        BY <4>1, FormatAbsorbs
      <4> QED
        BY <4>2, <2>2, Doubled DEF Exact
    <3> QED
      BY <2>1, <3>1, <3>2
  <2>3. CASE n # h
    <3> PICK V \in Nat : n = Scale * V /\ n - h < Absorb /\ h - n < Absorb
      BY <2>3, FormatCases
    <3>1. 2 * n - v < Scale /\ v - 2 * n < Scale
      BY <2>1, NumberAssumption
    <3>2. Scale * (2 * V) = 2 * n
      BY NumberAssumption
    <3>3. 2 * V = W
      BY <3>1, <3>2, SameMultiple, NumberAssumption
    <3>5. 2 * n = v
      BY <3>2, <3>3
    <3> QED
      BY <3>5, Doubled, FormatWhole DEF Exact
  <2> QED
    BY <2>2, <2>3
<1> QED
  BY <1>1, <1>2, <1>3

\* So is a typed one.
LEMMA ExactTyped ==
  ASSUME NEW v \in Typed
  PROVE  v \in Nat /\ Exact(v)
<1> PICK h \in Nat : h = v \div 2 /\ 2 * h = v /\ v \in Nat
  BY NumberAssumption
<1>1. 2 * (2 * h) <= 2 * v + 2 /\ 2 * v + 2 < 2 * (2 * h) + 2 * 2
  OBVIOUS
<1>2. RoundDiv(v, 2) = h
  BY <1>1, RoundDivUnique
<1>3. formatNumber(h) = h /\ formatNumber(2 * h) = v
  BY DigitsAssumption
<1> QED
  BY <1>2, <1>3, Doubled DEF Exact

\* Products and quotients of values are values.
LEMMA TimesType ==
  ASSUME NEW a \in Number, NEW b \in Number
  PROVE  Times(a, b) \in Number
<1>1. CASE a \in Nat /\ b \in Nat
  <2>1. a * b \in Nat
    BY <1>1
  <2>2. RoundDiv(a * b, Scale) \in Nat
    BY <2>1, RoundDivBounds, NumberAssumption
  <2> QED
    BY <2>2, FormatCases DEF Times, Number, Maybe
<1> QED
  BY <1>1 DEF Times, Number, Maybe

LEMMA RatioType ==
  ASSUME NEW a \in Number, NEW b \in Number
  PROVE  Ratio(a, b) \in Number
<1>1. CASE a \in Nat /\ b \in Nat \ {0}
  <2>1. a * Scale \in Nat
    BY <1>1, NumberAssumption
  <2>2. RoundDiv(a * Scale, b) \in Nat
    BY <2>1, <1>1, RoundDivBounds
  <2> QED
    BY <2>2, FormatCases DEF Ratio, Number, Maybe
<1> QED
  BY <1>1 DEF Ratio, Number, Maybe

\* A price turned into a ratio and back moves by no more than Slack.
LEMMA DerivedNear ==
  ASSUME NEW b \in Nat \ {0}, NEW p \in Number
  PROVE  Near(Times(b, Ratio(p, b)), p, Slack(b))
<1>1. CASE p = None
  BY <1>1 DEF Near, Times, Ratio
<1>2. ASSUME p \in Nat PROVE Near(Times(b, Ratio(p, b)), p, Slack(b))
  <2> PICK pS \in Nat : pS = p * Scale /\ pS = Scale * p
    BY <1>2, NumberAssumption
  <2> PICK q0 \in Nat : /\ q0 = RoundDiv(pS, b)
                        /\ 2 * (b * q0) <= 2 * pS + b
                        /\ 2 * pS + b < 2 * (b * q0) + 2 * b
    BY RoundDivBounds
  <2> PICK q \in Nat : q = formatNumber(q0) /\ q - q0 <= Absorb /\ q0 - q <= Absorb
    BY FormatNear
  <2> PICK bq \in Nat : bq = b * q
    OBVIOUS
  <2> PICK t \in Nat : /\ t = RoundDiv(bq, Scale)
                       /\ 2 * (Scale * t) <= 2 * bq + Scale
                       /\ 2 * bq + Scale < 2 * (Scale * t) + 2 * Scale
    BY RoundDivBounds, NumberAssumption
  <2> PICK u \in Nat : u = formatNumber(t) /\ u - t <= Absorb /\ t - u <= Absorb
    BY FormatNear
  <2>1. Ratio(p, b) = q /\ Times(b, q) = u
    BY <1>2 DEF Ratio, Times, None
  \* The quotient, multiplied by the base again.
  <2> PICK c \in Nat : c = b * (Absorb + 1)
    BY NumberAssumption
  <2> PICK bq0 \in Nat : bq0 = b * q0
    OBVIOUS
  <2>2. bq - bq0 <= c - b /\ bq0 - bq <= c - b
    <3>1. b * (q0 + Absorb - q) >= 0 /\ b * (q + Absorb - q0) >= 0
      BY NumberAssumption
    <3>2. /\ b * (q0 + Absorb - q) = bq0 + b * Absorb - bq
          /\ b * (q + Absorb - q0) = bq + b * Absorb - bq0
          /\ c = b * Absorb + b
      BY NumberAssumption
    <3>3. b * Absorb \in Nat
      BY NumberAssumption
    <3> QED
      BY <3>1, <3>2, <3>3
  \* In units of the price.
  <2> PICK F \in Nat : F = c \div Scale /\ Scale * F <= c /\ c < Scale * F + Scale
    BY DivBounds, NumberAssumption
  <2> PICK St \in Nat : St = Scale * t
    BY NumberAssumption
  <2> PICK SF \in Nat : SF = Scale * F
    BY NumberAssumption
  <2>3. 2 * bq0 <= 2 * pS + b /\ 2 * pS <= 2 * bq0 + b
    OBVIOUS
  <2>4. 2 * St <= 2 * bq + Scale /\ 2 * bq <= 2 * St + Scale
    BY NumberAssumption
  <2>5. St - pS < SF + 2 * Scale /\ pS - St < SF + 2 * Scale
    BY <2>2, <2>3, <2>4, NumberAssumption
  <2>6. t - p <= F + 1 /\ p - t <= F + 1
    <3>1. ~(p + F + 1 < t)
      <4> SUFFICES ASSUME p + F + 1 < t PROVE FALSE
        BY <1>2
      <4>1. Scale * (p + F + 1) + Scale <= St
        BY ProductGrows, <1>2, NumberAssumption
      <4>2. Scale * (p + F + 1) = pS + SF + Scale
        BY <1>2, NumberAssumption
      <4> QED
        BY <4>1, <4>2, <2>5, NumberAssumption
    <3>2. ~(t + F + 1 < p)
      <4> SUFFICES ASSUME t + F + 1 < p PROVE FALSE
        BY <1>2
      <4>1. Scale * (t + F + 1) + Scale <= pS
        BY ProductGrows, <1>2, NumberAssumption
      <4>2. Scale * (t + F + 1) = St + SF + Scale
        BY NumberAssumption
      <4> QED
        BY <4>1, <4>2, <2>5, NumberAssumption
    <3> QED
      BY <3>1, <3>2, <1>2
  <2>7. Slack(b) = F + Absorb + 1
    BY NumberAssumption DEF Slack
  <2> QED
    BY <2>1, <2>6, <2>7, <1>2, NumberAssumption DEF Near, None
<1> QED
  BY <1>1, <1>2 DEF Number, Maybe

\* A price per image, turned into dollars and back, moves by no more than this:
\* a number that was taken for whole once is whole in either currency.
LEMMA ImageNear ==
  ASSUME NEW v \in Nat, NEW R \in Nat \ {0}, R <= Rate
  PROVE  /\ formatNumber(RoundDiv(v, R)) \in Nat
         /\ Near(formatNumber(formatNumber(RoundDiv(v, R)) * R), v, Rate * (Absorb + 1))
<1> PICK u0 \in Nat : u0 = RoundDiv(v, R) /\ 2 * (R * u0) <= 2 * v + R /\ 2 * v + R < 2 * (R * u0) + 2 * R
  BY RoundDivBounds
<1> PICK u \in Nat : u = formatNumber(u0)
  BY FormatCases
<1> PICK Ru \in Nat : Ru = u * R /\ Ru = R * u
  OBVIOUS
<1> PICK Ru0 \in Nat : Ru0 = R * u0
  OBVIOUS
<1> PICK t \in Nat : t = formatNumber(Ru) /\ t - Ru <= Absorb /\ Ru - t <= Absorb
  BY FormatNear
<1> PICK c \in Nat : c = Rate * (Absorb + 1)
  BY NumberAssumption
<1>1. R * Absorb \in Nat /\ R * Absorb + R <= c /\ R + Absorb <= c
  <2>1. (Rate - R) * (Absorb + 1) >= 0 /\ (Rate - 1) * Absorb >= 0
    BY NumberAssumption
  <2>2. (Rate - R) * (Absorb + 1) = c - R * Absorb - R
    BY NumberAssumption
  <2>3. R * Absorb \in Nat /\ Rate * Absorb \in Nat
    BY NumberAssumption
  <2>4. (Rate - 1) * Absorb = Rate * Absorb - Absorb /\ c = Rate * Absorb + Rate
    BY NumberAssumption
  <2> QED
    BY <2>1, <2>2, <2>3, <2>4, NumberAssumption
<1>2. 2 * Ru0 <= 2 * v + R /\ 2 * v <= 2 * Ru0 + R
  OBVIOUS
<1>3. t - v <= c /\ v - t <= c
  <2>1. CASE u = u0
    BY <2>1, <1>1, <1>2, NumberAssumption
  <2>2. CASE u # u0
    <3> PICK W \in Nat : u = Scale * W /\ u - u0 < Absorb /\ u0 - u < Absorb
      BY <2>2, FormatCases
    <3>1. Ru = Scale * (W * R) /\ W * R \in Nat
      BY NumberAssumption
    <3>2. t = Ru
      BY <3>1, FormatWhole
    <3>3. R * (u0 + Absorb - u) >= 0 /\ R * (u + Absorb - u0) >= 0
      BY NumberAssumption
    <3>4. /\ R * (u0 + Absorb - u) = Ru0 + R * Absorb - Ru
          /\ R * (u + Absorb - u0) = Ru + R * Absorb - Ru0
      BY NumberAssumption
    <3> QED
      BY <3>2, <3>3, <3>4, <1>1, <1>2
  <2> QED
    BY <2>1, <2>2
<1> QED
  BY <1>3 DEF Near, None

\* How far two numbers are apart.
Dist(x, y) == IF x > y THEN x - y ELSE y - x

LEMMA DistType ==
  ASSUME NEW x \in Int, NEW y \in Int
  PROVE  Dist(x, y) \in Nat
BY DEF Dist

LEMMA DistTimes ==
  ASSUME NEW b \in Nat, NEW x \in Int, NEW y \in Int
  PROVE  Dist(b * x, b * y) = b * Dist(x, y)
<1>0. Dist(x, y) \in Nat /\ (x = y + Dist(x, y) \/ y = x + Dist(x, y))
  BY DEF Dist
<1>1. PICK d \in Nat : d = Dist(x, y) /\ (x = y + d \/ y = x + d)
  BY <1>0
<1>2. b * d \in Nat /\ b * x \in Int /\ b * y \in Int
  BY <1>1
<1>3. CASE x = y + d
  <2>1. b * x = b * y + b * d
    BY <1>3
  <2> QED
    BY <2>1, <1>2, <1>1 DEF Dist
<1>4. CASE y = x + d
  <2>1. b * y = b * x + b * d
    BY <1>4
  <2> QED
    BY <2>1, <1>2, <1>1 DEF Dist
<1> QED
  BY <1>1, <1>3, <1>4

\* A factor can be cancelled in a strict comparison.
LEMMA Cancel ==
  ASSUME NEW b \in Nat, NEW x \in Int, NEW y \in Int, b * x < b * y
  PROVE  x < y
<1> SUFFICES ASSUME y <= x PROVE FALSE
  OBVIOUS
<1>1. b * (x - y) >= 0
  OBVIOUS
<1>2. b * (x - y) = b * x - b * y /\ b * x \in Int /\ b * y \in Int
  OBVIOUS
<1> QED
  BY <1>1, <1>2

LEMMA RoundDivDist ==
  ASSUME NEW a \in Nat, NEW b \in Nat \ {0}
  PROVE  RoundDiv(a, b) \in Nat /\ 2 * Dist(b * RoundDiv(a, b), a) <= b
<1> PICK q \in Nat : q = RoundDiv(a, b) /\ 2 * (b * q) <= 2 * a + b /\ 2 * a + b < 2 * (b * q) + 2 * b
  BY RoundDivBounds
<1> PICK bq \in Nat : bq = b * q
  OBVIOUS
<1> QED
  BY DEF Dist

\* A product less than half a unit from a formatted price is shown as that price.
LEMMA LandsExactly ==
  ASSUME NEW y \in Nat, NEW p \in Nat, 2 * Dist(y, Scale * p) < Scale, formatNumber(p) = p
  PROVE  formatNumber(RoundDiv(y, Scale)) = p
<1> PICK P \in Nat : P = Scale * p
  BY NumberAssumption
<1>1. 2 * P <= 2 * y + Scale /\ 2 * y + Scale < 2 * P + 2 * Scale
  BY NumberAssumption DEF Dist
<1> QED
  BY <1>1, RoundDivUnique, NumberAssumption

\* So is one that is near a whole price.
LEMMA LandsNear ==
  ASSUME NEW n \in Nat, NEW p \in Nat, NEW W \in Nat, p = Scale * W, Dist(n, p) < Absorb
  PROVE  formatNumber(n) = p
BY FormatAbsorbs, NumberAssumption DEF Dist

\* The four numbers a ratio goes through: the price before and after it is
\* formatted, the quotient before and after.
Trip(b, r, p0, p, q0, q) ==
  /\ b \in Nat \ {0} /\ r \in Nat /\ p0 \in Nat /\ p \in Nat /\ q0 \in Nat /\ q \in Nat
  /\ p0 = RoundDiv(b * r, Scale) /\ p = formatNumber(p0)
  /\ q0 = RoundDiv(Scale * p, b) /\ q = formatNumber(q0)

\* How far they are apart.
LEMMA TripBounds ==
  ASSUME NEW b, NEW r, NEW p0, NEW p, NEW q0, NEW q, Trip(b, r, p0, p, q0, q)
  PROVE  /\ 2 * Dist(Scale * p0, b * r) <= Scale
         /\ 2 * Dist(b * q0, Scale * p) <= b
         /\ p # p0 => \E W \in Nat : p = Scale * W /\ Dist(p, p0) < Absorb
         /\ q # q0 => \E Q \in Nat : q = Scale * Q /\ Dist(q, q0) < Absorb
<1> USE DEF Trip
<1>1. b * r \in Nat /\ Scale * p \in Nat /\ Scale \in Nat \ {0} /\ Absorb \in Nat
  BY NumberAssumption
<1>2. 2 * Dist(Scale * p0, b * r) <= Scale /\ 2 * Dist(b * q0, Scale * p) <= b
  BY <1>1, RoundDivDist
<1>3. ASSUME NEW n \in Nat, NEW f \in Nat, f = formatNumber(n), f # n
      PROVE  \E W \in Nat : f = Scale * W /\ Dist(f, n) < Absorb
  <2> PICK W \in Nat : f = Scale * W /\ Scale * W - n < Absorb /\ n - Scale * W < Absorb
    BY <1>3, FormatCases
  <2>1. Dist(f, n) < Absorb
    BY <1>1 DEF Dist
  <2> QED
    BY <2>1
<1> QED
  BY <1>2, <1>3

\* The way of a ratio that comes back as it was.
LEMMA TripSame ==
  ASSUME NEW b, NEW r, NEW p0, NEW p, NEW q0, NEW q, Trip(b, r, p0, p, q0, q), q = r
  PROVE  formatNumber(RoundDiv(b * q, Scale)) = p
BY DEF Trip

\* The rounded quotient is as near as any other ratio.
LEMMA TripNearest ==
  ASSUME NEW b, NEW r, NEW p0, NEW p, NEW q0, NEW q, Trip(b, r, p0, p, q0, q), q0 # r
  PROVE  b <= 2 * Dist(b * r, Scale * p)
<1> USE DEF Trip
<1>a. PICK z \in Nat : z = b * q0
  OBVIOUS
<1>b. PICK x \in Nat : x = b * r
  OBVIOUS
<1>c. PICK P \in Nat : P = Scale * p
  BY NumberAssumption
<1>1. z = b * q0 /\ x = b * r /\ P = Scale * p
  BY <1>a, <1>b, <1>c
<1>2. Dist(q0, r) \in Nat /\ Dist(q0, r) >= 1
  BY DEF Dist
<1>3. Dist(z, x) >= b
  <2>1. Dist(z, x) = b * Dist(q0, r)
    BY <1>1, DistTimes
  <2>2. b * Dist(q0, r) >= b
    BY <1>2
  <2>3. b * Dist(q0, r) \in Nat
    BY <1>2
  <2> QED
    BY <2>1, <2>2, <2>3
<1>4. 2 * Dist(z, P) <= b
  BY <1>1, TripBounds
<1>5. b <= 2 * Dist(x, P)
  BY <1>3, <1>4 DEF Dist
<1> QED
  BY <1>1, <1>5

\* A multiple is divided without rounding.
LEMMA RoundDivMultiple ==
  ASSUME NEW n \in Nat, NEW b \in Nat \ {0}
  PROVE  RoundDiv(b * n, b) = n
<1> PICK bn \in Nat : bn = b * n
  OBVIOUS
<1>1. 2 * bn <= 2 * bn + b /\ 2 * bn + b < 2 * bn + 2 * b
  OBVIOUS
<1> QED
  BY <1>1, RoundDivUnique

\* A price near a whole one, in units of the products, is shown as that one.
LEMMA LandsMultiple ==
  ASSUME NEW n \in Nat, NEW p \in Nat, NEW W \in Nat, p = Scale * W,
         Dist(Scale * n, Scale * p) < Scale * Absorb
  PROVE  formatNumber(n) = p
<1>1. Scale * Dist(n, p) < Scale * Absorb
  BY DistTimes, NumberAssumption
<1>2. PICK d \in Nat : d = Dist(n, p)
  BY DistType
<1>3. Dist(n, p) < Absorb
  BY <1>1, <1>2, Cancel, NumberAssumption
<1> QED
  BY <1>3, LandsNear

LEMMA LandsRounded ==
  ASSUME NEW y \in Nat, NEW p \in Nat, NEW W \in Nat, p = Scale * W,
         2 * Dist(y, Scale * p) + Scale < 2 * (Scale * Absorb)
  PROVE  formatNumber(RoundDiv(y, Scale)) = p
<1>1. PICK n \in Nat : n = RoundDiv(y, Scale) /\ 2 * Dist(Scale * n, y) <= Scale
  BY RoundDivDist, NumberAssumption
<1>2. PICK P \in Nat : P = Scale * p
  BY NumberAssumption
<1>3. PICK N \in Nat : N = Scale * n
  BY NumberAssumption
<1>4. PICK T \in Nat : T = Scale * Absorb
  BY NumberAssumption
<1>5. Dist(N, P) < T
  BY <1>1, <1>2, <1>3, <1>4, NumberAssumption DEF Dist
<1> QED
  BY <1>1, <1>2, <1>3, <1>4, <1>5, LandsMultiple

\* A distance below Absorb, in units of a product.
LEMMA ScaledBelow ==
  ASSUME NEW b \in Nat \ {0}, NEW x \in Nat, NEW y \in Nat, Dist(x, y) < Absorb
  PROVE  Dist(b * x, b * y) + b <= b * Absorb
<1>1. Dist(b * x, b * y) = b * Dist(x, y)
  BY DistTimes
<1>2. PICK d \in Nat : d = Dist(x, y)
  BY DistType
<1>3. b * d + b <= b * Absorb
  BY <1>2, ProductGrows, NumberAssumption
<1> QED
  BY <1>1, <1>2, <1>3

\* A whole ratio: the price it gives is shown again.
LEMMA RoundTripWhole ==
  ASSUME NEW b, NEW r, NEW p0, NEW p, NEW q0, NEW q, Trip(b, r, p0, p, q0, q),
         NEW R \in Nat, r = Scale * R
  PROVE  formatNumber(RoundDiv(b * q, Scale)) = p
<1>t. /\ b \in Nat \ {0} /\ r \in Nat /\ p0 \in Nat /\ p \in Nat /\ q0 \in Nat /\ q \in Nat
      /\ Scale \in Nat \ {0} /\ Absorb \in Nat /\ 2 * Absorb <= Scale
  BY NumberAssumption DEF Trip
<1>1. b * r = Scale * (b * R) /\ b * R \in Nat
  BY <1>t
<1>2. p0 = b * R /\ b * r = Scale * p0
  BY <1>1, <1>t, RoundDivMultiple DEF Trip
<1>3. formatNumber(r) = r
  BY FormatWhole
<1>4. ASSUME q0 = r PROVE formatNumber(RoundDiv(b * q, Scale)) = p
  BY <1>3, <1>4, TripSame DEF Trip
<1>5. CASE p = p0
  <2>1. q0 = RoundDiv(b * r, b)
    BY <1>2, <1>5 DEF Trip
  <2> QED
    BY <2>1, <1>t, <1>4, RoundDivMultiple
<1>6. ASSUME p # p0, q0 # r PROVE formatNumber(RoundDiv(b * q, Scale)) = p
  <2>w. PICK W \in Nat : p = Scale * W /\ Dist(p, p0) < Absorb
    BY <1>6, TripBounds
  <2>x. PICK x \in Nat : x = b * r
    BY <1>t
  <2>z. PICK z \in Nat : z = b * q0
    BY <1>t
  <2>p. PICK P \in Nat : P = Scale * p
    BY <1>t
  <2>y. PICK y \in Nat : y = b * q
    BY <1>t
  <2>s. PICK SA \in Nat : SA = Scale * Absorb
    BY <1>t
  <2>b. PICK bA \in Nat : bA = b * Absorb
    BY <1>t
  <2>1. Dist(P, x) + Scale <= SA
    BY <2>w, <2>x, <2>p, <2>s, <1>2, <1>t, ScaledBelow
  <2>2. 2 * Dist(z, P) <= b
    BY <2>z, <2>p, TripBounds
  <2>3. b <= 2 * Dist(x, P)
    BY <1>6, <2>x, <2>p, TripNearest
  <2>4. CASE q = q0
    <3>1. 2 * Dist(y, P) + Scale < 2 * SA
      BY <2>1, <2>2, <2>3, <2>4, <2>y, <2>z, <1>t DEF Dist
    <3> QED
      BY <3>1, <2>w, <2>p, <2>s, <2>y, <1>t, LandsRounded
  <2>5. CASE q # q0
    <3>q. PICK Q \in Nat : q = Scale * Q /\ Dist(q, q0) < Absorb
      BY <2>5, TripBounds
    <3>n. PICK n \in Nat : n = b * Q
      BY <1>t
    <3>1. y = Scale * n /\ RoundDiv(y, Scale) = n
      BY <3>q, <3>n, <2>y, <1>t, RoundDivMultiple
    <3>2. Dist(y, z) + b <= bA
      BY <3>q, <2>y, <2>z, <2>b, <1>t, ScaledBelow
    <3>3. CASE b <= Scale
      <4>1. bA <= SA
        BY <3>3, <2>s, <2>b, <1>t
      <4>2. Dist(y, P) < SA
        BY <4>1, <3>2, <2>2, <1>t DEF Dist
      <4> QED
        BY <4>2, <3>1, <2>w, <2>p, <2>s, <2>y, <1>t, LandsMultiple
    <3>4. CASE Scale < b
      <4>1. CASE Q = R
        BY <4>1, <3>q, TripSame
      <4>2. ASSUME Q # R PROVE FALSE
        <5>1. PICK bS \in Nat : bS = b * Scale
          BY <1>t
        <5>2. Dist(y, x) >= bS
          <6>1. y = bS * Q /\ x = bS * R
            BY <5>1, <3>q, <2>y, <2>x, <1>t
          <6>2. Dist(y, x) = bS * Dist(Q, R)
            BY <6>1, DistTimes
          <6>3. Dist(Q, R) \in Nat /\ Dist(Q, R) >= 1
            BY <4>2 DEF Dist
          <6>4. bS * Dist(Q, R) >= bS
            BY <6>3
          <6> QED
            BY <6>2, <6>4
        <5>3. SA + b <= bA + Scale
          <6>1. Absorb >= 1
            BY <3>q, <1>t DEF Dist
          <6>2. (b - Scale) * (Absorb - 1) >= 0
            BY <6>1, <3>4, <1>t
          <6>3. (b - Scale) * (Absorb - 1) = bA - b - SA + Scale
            BY <2>b, <2>s, <1>t
          <6> QED
            BY <6>2, <6>3, <1>t
        <5>4. bS < 2 * bA
          BY <5>2, <5>3, <3>2, <2>1, <2>2, <1>t DEF Dist
        <5>5. b * Scale < b * (2 * Absorb)
          BY <5>4, <5>1, <2>b, <1>t
        <5> QED
          BY <5>5, Cancel, <1>t
      <4> QED
        BY <4>1, <4>2
    <3> QED
      BY <3>3, <3>4, <1>t
  <2> QED
    BY <2>4, <2>5
<1> QED
  BY <1>4, <1>5, <1>6

\* A ratio that is not almost whole: the price it gives is shown again.
LEMMA RoundTripOther ==
  ASSUME NEW b, NEW r, NEW p0, NEW p, NEW q0, NEW q, Trip(b, r, p0, p, q0, q),
         \A V \in Nat : 2 * Absorb <= Dist(Scale * V, r)
  PROVE  formatNumber(RoundDiv(b * q, Scale)) = p
<1>t. /\ b \in Nat \ {0} /\ r \in Nat /\ p0 \in Nat /\ p \in Nat /\ q0 \in Nat /\ q \in Nat
      /\ Scale \in Nat \ {0} /\ Absorb \in Nat /\ 2 * Absorb <= Scale
  BY NumberAssumption DEF Trip
<1>r. formatNumber(r) = r
  <2>1. ASSUME NEW V \in Nat
        PROVE  Scale * V - r >= Absorb \/ r - Scale * V >= Absorb
    <3>1. PICK S \in Nat : S = Scale * V
      BY <1>t
    <3>2. 2 * Absorb <= Dist(S, r)
      BY <3>1
    <3> QED
      BY <3>1, <3>2, <1>t DEF Dist
  <2> QED
    BY <2>1, <1>t, FormatKeeps
<1>4. ASSUME q0 = r PROVE formatNumber(RoundDiv(b * q, Scale)) = p
  BY <1>r, <1>4, TripSame DEF Trip
<1>x. PICK x \in Nat : x = b * r
  BY <1>t
<1>z. PICK z \in Nat : z = b * q0
  BY <1>t
<1>p. PICK P \in Nat : P = Scale * p
  BY <1>t
<1>p0. PICK P0 \in Nat : P0 = Scale * p0
  BY <1>t
<1>y. PICK y \in Nat : y = b * q
  BY <1>t
<1>s. PICK SA \in Nat : SA = Scale * Absorb
  BY <1>t
<1>b. PICK bA \in Nat : bA = b * Absorb
  BY <1>t
<1>1. 2 * Dist(P0, x) <= Scale /\ 2 * Dist(z, P) <= b
  BY <1>x, <1>z, <1>p, <1>p0, TripBounds
\* A quotient taken for whole is far from the ratio.
<1>2. ASSUME q # q0
      PROVE  \E n \in Nat : /\ y = Scale * n /\ RoundDiv(y, Scale) = n
                            /\ Dist(y, z) + b <= bA
                            /\ 2 * bA <= Dist(y, x)
  <2>q. PICK Q \in Nat : q = Scale * Q /\ Dist(q, q0) < Absorb
    BY <1>2, TripBounds
  <2>n. PICK n \in Nat : n = b * Q
    BY <1>t
  <2>1. y = Scale * n /\ RoundDiv(y, Scale) = n
    BY <2>q, <2>n, <1>y, <1>t, RoundDivMultiple
  <2>2. Dist(y, z) + b <= bA
    BY <2>q, <1>y, <1>z, <1>b, <1>t, ScaledBelow
  <2>3. 2 * bA <= Dist(y, x)
    <3>0. Dist(q, r) \in Nat /\ 2 * Absorb <= Dist(q, r)
      <4>1. 2 * Absorb <= Dist(Scale * Q, r)
        OBVIOUS
      <4>2. 2 * Absorb <= Dist(q, r)
        BY <4>1, <2>q
      <4>3. Dist(q, r) \in Nat
        BY <1>t, DistType
      <4> QED
        BY <4>2, <4>3
    <3>1. PICK d \in Nat : d = Dist(q, r) /\ 2 * Absorb <= d
      BY <3>0
    <3>2. Dist(y, x) = b * d
      BY <3>1, <1>x, <1>y, <1>t, DistTimes
    <3>3. b * (d - 2 * Absorb) >= 0
      BY <3>1, <1>t
    <3>4. b * (d - 2 * Absorb) = b * d - 2 * bA
      BY <3>1, <1>b, <1>t
    <3>5. b * d \in Nat
      BY <1>t
    <3> QED
      BY <3>2, <3>3, <3>4, <3>5
  <2> QED
    BY <2>1, <2>2, <2>3
\* The price was not taken for whole.
<1>5. ASSUME p = p0 PROVE formatNumber(RoundDiv(b * q, Scale)) = p
  <2>0. P = P0
    BY <1>5, <1>p, <1>p0
  <2>1. CASE b = Scale
    <3>1. p0 = r
      BY <2>1, <1>t, RoundDivMultiple DEF Trip
    <3>2. q0 = r
      BY <3>1, <2>1, <1>5, <1>t, RoundDivMultiple DEF Trip
    <3> QED
      BY <3>2, <1>4
  <2>2. CASE Scale < b
    <3>1. 2 * x <= 2 * P + b /\ 2 * P + b < 2 * x + 2 * b
      BY <2>0, <2>2, <1>1, <1>t DEF Dist
    <3>2. RoundDiv(P, b) = r
      BY <3>1, <1>x, <1>t, RoundDivUnique
    <3> QED
      BY <3>2, <1>p, <1>4 DEF Trip
  <2>3. ASSUME b < Scale, q = q0 PROVE formatNumber(RoundDiv(b * q, Scale)) = p
    <3>1. 2 * Dist(y, P) < Scale
      BY <2>3, <1>1, <1>y, <1>z, <1>t DEF Dist
    <3>2. formatNumber(p) = p
      BY <1>t, FormatTwice DEF Trip
    <3> QED
      BY <3>1, <3>2, <1>p, <1>y, <1>t, LandsExactly
  <2>4. ASSUME b < Scale, q # q0 PROVE formatNumber(RoundDiv(b * q, Scale)) = p
    <3>1. PICK n \in Nat : /\ y = Scale * n /\ RoundDiv(y, Scale) = n
                           /\ Dist(y, z) + b <= bA
                           /\ 2 * bA <= Dist(y, x)
      BY <2>4, <1>2
    <3>2. CASE n = p
      BY <3>1, <3>2, <1>y, <1>t, FormatTwice DEF Trip
    <3>3. ASSUME n # p PROVE FALSE
      <4>0. Dist(n, p) \in Nat /\ Dist(n, p) >= 1
        BY <3>3, <1>t DEF Dist
      <4>1. PICK d \in Nat : d = Dist(n, p) /\ d >= 1
        BY <4>0
      <4>2. Dist(y, P) = Scale * d
        BY <4>1, <3>1, <1>p, <1>t, DistTimes
      <4>3. Scale * d >= Scale /\ Scale * d \in Nat
        BY <4>1, <1>t
      <4>4. Dist(y, P) >= Scale
        BY <4>2, <4>3
      <4> QED
        BY <4>4, <3>1, <2>0, <1>1, <1>t DEF Dist
    <3> QED
      BY <3>2, <3>3
  <2> QED
    BY <2>1, <2>2, <2>3, <2>4, <1>t
\* The price was taken for whole.
<1>6. ASSUME p # p0, q0 # r PROVE formatNumber(RoundDiv(b * q, Scale)) = p
  <2>w. PICK W \in Nat : p = Scale * W /\ Dist(p, p0) < Absorb
    BY <1>6, TripBounds
  <2>1. Dist(P, P0) + Scale <= SA
    BY <2>w, <1>p, <1>p0, <1>s, <1>t, ScaledBelow
  <2>2. 2 * Dist(P, x) + Scale <= 2 * SA
    BY <2>1, <1>1, <1>t DEF Dist
  <2>3. b <= 2 * Dist(x, P)
    BY <1>6, <1>x, <1>p, TripNearest
  <2>4. CASE q = q0
    <3>1. 2 * Dist(y, P) + Scale < 2 * SA
      <4> SUFFICES ASSUME ~(2 * Dist(y, P) + Scale < 2 * SA) PROVE FALSE
        OBVIOUS
      <4>1. y = z
        BY <2>4, <1>y, <1>z
      <4>2. b = 2 * SA - Scale
        BY <4>1, <2>2, <2>3, <1>1, <1>t DEF Dist
      <4>3. PICK c \in Nat : c = (2 * Absorb - 1) * r
        <5>1. Absorb >= 1
          BY <2>w, <1>t DEF Dist
        <5>2. (2 * Absorb - 1) * r >= 0
          BY <5>1, <1>t
        <5> QED
          BY <5>2, <1>t
      <4>4. x = Scale * c
        BY <4>2, <4>3, <1>x, <1>s, <1>t
      <4>5. p0 = c
        BY <4>4, <4>3, <1>x, <1>t, RoundDivMultiple DEF Trip
      <4>6. P0 = x
        BY <4>4, <4>5, <1>p0
      <4> QED
        BY <4>2, <4>6, <2>1, <2>3, <1>t DEF Dist
    <3> QED
      BY <3>1, <2>w, <1>p, <1>s, <1>y, <1>t, LandsRounded
  <2>5. CASE q # q0
    <3>1. PICK n \in Nat : /\ y = Scale * n /\ RoundDiv(y, Scale) = n
                           /\ Dist(y, z) + b <= bA
                           /\ 2 * bA <= Dist(y, x)
      BY <2>5, <1>2
    <3>2. CASE Scale <= b
      <4>1. SA <= bA
        BY <3>2, <1>s, <1>b, <1>t
      <4> QED
        BY <4>1, <3>1, <2>2, <1>1, <1>t DEF Dist
    <3>3. CASE b < Scale
      <4>1. bA <= SA
        BY <3>3, <1>s, <1>b, <1>t
      <4>2. Dist(y, P) < SA
        BY <4>1, <3>1, <1>1, <1>t DEF Dist
      <4> QED
        BY <4>2, <3>1, <2>w, <1>p, <1>s, <1>y, <1>t, LandsMultiple
    <3> QED
      BY <3>2, <3>3, <1>t
  <2> QED
    BY <2>4, <2>5
<1> QED
  BY <1>4, <1>5, <1>6

\* For any base and precision: a price made from a plain ratio, turned into a
\* ratio (serializeModel) and back into a price (buildModelState), is the same
\* price, though the ratio may not be the same ratio.
THEOREM RoundTrip ==
  ASSUME NEW b \in Nat \ {0}, NEW r \in Number, Plain(r)
  PROVE  Times(b, Ratio(Times(b, r), b)) = Times(b, r)
<1>1. CASE r = None
  BY <1>1 DEF Times, Ratio
<1>2. ASSUME r \in Nat PROVE Times(b, Ratio(Times(b, r), b)) = Times(b, r)
  <2>t. /\ Scale \in Nat \ {0} /\ Absorb \in Nat /\ 2 * Absorb <= Scale /\ b # None /\ r # None
    BY <1>2, NumberAssumption DEF None
  <2>x. b * r \in Nat
    BY <1>2
  <2>p0. PICK p0 \in Nat : p0 = RoundDiv(b * r, Scale)
    BY <2>x, <2>t, RoundDivBounds
  <2>p. PICK p \in Nat : p = formatNumber(p0)
    BY FormatCases
  <2>P. Scale * p \in Nat /\ p * Scale = Scale * p
    BY <2>t
  <2>q0. PICK q0 \in Nat : q0 = RoundDiv(Scale * p, b)
    BY <2>P, RoundDivBounds
  <2>q. PICK q \in Nat : q = formatNumber(q0)
    BY FormatCases
  <2>1. Trip(b, r, p0, p, q0, q)
    BY <1>2, <2>p0, <2>p, <2>q0, <2>q DEF Trip
  <2>2. p # None /\ q # None
    BY DEF None
  <2>3. Times(b, r) = p
    BY <2>t, <2>p0, <2>p DEF Times
  <2>4. Ratio(p, b) = q
    BY <2>t, <2>2, <2>P, <2>q0, <2>q DEF Ratio
  <2>5. Times(b, q) = formatNumber(RoundDiv(b * q, Scale))
    BY <2>t, <2>2 DEF Times
  <2>6. formatNumber(RoundDiv(b * q, Scale)) = p
    <3>1. PICK R \in Nat, o \in Nat : r = Scale * R + o /\ o < Scale /\ o = r % Scale
      BY <1>2, <2>t
    <3>2. CASE o = 0
      <4>1. r = Scale * R
        BY <3>1, <3>2, <2>t
      <4> QED
        BY <4>1, <2>1, RoundTripWhole
    <3>3. CASE o # 0
      <4>1. 2 * Absorb <= o /\ o <= Scale - 2 * Absorb
        BY <3>1, <3>3, <2>t DEF Plain
      <4>2. ASSUME NEW V \in Nat PROVE 2 * Absorb <= Dist(Scale * V, r)
        <5>1. PICK sV \in Nat : sV = Scale * V
          BY <2>t
        <5>2. PICK sR \in Nat : sR = Scale * R
          BY <2>t
        <5>3. CASE V <= R
          <6>1. sV <= sR
            BY <5>1, <5>2, <5>3, <2>t
          <6> QED
            BY <6>1, <5>1, <5>2, <4>1, <3>1, <1>2, <2>t DEF Dist
        <5>4. CASE R < V
          <6>1. sR + Scale <= sV
            BY <5>1, <5>2, <5>4, <2>t, ProductGrows
          <6> QED
            BY <6>1, <5>1, <5>2, <4>1, <3>1, <1>2, <2>t DEF Dist
        <5> QED
          BY <5>3, <5>4
      <4> QED
        BY <4>2, <2>1, RoundTripOther
    <3> QED
      BY <3>2, <3>3
  <2> QED
    BY <2>3, <2>4, <2>5, <2>6
<1> QED
  BY <1>1, <1>2 DEF Number, Maybe

-----------------------------------------------------------------------------
(* The price page: its inductive invariant *)

\* A model's values in the maps, the input ratio as the page writes it.
GoodEntry(e) ==
  /\ IsEntry(e)
  /\ toNormalizedNumber(e["ModelRatio"]) = e["ModelRatio"]

\* A form whose input price the ratio it is saved as shows again.
GoodForm(f) ==
  /\ DOMAIN f = {"fixed", "input", "price", "lock", "raw", "tier", "unit", "imageFixed", "imageRow"}
  /\ f.input \in Number /\ (f.input # None => Exact(f.input))
  /\ DOMAIN f.price = PriceKeys /\ \A k \in PriceKeys : f.price[k] \in Number
  /\ f.lock \in Number /\ f.fixed \in Number
  /\ f.imageFixed \in Number /\ f.imageRow \in Number /\ f.unit \in Units
  /\ DOMAIN f.tier = TierKeys /\ \A k \in TierKeys : f.tier[k] \in Number
  /\ GoodEntry(f.raw)

\* The maps on the server, on the page and in writes that are on their way.
GoodMaps ==
  /\ \A m \in Models : GoodEntry(stored[m]) /\ GoodEntry(options[m])
  /\ \A w \in stray : \A m \in Models : GoodEntry(w[2][m])

\* The list on the page.
GoodList ==
  /\ DOMAIN models \subseteq Models /\ pending \subseteq Models
  /\ \A m \in DOMAIN models : GoodForm(models[m])

\* What a save writes for a form.
Translated(f, e) ==
  /\ \A k \in RatioKeys : e[k] = Ratios(f)[k]
  /\ e["ImagePrice"] = ImageMaps(f).ImagePrice

\* What a save writes is made from the list of the moment it began.
GoodOutput ==
  /\ DOMAIN save = {"phase", "output", "list", "todo", "refused", "deleted", "kept"}
  /\ \A m \in Models : GoodEntry(save.output[m])
  /\ DOMAIN save.list \subseteq Models /\ save.deleted \subseteq Models
  /\ \A m \in DOMAIN save.list :
       GoodForm(save.list[m]) /\ ~Throws(save.list[m]) /\ Translated(save.list[m], save.output[m])
  /\ \A m \in save.deleted : save.output[m] = Blank

\* Until a save ends the maps it kept a model's form from are the page's.
GoodKept ==
  save.phase = "putting" =>
    \A m \in save.kept : m \in DOMAIN save.list /\ save.list[m] = buildModelState(m, options[m])

\* A save none of whose writes was refused has written every map but those of
\* the writes that are left.
GoodProgress ==
  /\ save.phase \in {"idle", "putting", "refreshing"}
  /\ save.phase # "putting" => save.todo = {}
  /\ save.phase = "refreshing" => save.refused = FALSE
  /\ save.phase # "idle" /\ own = TRUE /\ save.refused = FALSE =>
       \A m \in Models, k \in Keys :
         stored[m][k] = save.output[m][k] \/ \E w \in save.todo : k \in w
  /\ claimed = TRUE => save.phase = "idle" /\ \A m \in Models : stored[m] = save.output[m]

PageInv == GoodMaps /\ GoodList /\ GoodOutput /\ GoodKept /\ GoodProgress

-----------------------------------------------------------------------------
(* Forms and entries *)

LEMMA KeyFacts ==
  /\ "ModelRatio" \in RatioKeys /\ PriceKeys \subseteq RatioKeys /\ RatioKeys \subseteq Keys
  /\ "ImagePrice" \in Keys /\ "ModelRatio" \in Keys
  /\ {"CompletionRatio", "AudioRatio", "AudioCompletionRatio"} \subseteq PriceKeys
  /\ "ModelRatio" \notin PriceKeys
  /\ "ModelPrice" \notin RatioKeys /\ "ImagePrice" \notin RatioKeys
  /\ "ImagePricingRules" \notin RatioKeys
  /\ "ImagePrice" \notin OptionalTierKeys /\ "ModelTierRatio" \notin RatioKeys
  /\ RatioKeys \cap OptionalTierKeys = {}
  /\ TierKeys \subseteq Keys \ {"ImagePricingRules"} /\ "ModelPrice" \in Keys
  /\ RatioKeys \cup {"ImagePrice"} \subseteq Keys \ {"ImagePricingRules"}
BY NameAssumption DEF RatioKeys, PriceKeys, Keys, TierKeys

\* Entries hold numbers.
LEMMA EntryNumbers ==
  ASSUME NEW e, GoodEntry(e)
  PROVE  \A k \in RatioKeys \cup TierKeys \cup {"ImagePrice", "ModelPrice"} : e[k] \in Number
BY KeyFacts, NameAssumption DEF GoodEntry, IsEntry, RatioKeys, PriceKeys

LEMMA NormalizedType ==
  ASSUME NEW n \in Number
  PROVE  /\ toNormalizedNumber(n) \in Number
         /\ toNormalizedNumber(toNormalizedNumber(n)) = toNormalizedNumber(n)
<1>1. CASE n = None
  BY <1>1 DEF toNormalizedNumber, Number, Maybe
<1>2. ASSUME n \in Nat
      PROVE  /\ toNormalizedNumber(n) \in Number
             /\ toNormalizedNumber(toNormalizedNumber(n)) = toNormalizedNumber(n)
  <2> PICK f \in Nat : f = formatNumber(n) /\ formatNumber(f) = f
    BY <1>2, FormatCases, FormatTwice
  <2>1. n # None /\ f # None
    BY <1>2 DEF None
  <2> QED
    BY <2>1 DEF toNormalizedNumber, Number, Maybe
<1> QED
  BY <1>1, <1>2 DEF Number, Maybe

LEMMA RateFacts ==
  ASSUME NEW unit
  PROVE  RateOf(unit) \in Nat \ {0} /\ RateOf(unit) <= Rate
BY NumberAssumption DEF RateOf

LEMMA DisplayType ==
  ASSUME NEW v \in Number, NEW unit
  PROVE  fromUSDToDisplay(v, unit) \in Number
<1>1. CASE v = None
  BY <1>1 DEF fromUSDToDisplay, Number, Maybe
<1>2. ASSUME v \in Nat PROVE fromUSDToDisplay(v, unit) \in Number
  <2>1. v * RateOf(unit) \in Nat
    BY <1>2, RateFacts
  <2>2. formatNumber(v * RateOf(unit)) \in Nat
    BY <2>1, FormatCases
  <2> QED
    BY <2>2, <1>2 DEF fromUSDToDisplay, Number, Maybe, None
<1> QED
  BY <1>1, <1>2 DEF Number, Maybe

\* The input price of a normalised ratio is exact.
LEMMA BasePrice ==
  ASSUME NEW r \in Number, toNormalizedNumber(r) = r
  PROVE  /\ ratioToBasePrice(r) \in Number
         /\ r = None <=> ratioToBasePrice(r) = None
         /\ r # None => Exact(ratioToBasePrice(r))
<1>1. CASE r = None
  BY <1>1 DEF ratioToBasePrice, Times, Number, Maybe
<1>2. ASSUME r \in Nat, r # None
      PROVE  ratioToBasePrice(r) \in Nat /\ Exact(ratioToBasePrice(r))
  <2>1. formatNumber(r) = r
    BY <1>2 DEF toNormalizedNumber
  <2> QED
    BY <2>1, <1>2, ExactShown
<1>3. \A n \in Nat : n # None
  BY DEF None
<1> QED
  BY <1>1, <1>2, <1>3 DEF Number, Maybe

LEMMA PricesType ==
  ASSUME NEW e, GoodEntry(e), NEW locked \in Number
  PROVE  /\ DOMAIN Prices(e, locked) = PriceKeys
         /\ \A k \in PriceKeys : Prices(e, locked)[k] \in Number
<1>1. PICK base \in Number : base = ratioToBasePrice(e["ModelRatio"])
  BY BasePrice, EntryNumbers, KeyFacts DEF GoodEntry
<1>2. PICK audio \in Number : audio = Times(base, e["AudioRatio"])
  BY TimesType, EntryNumbers, KeyFacts
<1>3. Prices(e, locked) = [k \in PriceKeys |->
        CASE k = "CompletionRatio" -> Times(base, IF locked # None THEN locked ELSE e[k])
          [] k = "AudioCompletionRatio" -> Times(audio, e[k])
          [] OTHER -> Times(base, e[k])]
  BY <1>1, <1>2 DEF Prices
<1>4. ASSUME NEW k \in PriceKeys PROVE Prices(e, locked)[k] \in Number
  <2>1. e[k] \in Number
    BY EntryNumbers, KeyFacts
  <2>2. CASE k = "CompletionRatio"
    BY <1>3, <2>1, <2>2, TimesType
  <2>3. CASE k = "AudioCompletionRatio"
    BY <1>3, <2>1, <2>3, TimesType
  <2>4. CASE k \notin {"CompletionRatio", "AudioCompletionRatio"}
    BY <1>3, <2>1, <2>4, TimesType
  <2> QED
    BY <2>2, <2>3, <2>4
<1> QED
  BY <1>3, <1>4

\* The form of a good entry is good.
LEMMA Built ==
  ASSUME NEW m \in Models, NEW e, GoodEntry(e)
  PROVE  GoodForm(buildModelState(m, e))
<1>1. LockedRatio[m] \in Number
  BY NumberAssumption DEF Number
<1>2. PICK f : f = buildModelState(m, e)
  OBVIOUS
<1>3. /\ DOMAIN f = {"fixed", "input", "price", "lock", "raw", "tier", "unit", "imageFixed", "imageRow"}
      /\ f.input = ratioToBasePrice(e["ModelRatio"])
      /\ f.price = Prices(e, LockedRatio[m])
      /\ f.lock = LockedRatio[m]
      /\ f.raw = e
      /\ f.fixed = e["ModelPrice"] /\ f.tier = [k \in TierKeys |-> e[k]]
      /\ f.imageFixed = fromUSDToDisplay(e["ImagePrice"], f.unit)
      /\ f.imageRow = fromUSDToDisplay(e["ImagePricingRules"].row, f.unit)
      /\ f.unit = IF e["ImagePricingRules"].unit \in {"USD", "CNY", "CUSTOM"}
                  THEN e["ImagePricingRules"].unit ELSE DefaultUnit
  BY <1>2 DEF buildModelState
<1>4. f.input \in Number /\ (f.input # None => Exact(f.input))
  BY <1>3, BasePrice, EntryNumbers, KeyFacts DEF GoodEntry
<1>5. DOMAIN f.price = PriceKeys /\ \A k \in PriceKeys : f.price[k] \in Number
  BY <1>1, <1>3, PricesType
<1>6. f.imageFixed \in Number /\ f.imageRow \in Number /\ f.fixed \in Number
  BY <1>3, DisplayType, EntryNumbers DEF GoodEntry, IsEntry
<1>7. f.unit \in Units
  BY <1>3, NameAssumption DEF GoodEntry, IsEntry
<1>8. DOMAIN f.tier = TierKeys /\ \A k \in TierKeys : f.tier[k] \in Number
  BY <1>3, EntryNumbers
<1> QED
  BY <1>1, <1>2, <1>3, <1>4, <1>5, <1>6, <1>7, <1>8 DEF GoodForm

LEMMA BlankGood == GoodEntry(Blank)
<1>1. \A k \in Keys \ {"ImagePricingRules"} : Blank[k] = None
  BY DEF Blank
<1>2. Blank = [k \in Keys |-> Blank[k]]
  BY DEF Blank
<1>3. Blank["ImagePricingRules"] = NoRules
  BY DEF Blank, Keys
<1>4. IsEntry(Blank)
  BY <1>1, <1>2, <1>3 DEF IsEntry, NoRules, Number, Maybe
<1> QED
  BY <1>1, <1>4, KeyFacts DEF GoodEntry, toNormalizedNumber

LEMMA EmptyGood == GoodForm(EmptyModel)
BY BlankGood, NameAssumption DEF GoodForm, EmptyModel, Number, Maybe

LEMMA HalfType ==
  ASSUME NEW v \in Nat
  PROVE  /\ formatNumber(RoundDiv(v, 2)) \in Number
         /\ toNormalizedNumber(formatNumber(RoundDiv(v, 2))) = formatNumber(RoundDiv(v, 2))
<1>1. PICK h \in Nat : h = RoundDiv(v, 2)
  BY HalfBounds
<1>2. PICK f \in Nat : f = formatNumber(h) /\ formatNumber(f) = f
  BY FormatCases, FormatTwice
<1> QED
  BY <1>1, <1>2 DEF toNormalizedNumber, Number, Maybe

\* The ratios of a good form.
LEMMA RatiosType ==
  ASSUME NEW f, GoodForm(f)
  PROVE  /\ \A k \in RatioKeys : Ratios(f)[k] \in Number
         /\ toNormalizedNumber(Ratios(f)["ModelRatio"]) = Ratios(f)["ModelRatio"]
<1>1. CASE f.input = None
  <2>1. \A k \in RatioKeys : Ratios(f)[k] = toNormalizedNumber(f.raw[k])
    BY <1>1 DEF Ratios
  <2> QED
    BY <2>1, NormalizedType, EntryNumbers, KeyFacts DEF GoodForm
<1>2. ASSUME f.input # None
      PROVE  /\ \A k \in RatioKeys : Ratios(f)[k] \in Number
             /\ toNormalizedNumber(Ratios(f)["ModelRatio"]) = Ratios(f)["ModelRatio"]
  <2>0. f.input \in Nat /\ f.input \in Number
    BY <1>2 DEF GoodForm, Number, Maybe
  <2>1. Ratios(f)["ModelRatio"] = formatNumber(RoundDiv(f.input, 2))
    BY <1>2, KeyFacts DEF Ratios
  <2>2. ASSUME NEW k \in PriceKeys PROVE Ratios(f)[k] \in Number
    <3>1. k \in RatioKeys /\ k # "ModelRatio" /\ f.price[k] \in Number /\ f.raw[k] \in Number
          /\ f.price["AudioRatio"] \in Number
      BY EntryNumbers, KeyFacts DEF GoodForm
    <3>2. Ratios(f)[k] \in {toNormalizedNumber(f.raw[k]), Ratio(f.price[k], f.price["AudioRatio"]),
                            Ratio(f.price[k], f.input)}
      BY <3>1, <1>2 DEF Ratios
    <3>3. /\ toNormalizedNumber(f.raw[k]) \in Number
          /\ Ratio(f.price[k], f.price["AudioRatio"]) \in Number
          /\ Ratio(f.price[k], f.input) \in Number
      BY <3>1, <2>0, NormalizedType, RatioType
    <3> QED
      BY <3>2, <3>3
  <2>3. \A k \in RatioKeys : k = "ModelRatio" \/ k \in PriceKeys
    BY DEF RatioKeys
  <2> QED
    BY <2>0, <2>1, <2>2, <2>3, HalfType
<1> QED
  BY <1>1, <1>2

LEMMA ImagePriceType ==
  ASSUME NEW f, GoodForm(f)
  PROVE  ImageMaps(f).ImagePrice \in Number
<1>1. ImageMaps(f).ImagePrice \in {None, toNormalizedNumber(f.raw["ImagePrice"])}
        \/ (f.imageFixed # None /\
            ImageMaps(f).ImagePrice = formatNumber(RoundDiv(f.imageFixed, RateOf(f.unit))))
  BY DEF ImageMaps
<1>2. toNormalizedNumber(f.raw["ImagePrice"]) \in Number /\ None \in Number
  BY NormalizedType, EntryNumbers DEF GoodForm, Number, Maybe
<1>3. ASSUME f.imageFixed # None
      PROVE  formatNumber(RoundDiv(f.imageFixed, RateOf(f.unit))) \in Number
  <2>1. f.imageFixed \in Nat
    BY <1>3 DEF GoodForm, Number, Maybe
  <2>2. RoundDiv(f.imageFixed, RateOf(f.unit)) \in Nat
    BY <2>1, RateFacts, RoundDivBounds
  <2> QED
    BY <2>2, FormatCases DEF Number, Maybe
<1> QED
  BY <1>1, <1>2, <1>3

\* What a good form is saved as is a good entry.
LEMMA Serialized ==
  ASSUME NEW f, GoodForm(f), NEW shown
  PROVE  GoodEntry(serializeModel(f, shown)) /\ Translated(f, serializeModel(f, shown))
<1>1. PICK e : e = serializeModel(f, shown)
  OBVIOUS
<1>2. e = [k \in Keys |-> e[k]]
  BY <1>1 DEF serializeModel
<1>3. ASSUME NEW k \in RatioKeys PROVE e[k] = Ratios(f)[k]
  BY <1>1, KeyFacts DEF serializeModel
<1>4. e["ImagePrice"] = ImageMaps(f)["ImagePrice"]
  BY <1>1, KeyFacts DEF serializeModel
<1>5. ImageMaps(f)["ImagePrice"] = ImageMaps(f).ImagePrice
  OBVIOUS
<1>6. \A k \in RatioKeys \cup {"ImagePrice"} : e[k] \in Number
  BY <1>3, <1>4, <1>5, RatiosType, ImagePriceType
<1>7. toNormalizedNumber(e["ModelRatio"]) = e["ModelRatio"]
  BY <1>3, RatiosType, KeyFacts
<1>8. e["ModelPrice"] \in Number
  <2>1. e["ModelPrice"] \in {None, toNormalizedNumber(f.fixed)}
    BY <1>1, KeyFacts, NameAssumption DEF serializeModel
  <2>2. toNormalizedNumber(f.fixed) \in Number /\ None \in Number
    BY NormalizedType DEF GoodForm, Number, Maybe
  <2> QED
    BY <2>1, <2>2
<1>9. ASSUME NEW k \in TierKeys PROVE e[k] \in Number
  <2>1. k \in Keys /\ k \notin RatioKeys /\ k # "ModelPrice"
    BY KeyFacts, NameAssumption DEF TierKeys
  <2>2. e[k] \in {None, f.tier[k]}
    <3>1. CASE k \in OptionalTierKeys
      <4>1. k # "ModelTierRatio"
        BY <3>1, NameAssumption
      <4> QED
        BY <4>1, <3>1, <2>1, <1>1 DEF serializeModel
    <3>2. CASE k \notin OptionalTierKeys
      <4>1. k = "ModelTierRatio"
        BY <3>2 DEF TierKeys
      <4> QED
        BY <4>1, <3>2, <2>1, <1>1 DEF serializeModel
    <3> QED
      BY <3>1, <3>2
  <2> QED
    BY <2>2 DEF GoodForm, Number, Maybe
<1>10. /\ e["ImagePricingRules"].unit \in Units \cup {"none"}
       /\ e["ImagePricingRules"].row \in Number
  <2>1. e["ImagePricingRules"] = ImageMaps(f)["ImagePricingRules"]
    <3>1. "ImagePricingRules" \in Keys /\ "ImagePricingRules" \notin OptionalTierKeys
      BY NameAssumption DEF Keys
    <3> QED
      BY <3>1, <1>1, KeyFacts DEF serializeModel
  <2>2. ImageMaps(f)["ImagePricingRules"] \in
          {NoRules, f.raw["ImagePricingRules"],
           [unit |-> f.unit, row |-> f.imageRow], [unit |-> f.unit, row |-> None]}
    BY DEF ImageMaps
  <2>3. /\ f.unit \in Units /\ f.imageRow \in Number
        /\ f.raw["ImagePricingRules"].unit \in Units \cup {"none"}
        /\ f.raw["ImagePricingRules"].row \in Number
    BY DEF GoodForm, GoodEntry, IsEntry
  <2> QED
    BY <2>1, <2>2, <2>3 DEF NoRules, Number, Maybe
<1>11. ASSUME NEW k \in Keys \ {"ImagePricingRules"} PROVE e[k] \in Number
  <2>1. k \in RatioKeys \cup {"ImagePrice"} \/ k = "ModelPrice" \/ k \in TierKeys
    BY DEF Keys
  <2> QED
    BY <2>1, <1>6, <1>8, <1>9
<1>12. GoodEntry(e)
  BY <1>2, <1>7, <1>10, <1>11 DEF GoodEntry, IsEntry
<1> QED
  BY <1>1, <1>3, <1>4, <1>5, <1>12 DEF Translated

\* Numbers an administrator types, and the empty field.
LEMMA TypedGood ==
  ASSUME NEW v \in Maybe(Typed)
  PROVE  v \in Number /\ (v # None => v \in Nat /\ Exact(v))
<1>1. CASE v = None
  BY <1>1 DEF Number, Maybe
<1>2. CASE v \in Typed
  BY <1>2, ExactTyped DEF Number, Maybe
<1> QED
  BY <1>1, <1>2 DEF Maybe

\* A form with other prices.
LEMMA PricesChanged ==
  ASSUME NEW f, GoodForm(f), NEW p, DOMAIN p = PriceKeys, \A k \in PriceKeys : p[k] \in Number
  PROVE  GoodForm([f EXCEPT !.price = p])
BY DEF GoodForm

\* A form with another input price.
LEMMA InputChanged ==
  ASSUME NEW f, GoodForm(f), NEW v \in Maybe(Typed)
  PROVE  GoodForm([f EXCEPT !.input = v])
BY TypedGood DEF GoodForm

\* The prices filled in when an input price is typed.
LEMMA FilledGood ==
  ASSUME NEW f, GoodForm(f), NEW v \in Maybe(Typed), v # None
  PROVE  GoodForm(fillDerivedPricesFromBase(f, v))
<1>1. v \in Nat /\ v \in Number
  BY TypedGood
<1>2. PICK p : p = fillDerivedPricesFromBase(f, v).price
  OBVIOUS
<1>3. fillDerivedPricesFromBase(f, v) = [f EXCEPT !.price = p]
  BY <1>2 DEF fillDerivedPricesFromBase, GoodForm
<1>4. DOMAIN p = PriceKeys
  BY <1>2 DEF fillDerivedPricesFromBase, GoodForm
<1>5. ASSUME NEW k \in PriceKeys PROVE p[k] \in Number
  <2>0. f.price[k] \in Number /\ f.raw[k] \in Number /\ f.raw["AudioRatio"] \in Number /\ f.lock \in Number
    BY EntryNumbers, KeyFacts DEF GoodForm
  <2>1. p[k] \in {Times(v, f.lock), Times(v, f.raw[k]), f.price[k], None}
          \/ (/\ None \notin {f.raw["AudioRatio"], f.raw[k]}
              /\ p[k] = formatNumber(RoundDiv(v * f.raw["AudioRatio"] * f.raw[k], Scale * Scale)))
    BY <1>2 DEF fillDerivedPricesFromBase, GoodForm
  <2>2. /\ Times(v, f.lock) \in Number /\ Times(v, f.raw[k]) \in Number /\ None \in Number
    BY <1>1, <2>0, TimesType DEF Number, Maybe
  <2>3. ASSUME None \notin {f.raw["AudioRatio"], f.raw[k]}
        PROVE  formatNumber(RoundDiv(v * f.raw["AudioRatio"] * f.raw[k], Scale * Scale)) \in Number
    <3>1. PICK a \in Nat, c \in Nat : a = f.raw["AudioRatio"] /\ c = f.raw[k]
      BY <2>0, <2>3 DEF Number, Maybe
    <3>2. v * a * c \in Nat /\ Scale * Scale \in Nat \ {0}
      BY <1>1, NumberAssumption
    <3>3. RoundDiv(v * a * c, Scale * Scale) \in Nat
      BY <3>2, RoundDivBounds
    <3>4. formatNumber(RoundDiv(v * a * c, Scale * Scale)) \in Nat
      BY <3>3, FormatCases
    <3> QED
      BY <3>1, <3>4 DEF Number, Maybe
  <2> QED
    BY <2>0, <2>1, <2>2, <2>3
<1> QED
  BY <1>3, <1>4, <1>5, PricesChanged

\* A form whose other fields changed.
LEMMA OthersChanged ==
  ASSUME NEW f, GoodForm(f), NEW g, DOMAIN g = DOMAIN f,
         g.input = f.input, g.price = f.price, g.lock = f.lock, g.raw = f.raw,
         g.fixed \in Number, g.imageFixed \in Number, g.imageRow \in Number, g.unit \in Units,
         DOMAIN g.tier = TierKeys, \A k \in TierKeys : g.tier[k] \in Number
  PROVE  GoodForm(g)
BY DEF GoodForm

-----------------------------------------------------------------------------
(* The steps of the price page *)

\* Editing leaves alone what the saves work on.
LEMMA UnchangedSaveKeeps ==
  ASSUME PageInv, UnchangedSave, GoodList'
  PROVE  PageInv'
<1>1. GoodMaps'
  BY DEF PageInv, UnchangedSave, GoodMaps
<1>2. GoodOutput'
  BY DEF PageInv, UnchangedSave, GoodOutput
<1>3. GoodKept'
  BY DEF PageInv, UnchangedSave, GoodKept
<1>4. GoodProgress'
  BY DEF PageInv, UnchangedSave, GoodProgress
<1> QED
  BY <1>1, <1>2, <1>3, <1>4 DEF PageInv

LEMMA EditListStep ==
  ASSUME PageInv, EditList
  PROVE  PageInv'
<1> USE DEF PageInv, GoodList
<1>0. PICK m \in Models :
        Select(m) \/ Check(m) \/ addModel(m) \/ markModelForDelete(m) \/ restorePendingDelete(m)
  BY DEF EditList
<1>1. UnchangedSave
  BY <1>0 DEF Select, Check, addModel, markModelForDelete, restorePendingDelete
<1>2. CASE Select(m) \/ Check(m) \/ markModelForDelete(m) \/ restorePendingDelete(m)
  <2>1. models' = models /\ pending' \subseteq Models
    BY <1>2 DEF Select, Check, markModelForDelete, restorePendingDelete
  <2> QED
    BY <2>1, <1>1, UnchangedSaveKeeps
<1>3. CASE addModel(m)
  <2>1. models' = [x \in DOMAIN models \cup {m} |-> IF x = m THEN EmptyModel ELSE models[x]]
    BY <1>3 DEF addModel
  <2>2. DOMAIN models' \subseteq Models
    BY <2>1
  <2>3. \A x \in DOMAIN models' : GoodForm(models'[x])
    BY <2>1, EmptyGood
  <2>4. pending' \subseteq Models
    BY <1>3 DEF addModel
  <2>5. GoodList'
    BY <2>2, <2>3, <2>4
  <2> QED
    BY <2>5, <1>1, UnchangedSaveKeeps
<1> QED
  BY <1>0, <1>2, <1>3

\* A good form takes the place of the selected one.
LEMMA UpsertStep ==
  ASSUME PageInv, selected \in DOMAIN models, NEW g, GoodForm(g), Upsert(g)
  PROVE  PageInv'
<1>1. models' = [models EXCEPT ![selected] = g] /\ pending' = pending /\ UnchangedSave
  BY DEF Upsert
<1>2. DOMAIN models' = DOMAIN models
  BY <1>1
<1>3. \A x \in DOMAIN models' : GoodForm(models'[x])
  BY <1>1 DEF PageInv, GoodList
<1>4. GoodList'
  BY <1>1, <1>2, <1>3 DEF PageInv, GoodList
<1> QED
  BY <1>1, <1>4, UnchangedSaveKeeps

\* An edited number of the form.
LEMMA EditNumberStep ==
  ASSUME PageInv, selected \in DOMAIN models, NEW v \in Maybe(Typed),
         EditInput(v) \/ EditFixed(v) \/ EditImageFixed(v) \/ updateImageRuleRow(v)
  PROVE  PageInv'
<1>1. GoodForm(Form)
  BY DEF PageInv, GoodList, Form
<1>2. CASE EditInput(v)
  <2>1. PICK f : f = [Form EXCEPT !.input = v]
    OBVIOUS
  <2>2. GoodForm(f)
    BY <1>1, <2>1, InputChanged
  <2>3. Upsert(IF v = None THEN f ELSE fillDerivedPricesFromBase(f, v))
    BY <1>2, <2>1 DEF EditInput
  <2>4. GoodForm(IF v = None THEN f ELSE fillDerivedPricesFromBase(f, v))
    BY <2>2, FilledGood
  <2> QED
    BY <2>3, <2>4, UpsertStep
<1>3. ASSUME NEW g, Upsert(g),
             \/ g = [Form EXCEPT !.fixed = v]
             \/ g = [Form EXCEPT !.imageFixed = v]
             \/ g = [Form EXCEPT !.imageRow = v]
      PROVE  PageInv'
  <2>1. /\ DOMAIN g = DOMAIN Form
        /\ g.input = Form.input /\ g.price = Form.price /\ g.lock = Form.lock /\ g.raw = Form.raw
        /\ g.unit = Form.unit /\ g.tier = Form.tier
        /\ g.fixed \in {v, Form.fixed} /\ g.imageFixed \in {v, Form.imageFixed}
        /\ g.imageRow \in {v, Form.imageRow}
    BY <1>1, <1>3 DEF GoodForm
  <2>2. {v, Form.fixed, Form.imageFixed, Form.imageRow} \subseteq Number
    BY <1>1, TypedGood DEF GoodForm
  <2>3. g.fixed \in Number /\ g.imageFixed \in Number /\ g.imageRow \in Number
    BY <2>1, <2>2
  <2>4. g.unit \in Units /\ DOMAIN g.tier = TierKeys /\ \A k \in TierKeys : g.tier[k] \in Number
    BY <1>1, <2>1 DEF GoodForm
  <2>5. GoodForm(g)
    BY <1>1, <2>1, <2>3, <2>4, OthersChanged
  <2> QED
    BY <1>3, <2>5, UpsertStep
<1> QED
  BY <1>2, <1>3 DEF EditFixed, EditImageFixed, updateImageRuleRow

\* An edited or emptied price.
LEMMA EditPriceStep ==
  ASSUME PageInv, selected \in DOMAIN models, NEW k \in PriceKeys,
         handleOptionalFieldToggle(k) \/ \E v \in Maybe(Typed) : EditPrice(k, v)
  PROVE  PageInv'
<1>1. GoodForm(Form)
  BY DEF PageInv, GoodList, Form
<1>2. CASE handleOptionalFieldToggle(k)
  <2>1. PICK p : p = [x \in PriceKeys |->
                        IF x = k \/ (k = "AudioRatio" /\ x = "AudioCompletionRatio")
                        THEN None ELSE Form.price[x]]
    OBVIOUS
  <2>2. Upsert([Form EXCEPT !.price = p])
    BY <1>2, <2>1 DEF handleOptionalFieldToggle
  <2>3. DOMAIN p = PriceKeys /\ \A x \in PriceKeys : p[x] \in Number
    BY <1>1, <2>1 DEF GoodForm, Number, Maybe
  <2> QED
    BY <1>1, <2>2, <2>3, PricesChanged, UpsertStep
<1>3. ASSUME NEW v \in Maybe(Typed), EditPrice(k, v) PROVE PageInv'
  <2>1. PICK p : p = [Form.price EXCEPT ![k] = v]
    OBVIOUS
  <2>2. Upsert([Form EXCEPT !.price = p])
    BY <1>3, <2>1 DEF EditPrice
  <2>3. DOMAIN p = PriceKeys /\ \A x \in PriceKeys : p[x] \in Number
    BY <1>1, <2>1, TypedGood DEF GoodForm
  <2> QED
    BY <1>1, <2>2, <2>3, PricesChanged, UpsertStep
<1> QED
  BY <1>2, <1>3

\* Edited tier tables.
LEMMA EditTierStep ==
  ASSUME PageInv, selected \in DOMAIN models, NEW t, Upsert([Form EXCEPT !.tier = t]),
         DOMAIN t = TierKeys, \A k \in TierKeys : t[k] \in Number
  PROVE  PageInv'
<1>1. GoodForm(Form)
  BY DEF PageInv, GoodList, Form
<1>2. GoodForm([Form EXCEPT !.tier = t])
  BY <1>1 DEF GoodForm
<1> QED
  BY <1>2, UpsertStep

\* The prices per image, emptied or in another currency.
LEMMA EditImageStep ==
  ASSUME PageInv, selected \in DOMAIN models,
         ClearImage \/ \E unit \in Units : handleImageGenPriceUnitChange(unit)
  PROVE  PageInv'
<1>1. GoodForm(Form)
  BY DEF PageInv, GoodList, Form
<1>2. CASE ClearImage
  <2>1. Upsert([Form EXCEPT !.imageFixed = None, !.imageRow = None])
    BY <1>2 DEF ClearImage
  <2>2. GoodForm([Form EXCEPT !.imageFixed = None, !.imageRow = None])
    BY <1>1 DEF GoodForm, Number, Maybe
  <2> QED
    BY <2>1, <2>2, UpsertStep
<1>3. ASSUME NEW unit \in Units, handleImageGenPriceUnitChange(unit) PROVE PageInv'
  <2> DEFINE Convert(v) == IF v = None THEN None
                           ELSE formatNumber(RoundDiv(v * RateOf(unit), RateOf(Form.unit)))
  <2>1. Upsert([Form EXCEPT !.unit = unit, !.imageFixed = Convert(@), !.imageRow = Convert(@)])
    BY <1>3 DEF handleImageGenPriceUnitChange
  <2>2. ASSUME NEW v \in Number PROVE Convert(v) \in Number
    <3>1. CASE v = None
      BY <3>1 DEF Number, Maybe
    <3>2. ASSUME v # None PROVE Convert(v) \in Number
      <4>1. v \in Nat
        BY <3>2 DEF Number, Maybe
      <4>2. v * RateOf(unit) \in Nat /\ RateOf(Form.unit) \in Nat \ {0}
        BY <4>1, RateFacts
      <4>3. RoundDiv(v * RateOf(unit), RateOf(Form.unit)) \in Nat
        BY <4>2, RoundDivBounds
      <4>4. formatNumber(RoundDiv(v * RateOf(unit), RateOf(Form.unit))) \in Nat
        BY <4>3, FormatCases
      <4> QED
        BY <4>4, <3>2 DEF Number, Maybe
    <3> QED
      BY <3>1, <3>2
  <2> HIDE DEF Convert
  <2>3. PICK a \in Number : a = Convert(Form.imageFixed)
    BY <1>1, <2>2 DEF GoodForm
  <2>4. PICK c \in Number : c = Convert(Form.imageRow)
    BY <1>1, <2>2 DEF GoodForm
  <2>5. PICK g : g = [Form EXCEPT !.unit = unit, !.imageFixed = a, !.imageRow = c]
    OBVIOUS
  <2>6. GoodForm(g)
    BY <1>1, <2>5 DEF GoodForm
  <2>7. Upsert(g)
    BY <2>1, <2>3, <2>4, <2>5
  <2> QED
    BY <2>6, <2>7, UpsertStep
<1> QED
  BY <1>2, <1>3

\* The selected form, copied to the ticked rows.
LEMMA CopyStep ==
  ASSUME PageInv, NEW byToken \in BOOLEAN, applySelectedModelPricing(byToken)
  PROVE  PageInv'
<1> DEFINE Owned(m) == [Form EXCEPT !.lock = models[m].lock, !.raw = models[m].raw]
           Copy(m) == IF byToken /\ Owned(m).lock # None /\ Owned(m).input # None
                      THEN [Owned(m) EXCEPT !.price["CompletionRatio"] =
                              Times(Owned(m).input, Owned(m).lock)]
                      ELSE Owned(m)
<1>0. GoodForm(Form)
  BY DEF PageInv, GoodList, Form, applySelectedModelPricing
<1>1. models' = [m \in DOMAIN models |-> IF m \in checked THEN Copy(m) ELSE models[m]]
  BY DEF applySelectedModelPricing
<1>2. pending' = pending /\ UnchangedSave
  BY DEF applySelectedModelPricing
<1>3. ASSUME NEW m \in DOMAIN models PROVE GoodForm(Copy(m))
  <2>0. GoodForm(models[m])
    BY DEF PageInv, GoodList
  <2>1. PICK f : f = Owned(m)
    OBVIOUS
  <2>2. GoodForm(f)
    BY <1>0, <2>0, <2>1 DEF GoodForm
  <2>3. PICK p : p = [f.price EXCEPT !["CompletionRatio"] = Times(f.input, f.lock)]
    OBVIOUS
  <2>4. DOMAIN p = PriceKeys /\ \A k \in PriceKeys : p[k] \in Number
    <3>1. Times(f.input, f.lock) \in Number
      BY <2>2, TimesType DEF GoodForm
    <3> QED
      BY <3>1, <2>2, <2>3 DEF GoodForm
  <2>5. [f EXCEPT !.price["CompletionRatio"] = Times(f.input, f.lock)] = [f EXCEPT !.price = p]
    BY <2>3
  <2>6. GoodForm([f EXCEPT !.price = p])
    BY <2>2, <2>4, PricesChanged
  <2>7. Copy(m) = f \/ Copy(m) = [f EXCEPT !.price = p]
    BY <2>1, <2>5
  <2> QED
    BY <2>2, <2>6, <2>7
<1> HIDE DEF Copy
<1>4. DOMAIN models' = DOMAIN models
  BY <1>1
<1>5. ASSUME NEW m \in DOMAIN models' PROVE GoodForm(models'[m])
  BY <1>1, <1>3, <1>4 DEF PageInv, GoodList
<1>6. GoodList'
  BY <1>2, <1>4, <1>5 DEF PageInv, GoodList
<1> QED
  BY <1>2, <1>6, UnchangedSaveKeeps

LEMMA EditFormStep ==
  ASSUME PageInv, EditForm
  PROVE  PageInv'
<1>0. selected \in DOMAIN models
  BY DEF EditForm
<1>g. GoodForm(Form)
  BY <1>0 DEF PageInv, GoodList, Form
<1>1. CASE \E v \in Maybe(Typed) : EditInput(v) \/ EditFixed(v) \/ EditImageFixed(v)
                                   \/ updateImageRuleRow(v)
  BY <1>0, <1>1, EditNumberStep
<1>2. CASE \E k \in PriceKeys : handleOptionalFieldToggle(k) \/ \E v \in Maybe(Typed) : EditPrice(k, v)
  BY <1>0, <1>2, EditPriceStep
<1>3. ASSUME NEW k \in TierKeys, NEW v \in TierRules, EditTier(k, v) PROVE PageInv'
  <2>1. PICK t : t = [Form.tier EXCEPT ![k] = v]
    OBVIOUS
  <2>2. Upsert([Form EXCEPT !.tier = t])
    BY <1>3, <2>1 DEF EditTier
  <2>3. DOMAIN t = TierKeys /\ \A x \in TierKeys : t[x] \in Number
    BY <1>g, <2>1, TierAssumption DEF GoodForm, Number, Maybe
  <2> QED
    BY <1>0, <2>2, <2>3, EditTierStep
<1>4. ASSUME NEW tpl \in Templates, applyTierTemplate(tpl) PROVE PageInv'
  <2>1. PICK t : t = [k \in TierKeys |->
                        IF k = "ModelTierRatio" /\ tpl[k] = None THEN Form.tier[k] ELSE tpl[k]]
    OBVIOUS
  <2>2. Upsert([Form EXCEPT !.tier = t])
    BY <1>4, <2>1 DEF applyTierTemplate
  <2>3. DOMAIN t = TierKeys /\ \A x \in TierKeys : t[x] \in Number
    BY <1>g, <2>1, TierAssumption DEF GoodForm
  <2> QED
    BY <1>0, <2>2, <2>3, EditTierStep
<1>5. CASE clearAllTierRatios
  <2>1. PICK t : t = [k \in TierKeys |-> None]
    OBVIOUS
  <2>2. Upsert([Form EXCEPT !.tier = t])
    BY <1>5, <2>1 DEF clearAllTierRatios
  <2>3. DOMAIN t = TierKeys /\ \A x \in TierKeys : t[x] \in Number
    BY <2>1 DEF Number, Maybe
  <2> QED
    BY <1>0, <2>2, <2>3, EditTierStep
<1>6. CASE ClearImage \/ \E unit \in Units : handleImageGenPriceUnitChange(unit)
  BY <1>0, <1>6, EditImageStep
<1>7. ASSUME NEW k \in OptionalTierKeys, SetVisible(k) PROVE PageInv'
  <2>1. UnchangedSave /\ GoodList'
    BY <1>7 DEF SetVisible, PageInv, GoodList
  <2> QED
    BY <2>1, UnchangedSaveKeeps
<1>8. CASE \E byToken \in BOOLEAN : applySelectedModelPricing(byToken)
  BY <1>8, CopyStep
<1> QED
  BY <1>1, <1>2, <1>3, <1>4, <1>5, <1>6, <1>7, <1>8 DEF EditForm

\* What a write leaves on the server is good.
LEMMA WrittenGood ==
  ASSUME PageInv, NEW w, NEW output, \A m \in Models : GoodEntry(output[m])
  PROVE  \A m \in Models : GoodEntry(Written(w, output)[m])
<1> SUFFICES ASSUME NEW m \in Models PROVE GoodEntry(Written(w, output)[m])
  OBVIOUS
<1>1. PICK e : e = Written(w, output)[m]
  OBVIOUS
<1>2. e = [k \in Keys |-> IF k \in w THEN output[m][k] ELSE stored[m][k]]
  BY <1>1 DEF Written
<1>3. e = [k \in Keys |-> e[k]]
  BY <1>2
<1>4. \A k \in Keys : e[k] \in {output[m][k], stored[m][k]}
  BY <1>2
<1>5. GoodEntry(output[m]) /\ GoodEntry(stored[m])
  BY DEF PageInv, GoodMaps
<1>6. /\ \A k \in Keys \ {"ImagePricingRules"} : e[k] \in Number
      /\ e["ImagePricingRules"].unit \in Units \cup {"none"}
      /\ e["ImagePricingRules"].row \in Number
  <2>1. "ImagePricingRules" \in Keys
    BY DEF Keys
  <2> QED
    BY <2>1, <1>4, <1>5 DEF GoodEntry, IsEntry
<1>7. toNormalizedNumber(e["ModelRatio"]) = e["ModelRatio"]
  BY <1>4, <1>5, KeyFacts DEF GoodEntry
<1> QED
  BY <1>1, <1>3, <1>6, <1>7 DEF GoodEntry, IsEntry

\* A save begins: nothing is written yet.
LEMMA SubmitStep ==
  ASSUME PageInv, handleSubmit
  PROVE  PageInv'
<1>1. PICK list : list = [m \in DOMAIN models \ pending |-> models[m]]
  OBVIOUS
<1>2. /\ save' = [phase |-> "putting",
                  output |-> buildPricingOutputFromModels(list, visible),
                  list |-> list, todo |-> Writes, refused |-> FALSE, deleted |-> pending,
                  kept |-> Untouched \ pending]
      /\ \A m \in DOMAIN list : ~Throws(list[m])
      /\ claimed' = FALSE
      /\ UNCHANGED <<stored, options, models, pending, stray>>
  BY <1>1 DEF handleSubmit
<1>3. PICK output : output = buildPricingOutputFromModels(list, visible)
  OBVIOUS
<1>4. /\ DOMAIN save' = {"phase", "output", "list", "todo", "refused", "deleted", "kept"}
      /\ save'.phase = "putting" /\ save'.output = output /\ save'.list = list
      /\ save'.todo = Writes /\ save'.deleted = pending /\ save'.kept = Untouched \ pending
  BY <1>2, <1>3
<1>5. /\ DOMAIN list \subseteq Models
      /\ \A m \in DOMAIN list : m \notin pending /\ list[m] = models[m] /\ GoodForm(list[m])
  BY <1>1 DEF PageInv, GoodList
<1>6. \A m \in Models : output[m] = IF m \in DOMAIN list THEN serializeModel(list[m], visible) ELSE Blank
  BY <1>3 DEF buildPricingOutputFromModels
<1>7. GoodOutput'
  <2>1. ASSUME NEW m \in Models PROVE GoodEntry(output[m])
    BY <1>5, <1>6, Serialized, BlankGood
  <2>2. ASSUME NEW m \in DOMAIN list
        PROVE  GoodForm(list[m]) /\ ~Throws(list[m]) /\ Translated(list[m], output[m])
    <3>1. output[m] = serializeModel(list[m], visible)
      BY <1>5, <1>6
    <3> QED
      BY <3>1, <1>2, <1>5, Serialized
  <2>3. pending \subseteq Models /\ \A m \in pending : output[m] = Blank
    BY <1>5, <1>6 DEF PageInv, GoodList
  <2> QED
    BY <1>4, <1>5, <2>1, <2>2, <2>3 DEF GoodOutput
<1>8. GoodKept'
  <2>1. \A m \in Untouched \ pending : m \in DOMAIN list /\ list[m] = buildModelState(m, options[m])
    BY <1>1 DEF Untouched
  <2> QED
    BY <1>2, <1>4, <2>1 DEF GoodKept
<1>9. GoodProgress'
  <2>1. \A k \in Keys : \E w \in Writes : k \in w
    BY WritesAssumption
  <2> QED
    BY <1>2, <1>4, <2>1 DEF GoodProgress
<1>10. GoodMaps' /\ GoodList'
  BY <1>2 DEF PageInv, GoodMaps, GoodList
<1> QED
  BY <1>7, <1>8, <1>9, <1>10 DEF PageInv

\* A map is written or refused.
LEMMA PutAnsweredStep ==
  ASSUME PageInv, NEW w \in Writes, NEW ok \in BOOLEAN, PutAnswered(w, ok)
  PROVE  PageInv'
<1>1. PICK rest : rest = save.todo \ {w}
  OBVIOUS
<1>2. PICK refused : refused = (save.refused \/ ~ok)
  OBVIOUS
<1>3. PICK phase : phase = IF rest # {} THEN "putting" ELSE IF refused THEN "idle" ELSE "refreshing"
  OBVIOUS
<1>4. /\ save.phase = "putting" /\ w \in save.todo
      /\ save' = [save EXCEPT !.todo = rest, !.refused = refused, !.phase = phase]
      /\ stored' = (IF ok THEN Written(w, save.output) ELSE stored)
      /\ UNCHANGED <<options, models, pending, stray, own, claimed>>
  BY <1>1, <1>2, <1>3 DEF PutAnswered
<1>5. /\ DOMAIN save' = DOMAIN save
      /\ save'.phase = phase /\ save'.todo = rest /\ save'.refused = refused
      /\ save'.output = save.output /\ save'.list = save.list
      /\ save'.deleted = save.deleted /\ save'.kept = save.kept
  BY <1>4 DEF PageInv, GoodOutput
<1>6. GoodOutput'
  BY <1>5 DEF PageInv, GoodOutput
<1>7. GoodKept'
  BY <1>4, <1>5 DEF PageInv, GoodKept
<1>8. GoodMaps'
  <2>1. \A m \in Models : GoodEntry(Written(w, save.output)[m])
    BY WrittenGood DEF PageInv, GoodOutput
  <2>2. \A m \in Models : GoodEntry(stored'[m])
    BY <2>1, <1>4 DEF PageInv, GoodMaps
  <2> QED
    BY <2>2, <1>4 DEF PageInv, GoodMaps
<1>9. GoodList'
  BY <1>4 DEF PageInv, GoodList
<1>10. GoodProgress'
  <2>1. phase \in {"idle", "putting", "refreshing"}
    BY <1>3
  <2>2. /\ phase # "putting" => rest = {}
        /\ phase = "refreshing" => refused = FALSE
    BY <1>2, <1>3
  <2>3. ASSUME own = TRUE, refused = FALSE, NEW m \in Models, NEW k \in Keys
        PROVE  stored'[m][k] = save.output[m][k] \/ \E x \in rest : k \in x
    <3>1. save.refused = FALSE /\ ok = TRUE
      <4>1. ~(save.refused \/ ~ok)
        BY <2>3, <1>2
      <4>2. ~save.refused /\ ok
        BY <4>1
      <4> QED
        BY <4>2
    <3>2. stored'[m][k] = IF k \in w THEN save.output[m][k] ELSE stored[m][k]
      BY <3>1, <1>4 DEF Written
    <3>3. stored[m][k] = save.output[m][k] \/ \E x \in save.todo : k \in x
      BY <2>3, <3>1, <1>4 DEF PageInv, GoodProgress
    <3> QED
      BY <3>2, <3>3, <1>1
  <2>4. claimed # TRUE
    BY <1>4 DEF PageInv, GoodProgress
  <2>5. /\ save'.phase \in {"idle", "putting", "refreshing"}
        /\ save'.phase # "putting" => save'.todo = {}
        /\ save'.phase = "refreshing" => save'.refused = FALSE
        /\ claimed' # TRUE
    BY <2>1, <2>2, <2>4, <1>4, <1>5
  <2>6. ASSUME own' = TRUE, save'.refused = FALSE, NEW m \in Models, NEW k \in Keys
        PROVE  stored'[m][k] = save'.output[m][k] \/ \E x \in save'.todo : k \in x
    BY <2>3, <2>6, <1>4, <1>5
  <2> QED
    BY <2>5, <2>6 DEF GoodProgress
<1> QED
  BY <1>6, <1>7, <1>8, <1>9, <1>10 DEF PageInv

\* A write gets no answer: the others are on their way still.
LEMMA PutRejectedStep ==
  ASSUME PageInv, NEW w \in Writes, PutRejected(w)
  PROVE  PageInv'
<1>1. /\ save.phase = "putting"
      /\ stray' = stray \cup {<<x, save.output>> : x \in save.todo \ {w}}
      /\ save' = [save EXCEPT !.phase = "idle", !.todo = {}]
      /\ UNCHANGED <<stored, options, models, pending, own, claimed>>
  BY DEF PutRejected
<1>2. /\ DOMAIN save' = DOMAIN save /\ save'.phase = "idle" /\ save'.todo = {}
      /\ save'.output = save.output /\ save'.list = save.list /\ save'.deleted = save.deleted
  BY <1>1 DEF PageInv, GoodOutput
<1>3. GoodOutput'
  BY <1>2 DEF PageInv, GoodOutput
<1>4. GoodMaps'
  <2>1. ASSUME NEW v \in stray' PROVE \A m \in Models : GoodEntry(v[2][m])
    <3>1. CASE v \in stray
      BY <3>1 DEF PageInv, GoodMaps
    <3>2. CASE v \notin stray
      <4>1. v[2] = save.output
        BY <1>1, <3>2
      <4> QED
        BY <4>1 DEF PageInv, GoodOutput
    <3> QED
      BY <3>1, <3>2
  <2> QED
    BY <2>1, <1>1 DEF PageInv, GoodMaps
<1>5. GoodList'
  BY <1>1 DEF PageInv, GoodList
<1>6. GoodKept' /\ GoodProgress'
  BY <1>1, <1>2 DEF PageInv, GoodKept, GoodProgress
<1> QED
  BY <1>3, <1>4, <1>5, <1>6 DEF PageInv

\* A write of an earlier save lands: nothing is claimed of the maps any more.
LEMMA StrayStep ==
  ASSUME PageInv, NEW w \in stray, StrayLands(w)
  PROVE  PageInv'
<1>1. /\ stored' = Written(w[1], w[2]) /\ stray' = stray \ {w} /\ claimed' = FALSE /\ own' = FALSE
      /\ UNCHANGED <<options, models, pending, save>>
  BY DEF StrayLands
<1>2. \A m \in Models : GoodEntry(stored'[m])
  <2>1. \A m \in Models : GoodEntry(w[2][m])
    BY DEF PageInv, GoodMaps
  <2> QED
    BY <2>1, <1>1, WrittenGood
<1>3. GoodMaps'
  BY <1>1, <1>2 DEF PageInv, GoodMaps
<1>4. GoodList' /\ GoodKept'
  BY <1>1 DEF PageInv, GoodList, GoodKept
<1>5. GoodOutput'
  BY <1>1 DEF PageInv, GoodOutput
<1>6. GoodProgress'
  BY <1>1 DEF PageInv, GoodProgress
<1> QED
  BY <1>3, <1>4, <1>5, <1>6 DEF PageInv

\* The list made from good maps.
LEMMA BuiltGood ==
  ASSUME NEW s, \A m \in Models : GoodEntry(s[m])
  PROVE  /\ DOMAIN BuildModels(s) \subseteq Models
         /\ \A m \in DOMAIN BuildModels(s) : GoodForm(BuildModels(s)[m])
BY Built DEF BuildModels, Listed

\* The save is over: the maps are what it wrote, if no other write came between.
LEMMA RefreshStep ==
  ASSUME PageInv, RefreshDone \/ RefreshFailed
  PROVE  PageInv'
<1>1. PICK list : /\ DOMAIN list \subseteq Models /\ \A m \in DOMAIN list : GoodForm(list[m])
                  /\ removeDeletedModelsFromState(list)
  <2>1. DOMAIN models \subseteq Models /\ \A m \in DOMAIN models : GoodForm(models[m])
    BY DEF PageInv, GoodList
  <2>2. /\ DOMAIN BuildModels(stored) \subseteq Models
        /\ \A m \in DOMAIN BuildModels(stored) : GoodForm(BuildModels(stored)[m])
    BY BuiltGood DEF PageInv, GoodMaps
  <2> QED
    BY <2>1, <2>2 DEF RefreshDone, RefreshFailed
<1>2. /\ save.phase = "refreshing" /\ stored' = stored /\ stray' = stray
      /\ options' \in {options, stored}
      /\ claimed' = (own /\ stray = {})
      /\ save' = [save EXCEPT !.phase = "idle"]
  BY DEF RefreshDone, RefreshFailed
<1>3. /\ DOMAIN save' = DOMAIN save /\ save'.phase = "idle" /\ save'.todo = {}
      /\ save'.output = save.output /\ save'.list = save.list /\ save'.deleted = save.deleted
  BY <1>2 DEF PageInv, GoodOutput, GoodProgress
<1>4. GoodOutput'
  BY <1>3 DEF PageInv, GoodOutput
<1>5. GoodMaps'
  BY <1>2 DEF PageInv, GoodMaps
<1>6. GoodList'
  <2>1. models' = [m \in DOMAIN list \ save.deleted |-> list[m]] /\ pending' = {}
    BY <1>1 DEF removeDeletedModelsFromState
  <2> QED
    BY <1>1, <2>1 DEF GoodList
<1>7. GoodKept'
  BY <1>3 DEF GoodKept
<1>8. GoodProgress'
  <2>1. ASSUME claimed' = TRUE, NEW m \in Models PROVE stored[m] = save.output[m]
    <3>1. own = TRUE
      BY <1>2, <2>1
    <3>2. \A k \in Keys : stored[m][k] = save.output[m][k]
      BY <1>2, <3>1 DEF PageInv, GoodProgress
    <3>3. /\ stored[m] = [k \in Keys |-> stored[m][k]]
          /\ save.output[m] = [k \in Keys |-> save.output[m][k]]
      BY DEF PageInv, GoodMaps, GoodOutput, GoodEntry, IsEntry
    <3> QED
      BY <3>2, <3>3
  <2> QED
    BY <1>2, <1>3, <2>1 DEF GoodProgress
<1> QED
  BY <1>4, <1>5, <1>6, <1>7, <1>8 DEF PageInv

LEMMA PageStep ==
  ASSUME PageInv, [PageNext]_pageVars
  PROVE  PageInv'
<1>1. CASE UNCHANGED pageVars
  <2>1. UnchangedSave /\ GoodList'
    BY <1>1 DEF pageVars, UnchangedSave, PageInv, GoodList
  <2> QED
    BY <2>1, UnchangedSaveKeeps
<1>2. CASE EditList
  BY <1>2, EditListStep
<1>3. CASE EditForm
  BY <1>3, EditFormStep
<1>4. CASE handleSubmit
  BY <1>4, SubmitStep
<1>5. CASE Answer
  BY <1>5, PutRejectedStep, PutAnsweredStep, RefreshStep DEF Answer
<1>6. CASE \E w \in stray : StrayLands(w)
  BY <1>6, StrayStep
<1> QED
  BY <1>1, <1>2, <1>3, <1>4, <1>5, <1>6 DEF PageNext

LEMMA PageStart ==
  ASSUME PageInit
  PROVE  PageInv
<1>1. \A m \in Models : GoodEntry(stored[m])
  <2> SUFFICES ASSUME NEW m \in Models PROVE GoodEntry(stored[m])
    OBVIOUS
  <2>1. stored \in Stores
    BY DEF PageInit
  <2>2. IsEntry(stored[m]) /\ toNormalizedNumber(stored[m]["ModelRatio"]) = stored[m]["ModelRatio"]
    BY <2>1, StoresAssumption, DigitsAssumption
  <2> QED
    BY <2>2 DEF GoodEntry
<1>2. options = stored /\ models = BuildModels(stored) /\ pending = {} /\ save = Idle
      /\ stray = {} /\ claimed = FALSE
  BY DEF PageInit
<1>3. GoodMaps
  BY <1>1, <1>2 DEF GoodMaps
<1>4. GoodList
  BY <1>1, <1>2, BuiltGood DEF GoodList
<1>5. DOMAIN << >> = {}
  OBVIOUS
<1>6. GoodOutput
  BY <1>2, <1>5, BlankGood DEF GoodOutput, Idle
<1>7. GoodKept /\ GoodProgress
  BY <1>2 DEF GoodKept, GoodProgress, Idle
<1> QED
  BY <1>3, <1>4, <1>6, <1>7 DEF PageInv

LEMMA PageInvariant == PageSpec => []PageInv
<1>1. PageInit => PageInv
  BY PageStart
<1>2. PageInv /\ [PageNext]_pageVars => PageInv'
  BY PageStep
<1> QED
  BY <1>1, <1>2, PTL DEF PageSpec

-----------------------------------------------------------------------------
(* What the price page promises *)

\* A deleted model is in no map once the save is reported as done.
LEMMA GoneFollows ==
  ASSUME PageInv
  PROVE  DeletedIsGone
<1> SUFFICES ASSUME claimed = TRUE, NEW m \in save.deleted PROVE stored[m] = Blank
  BY DEF DeletedIsGone
<1> QED
  BY DEF PageInv, GoodOutput, GoodProgress

\* For any models, prices, currencies and order and failure of the writes: what
\* was marked for deletion when the save began is in no map when it is reported
\* as done (handleSubmit, buildPricingOutputFromModels).
THEOREM DeletedGone == PageSpec => []DeletedIsGone
BY PageInvariant, GoneFollows, PTL

\* The prices an entry stands for, with a base that is known.
LEMMA PricesAre ==
  ASSUME NEW e, NEW locked, NEW base, base = ratioToBasePrice(e["ModelRatio"])
  PROVE  /\ DOMAIN Prices(e, locked) = PriceKeys
         /\ Prices(e, locked)["CompletionRatio"] =
              Times(base, IF locked # None THEN locked ELSE e["CompletionRatio"])
         /\ Prices(e, locked)["AudioCompletionRatio"] =
              Times(Times(base, e["AudioRatio"]), e["AudioCompletionRatio"])
         /\ \A k \in PriceKeys \ {"CompletionRatio", "AudioCompletionRatio"} :
              Prices(e, locked)[k] = Times(base, e[k])
         /\ Prices(e, locked) = [k \in PriceKeys |-> Prices(e, locked)[k]]
BY KeyFacts DEF Prices

\* A form with an input price is saved as ratios that show it again.
LEMMA InputShown ==
  ASSUME NEW f, GoodForm(f), f.input # None, NEW e, Translated(f, e)
  PROVE  ratioToBasePrice(e["ModelRatio"]) = f.input
<1>1. e["ModelRatio"] = formatNumber(RoundDiv(f.input, 2))
  BY KeyFacts DEF Translated, Ratios
<1> QED
  BY <1>1 DEF GoodForm, Exact

\* What is saved of a form shows its prices.
LEMMA FormShown ==
  ASSUME NEW f, GoodForm(f), f.input \notin {None, 0}, NEW e, Translated(f, e)
  PROVE  /\ \A k \in PriceKeys \ {"AudioCompletionRatio"} :
              (k = "CompletionRatio" => f.lock = None) =>
                Near(Prices(e, f.lock)[k], f.price[k], Slack(f.input))
         /\ f.imageFixed # None =>
              Near(fromUSDToDisplay(e["ImagePrice"], f.unit), f.imageFixed, Rate * (Absorb + 1))
<1>1. PICK b \in Nat \ {0} : b = f.input
  BY DEF GoodForm, Number, Maybe
<1>2. b = ratioToBasePrice(e["ModelRatio"])
  BY <1>1, InputShown
<1>3. ASSUME NEW k \in PriceKeys \ {"AudioCompletionRatio"}, k = "CompletionRatio" => f.lock = None
      PROVE  Near(Prices(e, f.lock)[k], f.price[k], Slack(f.input))
  <2>1. e[k] = Ratio(f.price[k], b)
    <3>1. k \in RatioKeys /\ k # "ModelRatio"
      BY KeyFacts
    <3>2. e[k] = Ratios(f)[k]
      BY <3>1 DEF Translated
    <3> QED
      BY <3>1, <3>2, <1>1, <1>3 DEF Ratios
  <2>2. Prices(e, f.lock)[k] = Times(b, e[k])
    <3>1. CASE k = "CompletionRatio"
      BY <3>1, <1>2, <1>3, PricesAre
    <3>2. CASE k # "CompletionRatio"
      BY <3>2, <1>2, <1>3, PricesAre
    <3> QED
      BY <3>1, <3>2
  <2>3. f.price[k] \in Number
    BY <1>3 DEF GoodForm
  <2> QED
    BY <2>1, <2>2, <2>3, <1>1, DerivedNear
<1>4. ASSUME f.imageFixed # None
      PROVE  Near(fromUSDToDisplay(e["ImagePrice"], f.unit), f.imageFixed, Rate * (Absorb + 1))
  <2>1. PICK v \in Nat : v = f.imageFixed
    BY <1>4 DEF GoodForm, Number, Maybe
  <2>2. PICK R \in Nat \ {0} : R = RateOf(f.unit) /\ R <= Rate
    BY RateFacts
  <2>3. e["ImagePrice"] = formatNumber(RoundDiv(v, R))
    BY <1>4, <2>1, <2>2 DEF Translated, ImageMaps
  <2>4. PICK u \in Nat : u = formatNumber(RoundDiv(v, R)) /\ Near(formatNumber(u * R), v, Rate * (Absorb + 1))
    BY <2>2, ImageNear
  <2>5. u # None
    BY DEF None
  <2> QED
    BY <2>1, <2>2, <2>3, <2>4, <2>5 DEF fromUSDToDisplay
<1> QED
  BY <1>3, <1>4

LEMMA ShownFollows ==
  ASSUME PageInv
  PROVE  SavedAsShown
<1> SUFFICES ASSUME claimed = TRUE, NEW m \in DOMAIN save.list, save.list[m].input \notin {None, 0}
             PROVE  LET f == save.list[m]
                        e == stored[m]
                        price == Prices(e, f.lock)
                    IN  /\ ratioToBasePrice(e["ModelRatio"]) = f.input
                        /\ \A k \in PriceKeys \ {"AudioCompletionRatio"} :
                             (k = "CompletionRatio" => f.lock = None) =>
                               Near(price[k], f.price[k], Slack(f.input))
                        /\ f.imageFixed # None =>
                             Near(fromUSDToDisplay(e["ImagePrice"], f.unit), f.imageFixed,
                                  Rate * (Absorb + 1))
  BY DEF SavedAsShown
<1>1. PICK f : f = save.list[m]
  OBVIOUS
<1>2. PICK e : e = stored[m] /\ e = save.output[m]
  BY DEF PageInv, GoodProgress, GoodOutput
<1>3. GoodForm(f) /\ Translated(f, e)
  BY <1>1, <1>2 DEF PageInv, GoodOutput
<1>4. f.input \notin {None, 0} /\ f.input # None
  BY <1>1
<1> QED
  BY <1>1, <1>2, <1>3, <1>4, InputShown, FormShown

\* For any models, prices and precision, and whatever was edited, refused or lost
\* meanwhile: when a save is reported as done the maps stand for the prices the
\* page showed when it began, the input price to the digit and the others to
\* rounding (handleSubmit, serializeModel, buildModelState).
THEOREM SavedShown == PageSpec => []SavedAsShown
BY PageInvariant, ShownFollows, PTL

-----------------------------------------------------------------------------
(* Prices nobody touched *)

\* What is saved of a form that is as it was built shows the prices it was built from.
LEMMA SavedBack ==
  ASSUME NEW m \in Models, NEW o, GoodEntry(o), o["ModelRatio"] # 0,
         \A k \in PriceKeys : Plain(o[k]),
         NEW e, Translated(buildModelState(m, o), e), ~Throws(buildModelState(m, o))
  PROVE  LET base == ratioToBasePrice(o["ModelRatio"])
         IN  /\ ratioToBasePrice(e["ModelRatio"]) = base
             /\ LockedRatio[m] = None =>
                  Times(base, e["CompletionRatio"]) = Times(base, o["CompletionRatio"])
             /\ \A k \in PriceKeys \ {"CompletionRatio", "AudioCompletionRatio"} :
                  Times(base, e[k]) = Times(base, o[k])
             /\ Times(Times(base, o["AudioRatio"]), e["AudioCompletionRatio"]) =
                  Times(Times(base, o["AudioRatio"]), o["AudioCompletionRatio"])
<1>1. PICK f : f = buildModelState(m, o)
  OBVIOUS
<1>2. GoodForm(f) /\ Translated(f, e) /\ ~Throws(f)
  BY <1>1, Built
<1>3. PICK base : base = ratioToBasePrice(o["ModelRatio"])
  OBVIOUS
<1>4. f.input = base /\ f.price = Prices(o, LockedRatio[m]) /\ f.lock = LockedRatio[m] /\ f.raw = o
  BY <1>1, <1>3 DEF buildModelState
<1>5. ASSUME NEW k \in PriceKeys PROVE o[k] \in Number /\ k \in RatioKeys /\ e[k] = Ratios(f)[k]
  BY <1>2, EntryNumbers, KeyFacts DEF Translated
<1>6. CASE base = None
  <2>1. \A x : Times(base, x) = None /\ Times(None, x) = None
    BY <1>6 DEF Times
  <2>2. o["ModelRatio"] = None
    BY <1>3, <1>6, BasePrice, EntryNumbers, KeyFacts DEF GoodEntry
  <2>3. e["ModelRatio"] = toNormalizedNumber(o["ModelRatio"])
    BY <1>2, <1>4, <1>6, KeyFacts DEF Translated, Ratios
  <2>4. e["ModelRatio"] = o["ModelRatio"]
    BY <2>3 DEF GoodEntry
  <2> QED
    BY <1>3, <2>1, <2>4
<1>7. ASSUME base # None
      PROVE  /\ ratioToBasePrice(e["ModelRatio"]) = base
             /\ LockedRatio[m] = None =>
                  Times(base, e["CompletionRatio"]) = Times(base, o["CompletionRatio"])
             /\ \A k \in PriceKeys \ {"CompletionRatio", "AudioCompletionRatio"} :
                  Times(base, e[k]) = Times(base, o[k])
             /\ Times(Times(base, o["AudioRatio"]), e["AudioCompletionRatio"]) =
                  Times(Times(base, o["AudioRatio"]), o["AudioCompletionRatio"])
  <2>1. ratioToBasePrice(e["ModelRatio"]) = base
    BY <1>2, <1>4, <1>7, InputShown
  <2>2. base \in Nat \ {0}
    <3>1. PICK r \in Nat \ {0} : r = o["ModelRatio"] /\ formatNumber(r) = r
      BY <1>3, <1>7, BasePrice, EntryNumbers, KeyFacts DEF GoodEntry, toNormalizedNumber, Number, Maybe
    <3>2. base = formatNumber(2 * r)
      BY <3>1, <1>3, Doubled
    <3>3. formatNumber(2 * r) \in Nat
      BY FormatCases
    <3>4. ASSUME formatNumber(2 * r) = 0 PROVE FALSE
      <4>1. PICK W \in Nat : Scale * W = 0 /\ Scale * W - 2 * r < Absorb /\ 2 * r - Scale * W < Absorb
        BY <3>4, FormatCases
      <4>2. Scale * W - r < Absorb /\ r - Scale * W < Absorb
        BY <4>1, NumberAssumption
      <4>3. formatNumber(r) = 0
        BY <4>1, <4>2, FormatAbsorbs
      <4> QED
        BY <4>3, <3>1
    <3> QED
      BY <3>2, <3>3, <3>4
  <2>3. ASSUME NEW k \in PriceKeys, k # "AudioCompletionRatio", k = "CompletionRatio" => LockedRatio[m] = None
        PROVE  Times(base, e[k]) = Times(base, o[k])
    <3>1. f.price[k] = Times(base, o[k])
      <4>1. CASE k = "CompletionRatio"
        BY <4>1, <2>3, <1>3, <1>4, PricesAre
      <4>2. CASE k # "CompletionRatio"
        BY <4>2, <2>3, <1>3, <1>4, PricesAre
      <4> QED
        BY <4>1, <4>2
    <3>2. e[k] = Ratio(f.price[k], base)
      <4>1. k # "ModelRatio"
        BY KeyFacts
      <4> QED
        BY <4>1, <2>3, <1>4, <1>5, <1>7 DEF Ratios
    <3> QED
      BY <3>1, <3>2, <2>2, <1>5, RoundTrip
  <2>4. Times(Times(base, o["AudioRatio"]), e["AudioCompletionRatio"]) =
          Times(Times(base, o["AudioRatio"]), o["AudioCompletionRatio"])
    <3>k. {"AudioRatio", "AudioCompletionRatio"} \subseteq PriceKeys
      BY KeyFacts
    <3>1. PICK audio \in Number : audio = Times(base, o["AudioRatio"])
      BY <3>k, <2>2, <1>5, TimesType DEF Number, Maybe
    <3>2. f.price["AudioRatio"] = audio /\ f.price["AudioCompletionRatio"] = Times(audio, o["AudioCompletionRatio"])
      BY <3>1, <3>k, <1>3, <1>4, PricesAre
    <3>3. e["AudioCompletionRatio"] = Ratio(f.price["AudioCompletionRatio"], audio)
      BY <3>2, <3>k, <1>4, <1>5, <1>7 DEF Ratios
    <3>4. CASE f.price["AudioCompletionRatio"] = None
      <4>1. e["AudioCompletionRatio"] = None
        BY <3>3, <3>4 DEF Ratio
      <4>2. Times(audio, e["AudioCompletionRatio"]) = None
        BY <4>1 DEF Times
      <4> QED
        BY <4>2, <3>1, <3>2, <3>4
    <3>5. ASSUME f.price["AudioCompletionRatio"] # None
          PROVE  Times(audio, e["AudioCompletionRatio"]) = Times(audio, o["AudioCompletionRatio"])
      <4>1. audio \notin {None, 0}
        BY <3>2, <3>5, <1>2, <1>4, <1>7 DEF Throws
      <4>2. audio \in Nat \ {0}
        BY <4>1 DEF Number, Maybe
      <4>3. o["AudioCompletionRatio"] \in Number /\ Plain(o["AudioCompletionRatio"])
        BY <3>k, <1>5
      <4>4. Times(audio, Ratio(Times(audio, o["AudioCompletionRatio"]), audio))
              = Times(audio, o["AudioCompletionRatio"])
        BY <4>2, <4>3, RoundTrip
      <4> QED
        BY <4>4, <3>2, <3>3
    <3> QED
      BY <3>1, <3>4, <3>5
  <2> QED
    BY <2>1, <2>3, <2>4, KeyFacts
<1> QED
  BY <1>3, <1>6, <1>7

\* A model some of whose maps are written and whose others are as they were, all
\* standing for the same prices, stands for those prices.
LEMMA MixedPrices ==
  ASSUME NEW m, NEW o, NEW s, NEW n, NEW e, NEW base,
         base = ratioToBasePrice(o["ModelRatio"]),
         \A k \in RatioKeys : n[k] \in {s[k], e[k]},
         TokenPrices(m, s) = TokenPrices(m, o),
         ratioToBasePrice(e["ModelRatio"]) = base,
         LockedRatio[m] = None =>
           Times(base, e["CompletionRatio"]) = Times(base, o["CompletionRatio"]),
         \A k \in PriceKeys \ {"CompletionRatio", "AudioCompletionRatio"} :
           Times(base, e[k]) = Times(base, o[k]),
         Times(Times(base, o["AudioRatio"]), e["AudioCompletionRatio"]) =
           Times(Times(base, o["AudioRatio"]), o["AudioCompletionRatio"])
  PROVE  TokenPrices(m, n) = TokenPrices(m, o)
<1> DEFINE L == LockedRatio[m]
<1>k. {"CompletionRatio", "AudioRatio", "AudioCompletionRatio"} \subseteq PriceKeys
      /\ PriceKeys \subseteq RatioKeys /\ "ModelRatio" \in RatioKeys
  BY KeyFacts
<1>1. ratioToBasePrice(s["ModelRatio"]) = base /\ Prices(s, L) = Prices(o, L)
  BY DEF TokenPrices
<1>2. base = ratioToBasePrice(n["ModelRatio"]) /\ base = ratioToBasePrice(s["ModelRatio"])
  BY <1>1, <1>k
<1> HIDE DEF L
<1>n. /\ Prices(n, L)["CompletionRatio"] = Times(base, IF L # None THEN L ELSE n["CompletionRatio"])
      /\ Prices(n, L)["AudioCompletionRatio"] = Times(Times(base, n["AudioRatio"]), n["AudioCompletionRatio"])
      /\ \A k \in PriceKeys \ {"CompletionRatio", "AudioCompletionRatio"} :
           Prices(n, L)[k] = Times(base, n[k])
  <2>1. base = ratioToBasePrice(n["ModelRatio"])
    BY <1>2
  <2> QED
    BY <2>1, PricesAre
<1>3. ASSUME NEW k \in PriceKeys PROVE Prices(n, L)[k] = Prices(o, L)[k]
  <2>0. k \in RatioKeys /\ n[k] \in {s[k], e[k]}
    BY <1>k
  <2>1. CASE k = "CompletionRatio"
    <3>1. CASE L = None
      <4>1. Times(base, s[k]) = Times(base, o[k]) /\ Times(base, e[k]) = Times(base, o[k])
        BY <1>1, <1>2, <2>1, <3>1, PricesAre DEF L
      <4>2. Prices(n, L)[k] = Times(base, n[k]) /\ Prices(o, L)[k] = Times(base, o[k])
        BY <1>2, <2>1, <3>1, PricesAre
      <4> QED
        BY <4>1, <4>2, <2>0
    <3>2. CASE L # None
      <4>1. Prices(n, L)[k] = Times(base, L)
        BY <1>n, <2>1, <3>2
      <4>2. Prices(o, L)[k] = Times(base, L)
        BY <2>1, <3>2, PricesAre
      <4> QED
        BY <4>1, <4>2
    <3> QED
      BY <3>1, <3>2
  <2>2. CASE k = "AudioCompletionRatio"
    <3>1. /\ Times(base, s["AudioRatio"]) = Times(base, o["AudioRatio"])
          /\ Times(base, e["AudioRatio"]) = Times(base, o["AudioRatio"])
      BY <1>1, <1>2, <1>k, PricesAre
    <3>2. Times(base, n["AudioRatio"]) = Times(base, o["AudioRatio"])
      BY <3>1, <1>k
    <3>3. Times(Times(base, o["AudioRatio"]), s[k]) = Times(Times(base, o["AudioRatio"]), o[k])
      BY <3>1, <1>1, <1>2, <2>2, PricesAre
    <3>4. Times(Times(base, o["AudioRatio"]), n[k]) = Times(Times(base, o["AudioRatio"]), o[k])
      BY <3>3, <2>0, <2>2
    <3>5. Prices(n, L)[k] = Times(Times(base, n["AudioRatio"]), n[k])
      BY <1>n, <2>2
    <3>6. Prices(o, L)[k] = Times(Times(base, o["AudioRatio"]), o[k])
      BY <2>2, PricesAre
    <3> QED
      BY <3>2, <3>4, <3>5, <3>6
  <2>3. CASE k \notin {"CompletionRatio", "AudioCompletionRatio"}
    <3>1. Times(base, s[k]) = Times(base, o[k]) /\ Times(base, e[k]) = Times(base, o[k])
      BY <1>1, <1>2, <2>3, PricesAre
    <3>2. Times(base, n[k]) = Times(base, o[k])
      BY <3>1, <2>0
    <3>3. Prices(n, L)[k] = Times(base, n[k])
      BY <1>n, <2>3
    <3>4. Prices(o, L)[k] = Times(base, o[k])
      BY <2>3, PricesAre
    <3> QED
      BY <3>2, <3>3, <3>4
  <2> QED
    BY <2>1, <2>2, <2>3
<1>4. Prices(n, L) = Prices(o, L)
  <2>1. /\ Prices(n, L) = [k \in PriceKeys |-> Prices(n, L)[k]]
        /\ Prices(o, L) = [k \in PriceKeys |-> Prices(o, L)[k]]
    BY <1>2, PricesAre
  <2> QED
    BY <2>1, <1>3
<1> QED
  BY <1>2, <1>4 DEF TokenPrices, L

\* A step while a save writes leaves the maps alone or writes some of them.
LEMMA PuttingWrites ==
  ASSUME PageInv, [PageNext]_pageVars, save.phase = "putting", own', NEW m \in Models
  PROVE  \A k \in Keys : stored'[m][k] \in {stored[m][k], save.output[m][k]}
<1>1. CASE UNCHANGED pageVars
  BY <1>1 DEF pageVars
<1>2. CASE EditList
  <2>1. UnchangedSave
    BY <1>2 DEF EditList, Select, Check, addModel, markModelForDelete, restorePendingDelete
  <2> QED
    BY <2>1 DEF UnchangedSave
<1>3. CASE EditForm
  <2>1. UnchangedSave
    BY <1>3 DEF EditForm, EditInput, EditFixed, EditImageFixed, updateImageRuleRow,
                handleOptionalFieldToggle, EditPrice, EditTier, applyTierTemplate,
                handleImageGenPriceUnitChange, SetVisible, applySelectedModelPricing,
                clearAllTierRatios, ClearImage, Upsert
  <2> QED
    BY <2>1 DEF UnchangedSave
<1>4. CASE handleSubmit
  BY <1>4 DEF handleSubmit
<1>5. CASE \E w \in Writes : PutRejected(w)
  BY <1>5 DEF PutRejected
<1>6. ASSUME NEW w \in Writes, NEW ok \in BOOLEAN, PutAnswered(w, ok)
      PROVE  \A k \in Keys : stored'[m][k] \in {stored[m][k], save.output[m][k]}
  <2>1. stored' = IF ok THEN Written(w, save.output) ELSE stored
    BY <1>6 DEF PutAnswered
  <2> QED
    BY <2>1 DEF Written
<1>7. CASE RefreshDone \/ RefreshFailed
  BY <1>7 DEF RefreshDone, RefreshFailed
<1>8. CASE \E w \in stray : StrayLands(w)
  BY <1>8 DEF StrayLands
<1> QED
  BY <1>1, <1>2, <1>3, <1>4, <1>5, <1>6, <1>7, <1>8 DEF PageNext, Answer

\* For any precision and any order of the writes: a save does not move the
\* token prices of a model that is on the page as it was read, unless a ratio of
\* it is almost whole or its input price is zero (serializeModel, buildModelState).
THEOREM UntouchedStay == PageSpec => UntouchedPricesStay
<1>1. ASSUME PageInv, [PageNext]_pageVars
      PROVE  [\A m \in save.kept :
                /\ save.phase = "putting" /\ own /\ own' /\ options[m]["ModelRatio"] # 0
                /\ \A k \in PriceKeys : Plain(options[m][k])
                /\ TokenPrices(m, stored[m]) = TokenPrices(m, options[m])
                => TokenPrices(m, stored'[m]) = TokenPrices(m, options[m])]_pageVars
  <2> SUFFICES ASSUME NEW m \in save.kept, save.phase = "putting", own',
                      options[m]["ModelRatio"] # 0, \A k \in PriceKeys : Plain(options[m][k]),
                      TokenPrices(m, stored[m]) = TokenPrices(m, options[m])
               PROVE  TokenPrices(m, stored'[m]) = TokenPrices(m, options[m])
    OBVIOUS
  <2>1. m \in Models /\ m \in DOMAIN save.list /\ save.list[m] = buildModelState(m, options[m])
    BY <1>1 DEF PageInv, GoodKept, GoodOutput
  <2>2. PICK o : o = options[m]
    OBVIOUS
  <2>3. PICK e : e = save.output[m]
    OBVIOUS
  <2>4. PICK base : base = ratioToBasePrice(o["ModelRatio"])
    OBVIOUS
  <2>5. GoodEntry(o) /\ Translated(buildModelState(m, o), e) /\ ~Throws(buildModelState(m, o))
    BY <1>1, <2>1, <2>2, <2>3 DEF PageInv, GoodMaps, GoodOutput
  <2>6. o["ModelRatio"] # 0 /\ \A k \in PriceKeys : Plain(o[k])
    BY <2>2
  <2>7. /\ ratioToBasePrice(e["ModelRatio"]) = base
        /\ LockedRatio[m] = None =>
             Times(base, e["CompletionRatio"]) = Times(base, o["CompletionRatio"])
        /\ \A k \in PriceKeys \ {"CompletionRatio", "AudioCompletionRatio"} :
             Times(base, e[k]) = Times(base, o[k])
        /\ Times(Times(base, o["AudioRatio"]), e["AudioCompletionRatio"]) =
             Times(Times(base, o["AudioRatio"]), o["AudioCompletionRatio"])
    BY <2>1, <2>4, <2>5, <2>6, SavedBack
  <2>8. PICK s : s = stored[m]
    OBVIOUS
  <2>9. PICK n : n = stored'[m]
    OBVIOUS
  <2>10. \A k \in RatioKeys : n[k] \in {s[k], e[k]}
    BY <1>1, <2>1, <2>3, <2>8, <2>9, PuttingWrites, KeyFacts
  <2>11. TokenPrices(m, s) = TokenPrices(m, o)
    BY <2>2, <2>8
  <2>12. TokenPrices(m, n) = TokenPrices(m, o)
    BY <2>4, <2>7, <2>10, <2>11, MixedPrices
  <2> QED
    BY <2>2, <2>9, <2>12
<1> QED
  BY <1>1, PageInvariant, PTL DEF PageSpec, UntouchedPricesStay

-----------------------------------------------------------------------------
(* What is marked, ticked and selected is on the list *)

GoodView ==
  /\ pending \subseteq DOMAIN models /\ checked \subseteq DOMAIN models
  /\ selected \in DOMAIN models \cup (IF DOMAIN models = {} THEN {NoModel} ELSE {})
  /\ visible \subseteq OptionalTierKeys

LEMMA ShownIn ==
  ASSUME NEW list, NEW m, NEW on, on \subseteq OptionalTierKeys
  PROVE  Shown(list, m, on) \subseteq OptionalTierKeys
BY DEF Shown

\* Other forms on the same list.
LEMMA ViewKept ==
  ASSUME GoodView, DOMAIN models' = DOMAIN models, UNCHANGED <<pending, selected, checked>>,
         visible' \subseteq OptionalTierKeys
  PROVE  GoodView'
BY DEF GoodView

LEMMA EditListView ==
  ASSUME GoodView, EditList
  PROVE  GoodView'
<1>0. PICK m \in Models :
        Select(m) \/ Check(m) \/ addModel(m) \/ markModelForDelete(m) \/ restorePendingDelete(m)
  BY DEF EditList
<1>1. CASE Select(m)
  BY <1>1, ShownIn DEF Select, GoodView
<1>2. CASE Check(m)
  BY <1>2 DEF Check, GoodView
<1>3. CASE addModel(m)
  <2>1. DOMAIN models' = DOMAIN models \cup {m}
    BY <1>3 DEF addModel
  <2>2. visible' \subseteq OptionalTierKeys
    BY <1>3, ShownIn DEF addModel, GoodView
  <2> QED
    BY <1>3, <2>1, <2>2 DEF addModel, GoodView
<1>4. CASE markModelForDelete(m)
  BY <1>4 DEF markModelForDelete, GoodView
<1>5. CASE restorePendingDelete(m)
  BY <1>5 DEF restorePendingDelete, GoodView
<1> QED
  BY <1>0, <1>1, <1>2, <1>3, <1>4, <1>5

LEMMA EditFormView ==
  ASSUME GoodView, EditForm
  PROVE  GoodView'
<1>1. ASSUME NEW g, Upsert(g), visible' \subseteq OptionalTierKeys PROVE GoodView'
  <2>1. DOMAIN models' = DOMAIN models /\ UNCHANGED <<pending, selected, checked>>
    BY <1>1 DEF Upsert
  <2> QED
    BY <1>1, <2>1, ViewKept
<1>2. visible \subseteq OptionalTierKeys
  BY DEF GoodView
<1>3. CASE \E v \in Maybe(Typed) : EditInput(v) \/ EditFixed(v) \/ EditImageFixed(v)
                                   \/ updateImageRuleRow(v)
  BY <1>1, <1>2, <1>3 DEF EditInput, EditFixed, EditImageFixed, updateImageRuleRow
<1>4. CASE \E k \in PriceKeys : handleOptionalFieldToggle(k) \/ \E v \in Maybe(Typed) : EditPrice(k, v)
  BY <1>1, <1>2, <1>4 DEF handleOptionalFieldToggle, EditPrice
<1>5. CASE \E k \in TierKeys, v \in TierRules : EditTier(k, v)
  BY <1>1, <1>2, <1>5, ShownIn DEF EditTier
<1>6. CASE \E tpl \in Templates : applyTierTemplate(tpl)
  BY <1>1, <1>6 DEF applyTierTemplate
<1>7. CASE \E unit \in Units : handleImageGenPriceUnitChange(unit)
  BY <1>1, <1>2, <1>7 DEF handleImageGenPriceUnitChange
<1>8. CASE \E k \in OptionalTierKeys : SetVisible(k)
  BY <1>8 DEF SetVisible, GoodView
<1>9. ASSUME NEW byToken \in BOOLEAN, applySelectedModelPricing(byToken) PROVE GoodView'
  <2>1. DOMAIN models' = DOMAIN models /\ UNCHANGED <<pending, selected, checked>>
    BY <1>9 DEF applySelectedModelPricing
  <2>2. visible' \subseteq OptionalTierKeys
    BY <1>2, <1>9, ShownIn DEF applySelectedModelPricing
  <2> QED
    BY <2>1, <2>2, ViewKept
<1>10. CASE clearAllTierRatios \/ ClearImage
  BY <1>1, <1>2, <1>10 DEF clearAllTierRatios, ClearImage
<1> QED
  BY <1>3, <1>4, <1>5, <1>6, <1>7, <1>8, <1>9, <1>10 DEF EditForm

\* The row an effect selects is on the list, if there is one.
LEMMA Reselected ==
  ASSUME NEW list, NEW m, NEW x \in Reselect(list, m)
  PROVE  x \in DOMAIN list \cup (IF DOMAIN list = {} THEN {NoModel} ELSE {})
BY DEF Reselect

LEMMA RefreshView ==
  ASSUME GoodView, RefreshDone \/ RefreshFailed
  PROVE  GoodView'
<1>1. PICK list : removeDeletedModelsFromState(list)
  BY DEF RefreshDone, RefreshFailed
<1>2. pending' = {} /\ checked' = checked \cap DOMAIN models' /\ selected' \in Reselect(models', selected)
  BY <1>1 DEF removeDeletedModelsFromState
<1>3. selected' \in DOMAIN models' \cup (IF DOMAIN models' = {} THEN {NoModel} ELSE {})
  BY <1>2, Reselected
<1>4. visible' \subseteq OptionalTierKeys
  BY ShownIn DEF RefreshDone, RefreshFailed, GoodView
<1> QED
  BY <1>2, <1>3, <1>4 DEF GoodView

LEMMA ViewStep ==
  ASSUME GoodView, [PageNext]_pageVars
  PROVE  GoodView'
<1>1. CASE UNCHANGED <<models, pending, selected, checked, visible>>
  BY <1>1 DEF GoodView
<1>2. CASE EditList
  BY <1>2, EditListView
<1>3. CASE EditForm
  BY <1>3, EditFormView
<1>4. CASE RefreshDone \/ RefreshFailed
  BY <1>4, RefreshView
<1>5. CASE handleSubmit
  BY <1>1, <1>5 DEF handleSubmit
<1>6. CASE \E w \in Writes : PutRejected(w) \/ \E ok \in BOOLEAN : PutAnswered(w, ok)
  BY <1>1, <1>6 DEF PutRejected, PutAnswered
<1>7. CASE \E w \in stray : StrayLands(w)
  BY <1>1, <1>7 DEF StrayLands
<1>8. CASE UNCHANGED pageVars
  BY <1>1, <1>8 DEF pageVars
<1> QED
  BY <1>2, <1>3, <1>4, <1>5, <1>6, <1>7, <1>8 DEF PageNext, Answer

LEMMA ViewStart ==
  ASSUME PageInit
  PROVE  GoodView
<1>1. pending = {} /\ checked = {} /\ selected \in Reselect(models, NoModel)
  BY DEF PageInit
<1>2. selected \in DOMAIN models \cup (IF DOMAIN models = {} THEN {NoModel} ELSE {})
  BY <1>1, Reselected
<1>3. visible \subseteq OptionalTierKeys
  BY ShownIn DEF PageInit
<1> QED
  BY <1>1, <1>2, <1>3 DEF GoodView

LEMMA TypeFollows ==
  ASSUME PageInv, GoodView
  PROVE  PageTypeOK
<1>1. \A m \in Models : IsEntry(stored[m]) /\ IsEntry(options[m]) /\ IsEntry(save.output[m])
  BY DEF PageInv, GoodMaps, GoodOutput, GoodEntry
<1>2. ASSUME NEW m \in DOMAIN models
      PROVE  /\ \A k \in PriceKeys : models[m].price[k] \in Number
             /\ {models[m].input, models[m].fixed, models[m].imageFixed, models[m].imageRow}
                  \subseteq Number
  BY DEF PageInv, GoodList, GoodForm
<1>3. DOMAIN models \subseteq Models
  BY DEF PageInv, GoodList
<1>4. save.phase \in {"idle", "putting", "refreshing"} /\ (save.todo # {} => save.phase = "putting")
  BY DEF PageInv, GoodProgress
<1> QED
  BY <1>1, <1>2, <1>3, <1>4 DEF PageTypeOK, GoodView

\* For any models, maps and typed numbers: the maps hold values of their types,
\* and what is marked for deletion, ticked or selected is on the list, after
\* reloads that take rows away too (markModelForDelete, rowSelection,
\* removeDeletedModelsFromState).
THEOREM PageTyped == PageSpec => []PageTypeOK
<1>1. PageInit => GoodView
  BY ViewStart
<1>2. GoodView /\ [PageNext]_pageVars => GoodView'
  BY ViewStep
<1>3. PageSpec => []GoodView
  BY <1>1, <1>2, PTL DEF PageSpec
<1> QED
  BY <1>3, PageInvariant, TypeFollows, PTL
=============================================================================
