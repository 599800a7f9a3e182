------------------------------ MODULE Desktop ------------------------------
(***************************************************************************)
(* The main process of the desktop application (electron/main.js) in       *)
(* production mode: it spawns the server, probes its port until it         *)
(* answers, then shows a tray icon and a window.  Closing the window hides *)
(* it; quitting asks the server to stop and kills it after five seconds.   *)
(* The events of the operating system, of Electron and of the server are   *)
(* the environment; each event handler runs to its end before the next.    *)
(***************************************************************************)
EXTENDS Integers, FiniteSets

CONSTANTS
    MaxRetries,    \* maxRetries of checkServerAvailability
    MaxWindows,    \* bound: windows created in one run of the application
    EarlyActivate  \* macOS may activate the application while it starts

ASSUME DesktopAssumption ==
    /\ MaxRetries \in Nat \ {0}
    /\ MaxWindows \in Nat \ {0}
    /\ EarlyActivate \in BOOLEAN

Windows == 1 .. MaxWindows

VARIABLES
    mac,        \* process.platform is darwin; never changes
    foreign,    \* another program answers on PORT; never changes
    startup,    \* the promise of startServer
    probe,      \* the attempts made, the requests and retry timers pending
    server,     \* the server's process
    exitCode,   \* how it ended
    closed,     \* its close event has been handled
    win,        \* the windows
    mainWindow, \* the variable mainWindow; 0: null or undefined
    tray,       \* createTray has run
    isQuitting, \* app.isQuitting
    stopping,   \* before-quit has run: timer and close listener are set
    dialogs,    \* the message boxes on screen
    app,        \* the application's own process
    asked       \* history: somebody asked the application to quit

vars == <<mac, foreign, startup, probe, server, exitCode, closed, win,
          mainWindow, tray, isQuitting, stopping, dialogs, app, asked>>

env == <<mac, foreign>>
process == <<server, exitCode, closed>>
ui == <<win, mainWindow, tray, dialogs>>
quit == <<isQuitting, stopping, app, asked>>

Running == app = "running"
Open(w) == win[w] \in {"shown", "hidden"}

\* startServer has spawned the server and sent its first probe; a failure
\* before that, to make the data directory, is left out.
Init ==
    /\ mac \in BOOLEAN
    /\ foreign \in BOOLEAN
    /\ startup = "pending"
    /\ probe = [attempts |-> 1, inflight |-> 1, timers |-> 0]
    /\ server = "booting"
    /\ exitCode = "none"
    /\ closed = FALSE
    /\ win = [w \in Windows |-> "none"]
    /\ mainWindow = 0
    /\ tray = FALSE
    /\ isQuitting = FALSE
    /\ stopping = FALSE
    /\ dialogs = {}
    /\ app = "running"
    /\ asked = FALSE

-----------------------------------------------------------------------------
(* Windows *)

Unused == {w \in Windows : win[w] = "none"}

createWindow ==
    \E w \in Unused :
        /\ \A v \in Unused : w <= v
        /\ win' = [win EXCEPT ![w] = "shown"]
        /\ mainWindow' = w

(* Mutant: the closed event does not reset mainWindow.                     *)
CloseEvent_KeepsReference(w) ==
    IF isQuitting
    THEN win' = [win EXCEPT ![w] = "gone"] /\ UNCHANGED mainWindow
    ELSE win' = [win EXCEPT ![mainWindow] = "hidden"] /\ UNCHANGED mainWindow

\* The close event of any window hides mainWindow, unless the application
\* is quitting; then it lets the window go and forgets mainWindow.
CloseEvent(w) ==
    IF isQuitting
    THEN /\ win' = [win EXCEPT ![w] = "gone"]
         /\ mainWindow' = 0
    ELSE /\ win' = [win EXCEPT ![mainWindow] = "hidden"]
         /\ UNCHANGED mainWindow

UserClosesWindow(w) ==
    /\ Running
    /\ win[w] = "shown"
    /\ CloseEvent(w)
    /\ UNCHANGED <<env, startup, probe, process, tray, dialogs, quit>>

\* "Show New API" of the tray's menu.
TrayShow ==
    /\ Running
    /\ tray
    /\ IF mainWindow = 0
       THEN createWindow
       ELSE /\ win' = [win EXCEPT ![mainWindow] = "shown"]
            /\ UNCHANGED mainWindow
    /\ UNCHANGED <<env, startup, probe, process, tray, dialogs, quit>>

\* A click on the icon shows or hides the window.
TrayClick ==
    /\ Running
    /\ tray
    /\ IF mainWindow = 0
       THEN createWindow
       ELSE /\ win' = [win EXCEPT ![mainWindow] =
                            IF @ = "shown" THEN "hidden" ELSE "shown"]
            /\ UNCHANGED mainWindow
    /\ UNCHANGED <<env, startup, probe, process, tray, dialogs, quit>>

(* Mutant: the windows that exist are not counted.                         *)
Activate_Uncounted ==
    /\ Running
    /\ mac
    /\ startup = "pending" => EarlyActivate
    /\ createWindow
    /\ UNCHANGED <<env, startup, probe, process, tray, dialogs, quit>>

\* The activate event: a click on the dock, or a second launch.
Activate ==
    /\ Running
    /\ mac
    /\ startup = "pending" => EarlyActivate
    /\ \A w \in Windows : ~Open(w)
    /\ createWindow
    /\ UNCHANGED <<env, startup, probe, process, tray, dialogs, quit>>

-----------------------------------------------------------------------------
(* Starting: startServer, checkServerAvailability *)

\* The code after `await startServer()`.
Resolved ==
    IF startup = "pending"
    THEN /\ startup' = "resolved"
         /\ tray' = TRUE
         /\ createWindow
         /\ UNCHANGED dialogs
    ELSE UNCHANGED <<startup, tray, win, mainWindow, dialogs>>

\* Its catch clause.
Rejected ==
    /\ IF startup = "pending"
       THEN startup' = "rejected" /\ dialogs' = dialogs \cup {"startup"}
       ELSE UNCHANGED <<startup, dialogs>>
    /\ UNCHANGED <<tray, win, mainWindow>>

Answers == server = "serving" \/ foreign

(* Mutant: a request that was answered is answered again.                  *)
ProbeAnswered_Repeated ==
    /\ Running
    /\ Answers
    /\ probe' = [probe EXCEPT !.inflight = @ - 1]
    /\ Resolved
    /\ UNCHANGED <<env, process, quit>>

ProbeAnswered ==
    /\ Running
    /\ probe.inflight > 0
    /\ Answers
    /\ probe' = [probe EXCEPT !.inflight = @ - 1]
    /\ Resolved
    /\ UNCHANGED <<env, process, quit>>

(* Mutants: one attempt too many; the last failure is not reported.        *)
GiveUpOrRetry_OneMore(n) ==
    IF probe.attempts > MaxRetries
    THEN /\ probe' = [probe EXCEPT !.inflight = @ - 1]
         /\ Rejected
    ELSE /\ probe' = [probe EXCEPT !.inflight = @ - 1, !.timers = @ + n]
         /\ UNCHANGED <<startup, ui>>

GiveUpOrRetry_Silent(n) ==
    /\ probe' = [probe EXCEPT !.inflight = @ - 1,
                   !.timers = IF probe.attempts >= MaxRetries
                              THEN @ ELSE @ + n]
    /\ UNCHANGED <<startup, ui>>

\* The error handler, run n times by one request.
GiveUpOrRetry(n) ==
    IF probe.attempts >= MaxRetries
    THEN /\ probe' = [probe EXCEPT !.inflight = @ - 1]
         /\ Rejected
    ELSE /\ probe' = [probe EXCEPT !.inflight = @ - 1, !.timers = @ + n]
         /\ UNCHANGED <<startup, ui>>

ProbeRefused ==
    /\ Running
    /\ probe.inflight > 0
    /\ server # "serving"
    /\ ~foreign
    /\ GiveUpOrRetry(1)
    /\ UNCHANGED <<env, process, quit>>

\* The timeout handler destroys the request, which emits error as well:
\* both handlers set a timer.
ProbeTimesOut ==
    /\ Running
    /\ probe.inflight > 0
    /\ Answers
    /\ GiveUpOrRetry(2)
    /\ UNCHANGED <<env, process, quit>>

tryConnect ==
    /\ Running
    /\ probe.timers > 0
    /\ probe' = [attempts |-> probe.attempts + 1,
                 inflight |-> probe.inflight + 1,
                 timers   |-> probe.timers - 1]
    /\ UNCHANGED <<env, startup, process, ui, quit>>

-----------------------------------------------------------------------------
(* The server's process *)

\* It listens, unless the port is taken.
ServerListens ==
    /\ server = "booting"
    /\ ~foreign
    /\ server' = "serving"
    /\ UNCHANGED <<env, startup, probe, exitCode, closed, ui, quit>>

Ends(code) ==
    /\ server' = "exited"
    /\ exitCode' = code

\* spawn fails: the error event rejects, the close event follows.
SpawnFails ==
    /\ Running
    /\ server = "booting"
    /\ Ends("error")
    /\ Rejected
    /\ UNCHANGED <<env, probe, closed, quit>>

\* A fatal error; a signal from outside, which Node reports as null; or,
\* once srv.Shutdown has ended, a normal exit.
ServerDies ==
    /\ server # "exited"
    /\ \/ Ends("error")
       \/ Ends(IF server = "draining" THEN "zero" ELSE "signal")
    /\ UNCHANGED <<env, startup, probe, closed, ui, quit>>

\* The close event: the listener of startServer, then that of before-quit.
ServerClosed ==
    /\ Running
    /\ server = "exited"
    /\ ~closed
    /\ closed' = TRUE
    /\ IF exitCode = "error"
       THEN /\ dialogs' = dialogs \cup {"crash"}
            /\ UNCHANGED <<win, mainWindow>>
       ELSE /\ IF mainWindow # 0
               THEN CloseEvent(mainWindow)
               ELSE UNCHANGED <<win, mainWindow>>
            /\ UNCHANGED dialogs
    /\ app' = IF stopping THEN "exited" ELSE app
    /\ UNCHANGED <<env, startup, probe, server, exitCode, tray, isQuitting,
                   stopping, asked>>

-----------------------------------------------------------------------------
(* Quitting *)

\* SIGTERM: a server that listens shuts down gracefully (main.go); one that
\* has not come that far just ends.
SigTerm ==
    CASE server = "booting" -> Ends("signal")
      [] server = "serving" -> server' = "draining" /\ UNCHANGED exitCode
      [] OTHER -> UNCHANGED <<server, exitCode>>

\* app.quit(): before-quit prevents the default, sends SIGTERM and sets the
\* timer.  serverProcess is not reset when the server dies on its own.
BeforeQuit ==
    /\ SigTerm
    /\ stopping' = TRUE
    /\ asked' = TRUE
    /\ UNCHANGED <<env, startup, probe, closed, win, mainWindow, tray, app>>

TrayQuit ==
    /\ Running
    /\ tray
    /\ isQuitting' = TRUE
    /\ BeforeQuit
    /\ UNCHANGED dialogs

\* The application menu or the session's end call app.quit() themselves.
SystemQuit ==
    /\ Running
    /\ BeforeQuit
    /\ UNCHANGED <<isQuitting, dialogs>>

\* The second button opens the log and asks again.
DialogLog(d) ==
    /\ Running
    /\ d \in dialogs \cap {"startup", "crash"}
    /\ dialogs' = (dialogs \ {d}) \cup
                    {IF d = "crash" THEN "crashLog" ELSE "startupLog"}
    /\ UNCHANGED <<env, startup, probe, process, win, mainWindow, tray, quit>>

DialogQuit(d) ==
    /\ Running
    /\ d \in dialogs
    /\ dialogs' = dialogs \ {d}
    /\ isQuitting' = (isQuitting \/ d \in {"crash", "crashLog"})
    /\ BeforeQuit

(* Mutants: the timer exits without SIGKILL; it does nothing for a server  *)
(* that is already dead.                                                   *)
KillTimer_NoKill ==
    /\ Running
    /\ stopping
    /\ app' = "exited"
    /\ UNCHANGED <<env, startup, probe, process, ui, isQuitting, stopping,
                   asked>>

KillTimer_LiveOnly ==
    /\ Running
    /\ stopping
    /\ server # "exited"
    /\ Ends("signal")
    /\ app' = "exited"
    /\ UNCHANGED <<env, startup, probe, closed, ui, isQuitting, stopping,
                   asked>>

\* Five seconds after before-quit.
KillTimer ==
    /\ Running
    /\ stopping
    /\ IF server # "exited" THEN Ends("signal")
                            ELSE UNCHANGED <<server, exitCode>>
    /\ app' = "exited"
    /\ UNCHANGED <<env, startup, probe, closed, ui, isQuitting, stopping,
                   asked>>

Boxes == {"startup", "startupLog", "crash", "crashLog"}

UserStep ==
    \/ \E w \in Windows : UserClosesWindow(w)
    \/ TrayShow \/ TrayClick \/ Activate \/ TrayQuit \/ SystemQuit
    \/ \E d \in Boxes : DialogLog(d) \/ DialogQuit(d)

Probing == ProbeAnswered \/ ProbeRefused \/ ProbeTimesOut \/ tryConnect

Next ==
    \/ UserStep
    \/ Probing
    \/ ServerListens \/ SpawnFails \/ ServerDies \/ ServerClosed
    \/ KillTimer

Spec == Init /\ [][Next]_vars

(* Requests answer, fail or time out, and timers fire.  Nothing is assumed *)
(* of the server, nor of the user.                                         *)
Fairness == WF_vars(Probing) /\ WF_vars(KillTimer)

FairSpec == Spec /\ Fairness

-----------------------------------------------------------------------------
(* Properties *)

\* The variables of main.js and the state of the things it drives stay in
\* their types.
TypeOK ==
    /\ {mac, foreign, closed, tray, isQuitting, stopping, asked}
            \subseteq BOOLEAN
    /\ startup \in {"pending", "resolved", "rejected"}
    /\ probe \in [attempts: Nat, inflight: Nat, timers: Nat]
    /\ server \in {"booting", "serving", "draining", "exited"}
    /\ exitCode \in {"none", "zero", "signal", "error"}
    /\ win \in [Windows -> {"none", "shown", "hidden", "gone"}]
    /\ mainWindow \in 0 .. MaxWindows
    /\ dialogs \subseteq Boxes
    /\ app \in {"running", "exited"}

\* However the application ends, before-quit leaves no server behind that
\* would hold the port and the database against the next launch.
NoOrphan == app = "exited" => server = "exited"

\* A probe that times out retries twice; the shared counter still stops the
\* retries, before twice the limit.
ProbesBounded ==
    /\ probe.attempts < 2 * MaxRetries
    /\ probe.inflight + probe.timers <= MaxRetries

\* A click on a window's close button puts that window away, or destroys it
\* when the application is quitting ("Close to tray instead of quitting").
ClosesToTray == [][\A w \in Windows : UserClosesWindow(w) => win'[w] # "shown"]_vars

\* The handlers of the tray and of the server's close event call methods of
\* mainWindow after testing it for null: it never names a destroyed window.
WindowReachable == mainWindow # 0 => Open(mainWindow)

\* Once anybody asks to quit the application ends, whatever the server does.
QuitEnds == asked ~> app = "exited"

\* The start comes to an end: a window, an error box or the end of the
\* application.
StartupEnds == startup = "pending" ~> (startup # "pending" \/ app = "exited")

-----------------------------------------------------------------------------
\* Two promises the code does not keep, and so no part of a passing run (see
\* the README).

\* "Normal exit (code 0 or null): close the window" - the close event of
\* the server leaves no window of the application open.
WindowFollowsServer ==
    closed /\ exitCode # "error" => \A w \in Windows : ~Open(w)

\* The server that was asked to stop may finish what it is serving: it is
\* never killed while it drains.
DrainsInPeace == [][server = "draining" => exitCode' # "signal"]_vars
=============================================================================
