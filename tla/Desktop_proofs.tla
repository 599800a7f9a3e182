--------------------------- MODULE Desktop_proofs ---------------------------
(***************************************************************************)
(* Proofs about Desktop, for every number of retries and of windows.       *)
(***************************************************************************)
EXTENDS Desktop, TLAPS

-----------------------------------------------------------------------------
(* Types, by the group of variables.                                       *)

FlagsOK ==
    /\ mac \in BOOLEAN
    /\ foreign \in BOOLEAN
    /\ closed \in BOOLEAN
    /\ tray \in BOOLEAN
    /\ isQuitting \in BOOLEAN
    /\ stopping \in BOOLEAN
    /\ asked \in BOOLEAN

ProbeOK ==
    /\ startup \in {"pending", "resolved", "rejected"}
    /\ probe \in [attempts: Nat, inflight: Nat, timers: Nat]

ServerOK ==
    /\ server \in {"booting", "serving", "draining", "exited"}
    /\ exitCode \in {"none", "zero", "signal", "error"}

UiOK ==
    /\ win \in [Windows -> {"none", "shown", "hidden", "gone"}]
    /\ mainWindow \in 0 .. MaxWindows
    /\ dialogs \subseteq Boxes

LEMMA TypeParts ==
    TypeOK <=> /\ FlagsOK /\ ProbeOK /\ ServerOK /\ UiOK
               /\ app \in {"running", "exited"}
  BY DEF TypeOK, FlagsOK, ProbeOK, ServerOK, UiOK

LEMMA TypePartsNext ==
    ASSUME FlagsOK', ProbeOK', ServerOK', UiOK', app' \in {"running", "exited"}
    PROVE  TypeOK'
  BY DEF TypeOK, FlagsOK, ProbeOK, ServerOK, UiOK

(* A new window is the main window and is shown; the others are as before. *)
LEMMA NewWindow ==
    ASSUME UiOK, createWindow
    PROVE  /\ win' \in [Windows -> {"none", "shown", "hidden", "gone"}]
           /\ mainWindow' \in Windows
           /\ win[mainWindow'] = "none"
           /\ win' = [win EXCEPT ![mainWindow'] = "shown"]
  BY DEF UiOK, createWindow, Unused

LEMMA WindowRange == 0 .. MaxWindows = Windows \cup {0}
  BY DesktopAssumption DEF Windows

(* The handlers of the windows keep their types.                           *)
LEMMA UiTypes ==
    ASSUME UiOK,
           \/ createWindow
           \/ \E w \in Windows : CloseEvent(w)
           \/ \E label \in {"shown", "hidden"} :
                win' = [win EXCEPT ![mainWindow] = label] /\ UNCHANGED mainWindow
           \/ UNCHANGED <<win, mainWindow>>
    PROVE  /\ win' \in [Windows -> {"none", "shown", "hidden", "gone"}]
           /\ mainWindow' \in 0 .. MaxWindows
  <1>1. CASE createWindow
    BY <1>1, NewWindow, WindowRange
  <1>2. ASSUME NEW w \in Windows, CloseEvent(w)
        PROVE  /\ win' \in [Windows -> {"none", "shown", "hidden", "gone"}]
               /\ mainWindow' \in 0 .. MaxWindows
    BY <1>2, WindowRange DEF CloseEvent, UiOK
  <1> QED BY <1>1, <1>2 DEF UiOK

LEMMA InitType == Init => TypeOK
  <1> SUFFICES ASSUME Init PROVE TypeOK
    OBVIOUS
  <1>1. FlagsOK
    BY DEF Init, FlagsOK
  <1>2. ProbeOK /\ ServerOK
    BY DEF Init, ProbeOK, ServerOK
  <1>3. UiOK
    BY WindowRange DEF Init, UiOK
  <1> QED BY <1>1, <1>2, <1>3, TypeParts DEF Init

(* What the user does with windows, tray and boxes.                        *)
LEMMA UserType ==
    ASSUME TypeOK, UserStep
    PROVE  TypeOK'
  <1>t. /\ FlagsOK /\ ProbeOK /\ ServerOK /\ UiOK
        /\ app \in {"running", "exited"}
    BY TypeParts
  <1> USE DEF env, process, ui, quit
  <1>1. ASSUME \/ \E w \in Windows : UserClosesWindow(w)
               \/ TrayShow \/ TrayClick \/ Activate
        PROVE  TypeOK'
    <2>1. /\ win' \in [Windows -> {"none", "shown", "hidden", "gone"}]
          /\ mainWindow' \in 0 .. MaxWindows
      <3>1. CASE \E w \in Windows : UserClosesWindow(w)
        BY <1>t, <3>1, UiTypes DEF UserClosesWindow
      <3>2. CASE TrayShow
        BY <1>t, <3>2, UiTypes DEF TrayShow
      <3>3. CASE TrayClick
        BY <1>t, <3>3, UiTypes DEF TrayClick
      <3>4. CASE Activate
        BY <1>t, <3>4, UiTypes DEF Activate
      <3> QED BY <1>1, <3>1, <3>2, <3>3, <3>4
    <2>2. UNCHANGED <<env, startup, probe, process, tray, dialogs, quit>>
      BY <1>1 DEF UserClosesWindow, TrayShow, TrayClick, Activate
    <2>3. UiOK'
      BY <1>t, <2>1, <2>2 DEF UiOK
    <2>4. FlagsOK' /\ ProbeOK' /\ ServerOK' /\ app' \in {"running", "exited"}
      BY <1>t, <2>2 DEF FlagsOK, ProbeOK, ServerOK
    <2> QED BY <2>3, <2>4, TypePartsNext
  <1>2. ASSUME BeforeQuit, isQuitting' \in BOOLEAN, (dialogs \subseteq Boxes)'
        PROVE  TypeOK'
    <2>1. ServerOK'
      BY <1>t, <1>2 DEF BeforeQuit, SigTerm, Ends, ServerOK
    <2>2. FlagsOK'
      BY <1>t, <1>2 DEF BeforeQuit, FlagsOK
    <2>3. ProbeOK' /\ UiOK' /\ app' \in {"running", "exited"}
      BY <1>t, <1>2 DEF BeforeQuit, ProbeOK, UiOK
    <2> QED BY <2>1, <2>2, <2>3, TypePartsNext
  <1>3. CASE TrayQuit
    <2>1. BeforeQuit /\ isQuitting' \in BOOLEAN /\ (dialogs \subseteq Boxes)'
      BY <1>t, <1>3 DEF TrayQuit, UiOK
    <2> QED BY <1>2, <2>1
  <1>4. CASE SystemQuit
    <2>1. BeforeQuit /\ isQuitting' \in BOOLEAN /\ (dialogs \subseteq Boxes)'
      BY <1>t, <1>4 DEF SystemQuit, FlagsOK, UiOK
    <2> QED BY <1>2, <2>1
  <1>5. ASSUME NEW d \in Boxes, DialogQuit(d) PROVE TypeOK'
    <2>1. isQuitting' \in BOOLEAN
      BY <1>5 DEF DialogQuit
    <2>2. BeforeQuit /\ (dialogs \subseteq Boxes)'
      BY <1>t, <1>5 DEF DialogQuit, UiOK
    <2> QED BY <1>2, <2>1, <2>2
  <1>6. ASSUME NEW d \in Boxes, DialogLog(d) PROVE TypeOK'
    <2>1. UNCHANGED <<env, startup, probe, process, win, mainWindow, tray, quit>>
      BY <1>6 DEF DialogLog
    <2>2. UiOK'
      BY <1>t, <1>6, <2>1 DEF DialogLog, UiOK, Boxes
    <2>3. FlagsOK' /\ ProbeOK' /\ ServerOK' /\ app' \in {"running", "exited"}
      BY <1>t, <2>1 DEF FlagsOK, ProbeOK, ServerOK
    <2> QED BY <2>2, <2>3, TypePartsNext
  <1> QED BY <1>1, <1>3, <1>4, <1>5, <1>6 DEF UserStep

(* The probes: their counters stay natural numbers.                        *)
LEMMA ProbeTypes ==
    ASSUME ProbeOK, Probing
    PROVE  /\ probe' \in [attempts: Nat, inflight: Nat, timers: Nat]
           /\ startup' \in {"pending", "resolved", "rejected"}
  <1> DEFINE P == [attempts: Nat, inflight: Nat, timers: Nat]
  <1>t. /\ probe \in P
        /\ probe.attempts \in Nat /\ probe.inflight \in Nat /\ probe.timers \in Nat
        /\ startup \in {"pending", "resolved", "rejected"}
    BY DEF ProbeOK
  <1>1. ASSUME NEW n \in Nat, probe.inflight > 0, GiveUpOrRetry(n)
        PROVE  probe' \in P /\ startup' \in {"pending", "resolved", "rejected"}
    <2>1. probe.inflight - 1 \in Nat /\ probe.timers + n \in Nat
      BY <1>1, <1>t
    <2>2. probe' \in P
      BY <1>1, <1>t, <2>1 DEF GiveUpOrRetry
    <2> QED BY <1>1, <1>t, <2>2 DEF GiveUpOrRetry, Rejected
  <1>2. CASE ProbeAnswered
    <2>1. probe.inflight - 1 \in Nat
      BY <1>2, <1>t DEF ProbeAnswered
    <2>2. probe' \in P
      BY <1>2, <1>t, <2>1 DEF ProbeAnswered
    <2> QED BY <1>2, <1>t, <2>2 DEF ProbeAnswered, Resolved
  <1>3. CASE tryConnect
    <2>1. probe.timers - 1 \in Nat
      BY <1>3, <1>t DEF tryConnect
    <2> QED BY <1>3, <1>t, <2>1 DEF tryConnect
  <1> QED BY <1>1, <1>2, <1>3 DEF Probing, ProbeRefused, ProbeTimesOut

LEMMA ProbingType ==
    ASSUME TypeOK, Probing
    PROVE  TypeOK'
  <1>t. /\ FlagsOK /\ ProbeOK /\ ServerOK /\ UiOK
        /\ app \in {"running", "exited"}
    BY TypeParts
  <1>1. UNCHANGED <<env, process, quit>>
    BY DEF Probing, ProbeAnswered, ProbeRefused, ProbeTimesOut, tryConnect
  <1>2. ProbeOK'
    BY <1>t, ProbeTypes DEF ProbeOK
  <1>3. /\ tray' \in BOOLEAN
        /\ dialogs' \subseteq Boxes
        /\ createWindow \/ UNCHANGED <<win, mainWindow>>
    BY <1>t DEF Probing, ProbeAnswered, ProbeRefused, ProbeTimesOut, tryConnect,
                GiveUpOrRetry, Resolved, Rejected, ui, FlagsOK, UiOK, Boxes
  <1>4. UiOK'
    BY <1>t, <1>3, UiTypes DEF UiOK
  <1>5. FlagsOK'
    BY <1>t, <1>1, <1>3 DEF FlagsOK, env, process, quit
  <1>6. ServerOK' /\ app' \in {"running", "exited"}
    BY <1>t, <1>1 DEF ServerOK, process, quit
  <1> QED BY <1>2, <1>4, <1>5, <1>6, TypePartsNext

LEMMA ServerType ==
    ASSUME TypeOK,
           ServerListens \/ SpawnFails \/ ServerDies \/ ServerClosed \/ KillTimer
    PROVE  TypeOK'
  <1>t. /\ FlagsOK /\ ProbeOK /\ ServerOK /\ UiOK
        /\ app \in {"running", "exited"}
    BY TypeParts
  <1> USE DEF env, process, ui, quit
  <1>1. ServerOK'
    BY <1>t DEF ServerListens, SpawnFails, ServerDies, ServerClosed, KillTimer,
                Ends, ServerOK
  <1>2. FlagsOK'
    BY <1>t DEF ServerListens, SpawnFails, ServerDies, ServerClosed, KillTimer,
                Rejected, FlagsOK
  <1>3. ProbeOK'
    BY <1>t DEF ServerListens, SpawnFails, ServerDies, ServerClosed, KillTimer,
                Rejected, ProbeOK
  <1>4. app' \in {"running", "exited"}
    BY <1>t DEF ServerListens, SpawnFails, ServerDies, ServerClosed, KillTimer
  <1>5. UiOK'
    <2>1. CASE ServerClosed
      <3>1. dialogs' \subseteq Boxes
        BY <1>t, <2>1 DEF ServerClosed, UiOK, Boxes
      <3>2. mainWindow # 0 => mainWindow \in Windows
        BY <1>t, WindowRange DEF UiOK
      <3>3. \/ \E w \in Windows : CloseEvent(w)
            \/ UNCHANGED <<win, mainWindow>>
        BY <2>1, <3>2 DEF ServerClosed
      <3> QED BY <1>t, <3>1, <3>3, UiTypes DEF UiOK
    <2>2. CASE ServerListens \/ SpawnFails \/ ServerDies \/ KillTimer
      BY <1>t, <2>2 DEF ServerListens, SpawnFails, ServerDies, KillTimer,
                        Rejected, UiOK, Boxes
    <2> QED BY <2>1, <2>2
  <1> QED BY <1>1, <1>2, <1>3, <1>4, <1>5, TypePartsNext

LEMMA TypeStep == TypeOK /\ [Next]_vars => TypeOK'
  <1> SUFFICES ASSUME TypeOK, [Next]_vars PROVE TypeOK'
    OBVIOUS
  <1>1. CASE UNCHANGED vars
    BY <1>1 DEF vars, TypeOK
  <1>2. CASE Next
    BY <1>2, UserType, ProbingType, ServerType DEF Next
  <1> QED BY <1>1, <1>2

(* Type correctness: the variables of main.js stay in their types in every *)
(* order of clicks, probes and events of the server.                       *)
THEOREM TypeCorrect == Spec => []TypeOK
  BY InitType, TypeStep, PTL DEF Spec

-----------------------------------------------------------------------------
(* The server does not outlive the application.                            *)

(* The application exits after the server's close event or the SIGKILL of  *)
(* the timer, and a server that has ended stays so (before-quit): for any  *)
(* order of quits, crashes and timers.                                     *)
THEOREM NoOrphanLeft == Spec => []NoOrphan
  <1>1. Init => NoOrphan
    BY DEF Init, NoOrphan
  <1>2. TypeOK /\ NoOrphan /\ [Next]_vars => NoOrphan'
    <2> SUFFICES ASSUME TypeOK, NoOrphan, [Next]_vars PROVE NoOrphan'
      OBVIOUS
    <2> USE DEF NoOrphan, env, process, ui, quit
    <2>1. CASE Probing
      BY <2>1 DEF Probing, ProbeAnswered, ProbeRefused, ProbeTimesOut, tryConnect
    <2>2. CASE UserStep
      BY <2>2 DEF UserStep, UserClosesWindow, TrayShow, TrayClick, Activate,
                  TrayQuit, SystemQuit, DialogLog, DialogQuit, BeforeQuit,
                  SigTerm, Ends
    <2>3. CASE ServerListens \/ SpawnFails \/ ServerDies \/ ServerClosed
      BY <2>3 DEF ServerListens, SpawnFails, ServerDies, ServerClosed, Ends
    <2>4. CASE KillTimer
      BY <2>4 DEF KillTimer, Ends
    <2>5. CASE UNCHANGED vars
      BY <2>5 DEF vars
    <2> QED BY <2>1, <2>2, <2>3, <2>4, <2>5 DEF Next
  <1> QED BY <1>1, <1>2, TypeCorrect, PTL DEF Spec

-----------------------------------------------------------------------------
(* The retries of checkServerAvailability.                                 *)

(* A request that times out sets two timers, so that the attempts branch.  *)
(* Below the limit every attempt has paid for the two it may still cause;  *)
(* at the limit only the timers already set are left.                      *)
Budget ==
    /\ probe.attempts < MaxRetries =>
         probe.timers + 2 * probe.inflight <= probe.attempts + 1
    /\ probe.attempts >= MaxRetries =>
         /\ probe.attempts + probe.timers <= 2 * MaxRetries - 1
         /\ probe.inflight + probe.timers <= MaxRetries

(* What a step does to the counters.                                       *)
LEMMA ProbeCounters ==
    ASSUME TypeOK, [Next]_vars
    PROVE  \/ probe' = probe
           \/ /\ probe.timers > 0
              /\ probe'.attempts = probe.attempts + 1
              /\ probe'.inflight = probe.inflight + 1
              /\ probe'.timers = probe.timers - 1
           \/ /\ probe.inflight > 0
              /\ probe'.attempts = probe.attempts
              /\ probe'.inflight = probe.inflight - 1
              /\ \/ probe'.timers = probe.timers
                 \/ /\ probe.attempts < MaxRetries
                    /\ \E n \in {1, 2} : probe'.timers = probe.timers + n
  <1>t. /\ probe \in [attempts: Nat, inflight: Nat, timers: Nat]
        /\ probe.attempts \in Nat /\ MaxRetries \in Nat
    BY DesktopAssumption DEF TypeOK
  <1>1. CASE tryConnect
    BY <1>1 DEF tryConnect
  <1>2. CASE ProbeAnswered
    BY <1>t, <1>2 DEF ProbeAnswered
  <1>3. ASSUME NEW n \in {1, 2}, GiveUpOrRetry(n)
        PROVE  /\ probe'.attempts = probe.attempts
               /\ probe'.inflight = probe.inflight - 1
               /\ \/ probe'.timers = probe.timers
                  \/ /\ probe.attempts < MaxRetries
                     /\ probe'.timers = probe.timers + n
    <2>1. CASE probe.attempts >= MaxRetries
      BY <1>t, <1>3, <2>1 DEF GiveUpOrRetry
    <2>2. CASE ~(probe.attempts >= MaxRetries)
      <3>1. probe' = [probe EXCEPT !.inflight = @ - 1, !.timers = @ + n]
        BY <1>3, <2>2 DEF GiveUpOrRetry
      <3>2. probe.attempts < MaxRetries
        BY <1>t, <2>2
      <3> QED BY <1>t, <3>1, <3>2
    <2> QED BY <2>1, <2>2
  <1>4. CASE ProbeRefused \/ ProbeTimesOut
    <2>1. \E n \in {1, 2} : GiveUpOrRetry(n)
      BY <1>4 DEF ProbeRefused, ProbeTimesOut
    <2>2. probe.inflight > 0
      BY <1>4 DEF ProbeRefused, ProbeTimesOut
    <2> QED BY <1>3, <2>1, <2>2
  <1>5. CASE \/ UserStep \/ ServerListens \/ SpawnFails \/ ServerDies
             \/ ServerClosed \/ KillTimer \/ UNCHANGED vars
    BY <1>5 DEF UserStep, UserClosesWindow, TrayShow, TrayClick, Activate,
                TrayQuit, SystemQuit, DialogLog, DialogQuit, BeforeQuit,
                ServerListens, SpawnFails, ServerDies, ServerClosed, KillTimer,
                vars
  <1> QED BY <1>1, <1>2, <1>4, <1>5 DEF Next, Probing

(* The retries end (checkServerAvailability): although a probe that times  *)
(* out is retried twice, fewer than twice maxRetries requests are ever     *)
(* sent, and at most maxRetries are waiting or scheduled at any time.      *)
THEOREM RetriesBounded == Spec => []ProbesBounded
  <1> DEFINE I == TypeOK /\ Budget
  <1>t. ASSUME TypeOK
        PROVE  /\ probe.attempts \in Nat /\ probe.inflight \in Nat
               /\ probe.timers \in Nat
               /\ MaxRetries \in Nat /\ MaxRetries >= 1
    <2>1. probe \in [attempts: Nat, inflight: Nat, timers: Nat]
      BY <1>t DEF TypeOK
    <2>2. MaxRetries \in Nat /\ MaxRetries >= 1
      BY DesktopAssumption
    <2> QED BY <2>1, <2>2
  <1>1. Init => I
    BY InitType, DesktopAssumption DEF Init, Budget
  <1>2. I /\ [Next]_vars => I'
    <2> SUFFICES ASSUME TypeOK, Budget, [Next]_vars PROVE Budget'
      BY TypeStep
    <2>1. /\ probe.attempts \in Nat /\ probe.inflight \in Nat
          /\ probe.timers \in Nat
          /\ MaxRetries \in Nat /\ MaxRetries >= 1
      BY <1>t
    <2>2. CASE probe' = probe
      BY <2>2 DEF Budget
    <2>3. CASE /\ probe.timers > 0
               /\ probe'.attempts = probe.attempts + 1
               /\ probe'.inflight = probe.inflight + 1
               /\ probe'.timers = probe.timers - 1
      BY <2>1, <2>3 DEF Budget
    <2>4. CASE /\ probe.inflight > 0
               /\ probe'.attempts = probe.attempts
               /\ probe'.inflight = probe.inflight - 1
               /\ \/ probe'.timers = probe.timers
                  \/ /\ probe.attempts < MaxRetries
                     /\ \E n \in {1, 2} : probe'.timers = probe.timers + n
      BY <2>1, <2>4 DEF Budget
    <2> QED BY <2>2, <2>3, <2>4, ProbeCounters
  <1>3. I => ProbesBounded
    BY <1>t DEF Budget, ProbesBounded
  <1> QED BY <1>1, <1>2, <1>3, PTL DEF Spec

-----------------------------------------------------------------------------
(* The windows.                                                            *)

(* The tray appears when the server answered; before that, unless macOS    *)
(* activates the application early, there is no window.  While nobody      *)
(* quits, mainWindow is the only window there is.                          *)
WindowInv ==
    /\ WindowReachable
    /\ tray => startup = "resolved"
    /\ ~EarlyActivate =>
         /\ startup = "pending" => mainWindow = 0
         /\ ~isQuitting => \A w \in Windows : Open(w) => w = mainWindow

(* What a step does to the windows.                                        *)
LEMMA WindowSteps ==
    ASSUME TypeOK, WindowInv, [Next]_vars
    PROVE  /\ isQuitting => isQuitting'
           /\ tray' => startup' = "resolved"
           /\ startup' = "pending" => startup = "pending"
           /\ \/ UNCHANGED <<win, mainWindow>>
              \/ /\ createWindow
                 /\ ~EarlyActivate => startup' # "pending"
                 /\ ~EarlyActivate /\ ~isQuitting => \A w \in Windows : ~Open(w)
              \/ \E w \in Windows : CloseEvent(w) /\ UNCHANGED startup
              \/ /\ mainWindow # 0 /\ UNCHANGED <<mainWindow, startup>>
                 /\ \E label \in {"shown", "hidden"} :
                      win' = [win EXCEPT ![mainWindow] = label]
  <1> USE DEF env, process, ui, quit
  <1>w. mainWindow # 0 => mainWindow \in Windows
    BY WindowRange DEF TypeOK
  <1>f. isQuitting \in BOOLEAN /\ tray \in BOOLEAN
    BY DEF TypeOK
  <1>n. ~EarlyActivate /\ ~isQuitting /\ mainWindow = 0 =>
          \A w \in Windows : ~Open(w)
    BY DEF WindowInv, Windows
  <1>1. ASSUME NEW w \in Windows, UserClosesWindow(w)
        PROVE  /\ CloseEvent(w) /\ UNCHANGED <<startup, tray, isQuitting>>
    BY <1>1 DEF UserClosesWindow
  <1>2. CASE TrayShow \/ TrayClick
    <2>1. UNCHANGED <<startup, tray, isQuitting>> /\ startup' = "resolved"
      BY <1>2 DEF TrayShow, TrayClick, WindowInv
    <2>2. CASE mainWindow = 0
      BY <1>2, <1>n, <2>1, <2>2 DEF TrayShow, TrayClick
    <2>3. CASE mainWindow # 0
      BY <1>2, <2>1, <2>3 DEF TrayShow, TrayClick
    <2> QED BY <2>2, <2>3
  <1>3. CASE Activate
    BY <1>3 DEF Activate, WindowInv
  <1>4. CASE \/ TrayQuit \/ SystemQuit
             \/ \E d \in Boxes : DialogLog(d) \/ DialogQuit(d)
    <2>1. UNCHANGED <<win, mainWindow, startup, tray>>
      BY <1>4 DEF TrayQuit, SystemQuit, DialogLog, DialogQuit, BeforeQuit
    <2>2. isQuitting => isQuitting'
      BY <1>4 DEF TrayQuit, SystemQuit, DialogLog, DialogQuit
    <2> QED BY <2>1, <2>2 DEF WindowInv
  <1>5. CASE ProbeAnswered
    <2>1. UNCHANGED isQuitting
      BY <1>5 DEF ProbeAnswered
    <2>2. CASE startup = "pending"
      <3>1. createWindow /\ startup' = "resolved"
        BY <1>5, <2>2 DEF ProbeAnswered, Resolved
      <3> QED BY <1>n, <2>1, <2>2, <3>1 DEF WindowInv
    <2>3. CASE startup # "pending"
      BY <1>5, <2>1, <2>3 DEF ProbeAnswered, Resolved, WindowInv
    <2> QED BY <2>2, <2>3
  <1>6. CASE ProbeRefused \/ ProbeTimesOut \/ SpawnFails
    <2>1. UNCHANGED <<isQuitting, win, mainWindow, tray>>
      BY <1>6 DEF ProbeRefused, ProbeTimesOut, SpawnFails, GiveUpOrRetry,
                  Rejected
    <2>2. \/ UNCHANGED startup
          \/ startup = "pending" /\ startup' = "rejected"
      BY <1>6 DEF ProbeRefused, ProbeTimesOut, SpawnFails, GiveUpOrRetry,
                  Rejected
    <2> QED BY <2>1, <2>2 DEF WindowInv
  <1>7. CASE \/ tryConnect \/ ServerListens \/ ServerDies \/ KillTimer
             \/ UNCHANGED vars
    <2>1. UNCHANGED <<isQuitting, win, mainWindow, tray, startup>>
      BY <1>7 DEF tryConnect, ServerListens, ServerDies, KillTimer, vars
    <2> QED BY <2>1 DEF WindowInv
  <1>8. CASE ServerClosed
    <2>1. UNCHANGED <<isQuitting, tray, startup>>
      BY <1>8 DEF ServerClosed
    <2>2. \/ UNCHANGED <<win, mainWindow>>
          \/ \E w \in Windows : CloseEvent(w)
      BY <1>8, <1>w DEF ServerClosed
    <2> QED BY <2>1, <2>2 DEF WindowInv
  <1>9. CASE \E w \in Windows : UserClosesWindow(w)
    BY <1>1, <1>9 DEF WindowInv
  <1> QED BY <1>2, <1>3, <1>4, <1>5, <1>6, <1>7, <1>8, <1>9
    DEF Next, UserStep, Probing

LEMMA WindowStep ==
    ASSUME TypeOK, WindowInv, [Next]_vars
    PROVE  WindowInv'
  <1>u. UiOK /\ isQuitting \in BOOLEAN
    BY TypeParts DEF FlagsOK
  <1>s. /\ isQuitting => isQuitting'
        /\ tray' => startup' = "resolved"
        /\ startup' = "pending" => startup = "pending"
    BY WindowSteps
  <1>z. 0 \notin Windows
    BY DEF Windows
  <1>w. mainWindow # 0 => mainWindow \in Windows
    BY <1>u, WindowRange DEF UiOK
  <1>1. CASE UNCHANGED <<win, mainWindow>>
    BY <1>s, <1>1 DEF WindowInv, WindowReachable, Open
  <1>2. CASE /\ createWindow
             /\ ~EarlyActivate => startup' # "pending"
             /\ ~EarlyActivate /\ ~isQuitting => \A w \in Windows : ~Open(w)
    <2>1. /\ mainWindow' \in Windows
          /\ win' = [win EXCEPT ![mainWindow'] = "shown"]
          /\ win \in [Windows -> {"none", "shown", "hidden", "gone"}]
      BY <1>u, <1>2, NewWindow DEF UiOK
    <2>2. WindowReachable'
      BY <2>1 DEF WindowReachable, Open
    <2>3. ~EarlyActivate /\ ~isQuitting' =>
            \A w \in Windows : Open(w)' => w = mainWindow'
      BY <1>s, <1>2, <2>1 DEF Open
    <2> QED BY <1>s, <1>2, <2>2, <2>3 DEF WindowInv
  <1>3. ASSUME NEW w \in Windows, CloseEvent(w), UNCHANGED startup
        PROVE  WindowInv'
    <2>1. CASE isQuitting
      BY <1>s, <1>3, <2>1 DEF WindowInv, WindowReachable, CloseEvent
    <2>2. CASE ~isQuitting
      <3>1. win' = [win EXCEPT ![mainWindow] = "hidden"] /\ UNCHANGED mainWindow
        BY <1>3, <2>2 DEF CloseEvent
      <3>2. WindowReachable'
        BY <1>u, <1>w, <3>1 DEF WindowReachable, Open, UiOK
      <3>3. ~EarlyActivate => \A v \in Windows : Open(v)' => v = mainWindow'
        BY <1>u, <2>2, <3>1 DEF WindowInv, Open, UiOK
      <3> QED BY <1>s, <1>3, <3>1, <3>2, <3>3 DEF WindowInv
    <2> QED BY <2>1, <2>2
  <1>4. ASSUME NEW label \in {"shown", "hidden"}, mainWindow # 0,
               win' = [win EXCEPT ![mainWindow] = label],
               UNCHANGED <<mainWindow, startup>>
        PROVE  WindowInv'
    <2>1. WindowReachable'
      BY <1>u, <1>w, <1>4 DEF WindowReachable, Open, UiOK
    <2>2. ~EarlyActivate /\ ~isQuitting' =>
            \A v \in Windows : Open(v)' => v = mainWindow'
      BY <1>u, <1>s, <1>4 DEF WindowInv, Open, UiOK
    <2> QED BY <1>s, <1>4, <2>1, <2>2 DEF WindowInv
  <1> QED BY <1>1, <1>2, <1>3, <1>4, WindowSteps

LEMMA WindowInvariance == Spec => [](TypeOK /\ WindowInv)
  <1>1. Init => WindowInv
    BY DEF Init, WindowInv, WindowReachable, Open
  <1>2. TypeOK /\ WindowInv /\ [Next]_vars => WindowInv'
    BY WindowStep
  <1> QED BY <1>1, <1>2, TypeCorrect, PTL DEF Spec

(* The handlers never call a method of a destroyed window (createTray, the *)
(* close event of the server): mainWindow names an open window or none.    *)
THEOREM MainWindowUsable == Spec => []WindowReachable
  <1>1. WindowInv => WindowReachable
    BY DEF WindowInv
  <1> QED BY <1>1, WindowInvariance, PTL

HidesClicked ==
    \A w \in Windows : UserClosesWindow(w) => win'[w] # "shown"

(* Closing a window puts that window away (the close event of createWindow)*)
(* unless macOS activates the application while it is starting: then there *)
(* may be two windows, and the handler hides the other one.                *)
THEOREM CloseHidesWindow ==
    ASSUME ~EarlyActivate
    PROVE  Spec => ClosesToTray
  <1>1. TypeOK /\ WindowInv /\ [Next]_vars => [HidesClicked]_vars
    <2> SUFFICES ASSUME TypeOK, WindowInv, NEW w \in Windows, UserClosesWindow(w)
                 PROVE  win'[w] # "shown"
      BY DEF HidesClicked
    <2>1. win \in [Windows -> {"none", "shown", "hidden", "gone"}]
      BY DEF TypeOK
    <2>2. win[w] = "shown" /\ CloseEvent(w)
      BY DEF UserClosesWindow
    <2>3. CASE isQuitting
      BY <2>1, <2>2, <2>3 DEF CloseEvent
    <2>4. CASE ~isQuitting
      <3>1. w = mainWindow
        BY <2>2, <2>4 DEF WindowInv, Open
      <3> QED BY <2>1, <2>2, <2>4, <3>1 DEF CloseEvent
    <2> QED BY <2>3, <2>4
  <1>2. [][HidesClicked]_vars => ClosesToTray
    BY DEF ClosesToTray, HidesClicked
  <1> QED BY <1>1, <1>2, WindowInvariance, PTL DEF Spec

=============================================================================
