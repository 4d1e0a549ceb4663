------------------------- MODULE DesktopRunnerProofs -------------------------
(***************************************************************************)
(* DesktopRunner proved for every number of launches on either platform.   *)
(* On Windows the mutex decides: of two processes that hold it one saw the *)
(* other's, and only one that saw none makes a window.  On Linux the owner *)
(* of the name is the only process with windows.  The last section is what *)
(* lets every launch come to an end.                                       *)
(***************************************************************************)
EXTENDS DesktopRunner, TLAPS

LinuxPlaces == {"off", "register", "activate", "remote", "loop", "exited"}
WindowsPlaces == Places \ {"register", "activate", "remote"}
Alone == {"create", "window", "view", "loop", "unwind"}

\* Each platform has places and queues of its own.
PlacesInv ==
  /\ platform = "linux" =>
       errorKept /\ \A p \in Procs : pc[p] \in LinuxPlaces /\ ~quit[p]
  /\ platform = "windows" =>
       \A p \in Procs : pc[p] \in WindowsPlaces /\ calls[p] = 0

\* Windows: a running process holds the mutex, and one that has gone on to
\* make a window found it free.
MutexInv ==
  platform = "windows" =>
    /\ \A p \in Procs : pc[p] \notin {"off", "exited"} <=> p \in mutex
    /\ errorKept => \A p, q \in mutex : p # q => lastError[p] \/ lastError[q]
    /\ \A p \in Procs : pc[p] \in Alone => ~lastError[p]
    /\ \A p \in Procs : windows[p] > 0 => pc[p] \in {"view", "loop", "unwind"}
    /\ \A p \in Procs : pc[p] = "view" => windows[p] > 0
    /\ \A p \in Procs : windows[p] > 0 => class[p]
    /\ \A p \in Procs : pc[p] = "dispatch" => found[p] # None

\* Linux: who has windows, or is about to, owns the name.
OwnerInv ==
  platform = "linux" =>
    /\ \A p \in Procs : pc[p] \in {"activate", "loop"} => owner = p
    /\ \A p \in Procs : windows[p] > 0 => pc[p] = "loop"

\* An engine has its window.
EngineInv ==
  \A p \in Procs : /\ platform = "linux" => views[p] = windows[p]
                   /\ views[p] > 0 => windows[p] > 0

\* Only a launch that has exited has a result.
FreshInv == \A p \in Procs : result[p] # "none" => pc[p] = "exited"

\* A witness is reachable, and it is the one a launch has found.
WitnessInv ==
  /\ \A p \in Procs : \A q \in witness[p] : pc[q] = "loop" /\ windows[q] > 0
  /\ errorKept => \A p \in Procs : pc[p] = "dispatch" => witness[p] \subseteq {found[p]}
  /\ RelaunchReaches

IInv == /\ TypeOK /\ PlacesInv /\ MutexInv /\ OwnerInv /\ EngineInv
        /\ FreshInv /\ WitnessInv

\* Only one process has windows.
LEMMA Single == ASSUME IInv PROVE SingleInstance
<1> SUFFICES ASSUME errorKept, NEW p \in Procs, NEW q \in Procs,
                    windows[p] > 0, windows[q] > 0
             PROVE  p = q
  BY DEF SingleInstance
<1>1. CASE platform = "windows"
  BY <1>1 DEF IInv, MutexInv, Alone, TypeOK
<1>2. CASE platform = "linux"
  BY <1>2 DEF IInv, OwnerInv
<1> QED
  BY <1>1, <1>2, PlatformsAssumption DEF IInv, TypeOK

-----------------------------------------------------------------------------
(* Each action preserves the invariant.                                    *)

USE PlatformsAssumption, ProcsAssumption
    DEF IInv, vars, setting, window, At, Goto, Reachable, Witnessed, Launch,
        Places, Transit, LinuxPlaces, WindowsPlaces, Alone

\* CreateMutex: the new process sees whether another has the mutex.
LEMMA CreateMutexInv ==
  ASSUME NEW p \in Procs, IInv, CreateMutex(p) PROVE IInv'
<1> USE DEF CreateMutex
<1>1. TypeOK'
  BY DEF TypeOK
<1>2. PlacesInv'
  BY DEF TypeOK, PlacesInv
<1>3. MutexInv'
  BY DEF TypeOK, PlacesInv, MutexInv
<1>4. OwnerInv'
  BY DEF TypeOK, PlacesInv, OwnerInv
<1>5. EngineInv'
  BY DEF TypeOK, PlacesInv, MutexInv, EngineInv
<1>6. FreshInv'
  BY DEF TypeOK, PlacesInv, FreshInv
<1>7. WitnessInv'
  <2>1. \A r \in Procs : witness'[r] = IF r = p THEN {q \in Procs : Reachable(q)}
                                                ELSE witness[r]
    BY DEF TypeOK
  <2>2. \A q \in Procs : pc[q] = "loop" => pc'[q] = "loop" /\ q # p
    BY DEF TypeOK
  <2>3. result[p] # "lost"
    BY DEF FreshInv
  <2> QED
    BY <2>1, <2>2, <2>3 DEF TypeOK, WitnessInv, RelaunchReaches
<1> QED
  BY <1>1, <1>2, <1>3, <1>4, <1>5, <1>6, <1>7

\* FindWindow may clear the last error only where it is not kept.
LEMMA FindWindowInv ==
  ASSUME NEW p \in Procs, IInv, FindWindow(p) PROVE IInv'
<1> USE DEF FindWindow
<1>1. TypeOK'
  BY DEF TypeOK
<1>2. PlacesInv'
  BY DEF TypeOK, PlacesInv
<1>3. MutexInv'
  BY DEF TypeOK, PlacesInv, MutexInv
<1>4. OwnerInv'
  BY DEF TypeOK, PlacesInv, OwnerInv
<1>5. EngineInv'
  BY DEF TypeOK, PlacesInv, MutexInv, EngineInv
<1>6. FreshInv'
  BY DEF TypeOK, PlacesInv, FreshInv
<1>7. WitnessInv'
  BY DEF TypeOK, PlacesInv, MutexInv, OwnerInv, WitnessInv, RelaunchReaches
<1> QED
  BY <1>1, <1>2, <1>3, <1>4, <1>5, <1>6, <1>7

\* The last error decides whether to make a window.
LEMMA CheckErrorInv ==
  ASSUME NEW p \in Procs, IInv, CheckError(p) PROVE IInv'
<1> USE DEF CheckError
<1>1. TypeOK'
  BY DEF TypeOK
<1>2. PlacesInv'
  BY DEF TypeOK, PlacesInv
<1>3. MutexInv'
  BY DEF TypeOK, PlacesInv, MutexInv
<1>4. OwnerInv'
  BY DEF TypeOK, PlacesInv, OwnerInv
<1>5. EngineInv'
  BY DEF TypeOK, PlacesInv, MutexInv, EngineInv
<1>6. FreshInv'
  BY DEF TypeOK, PlacesInv, FreshInv
<1>7. WitnessInv'
  BY DEF TypeOK, PlacesInv, MutexInv, OwnerInv, WitnessInv, RelaunchReaches
<1> QED
  BY <1>1, <1>2, <1>3, <1>4, <1>5, <1>6, <1>7

\* The window found is that of any witness.
LEMMA FindInstanceInv ==
  ASSUME NEW p \in Procs, IInv, FindInstance(p) PROVE IInv'
<1> USE DEF FindInstance, HasWindow
<1>1. TypeOK'
  BY DEF TypeOK
<1>2. PlacesInv'
  BY DEF TypeOK, PlacesInv
<1>3. MutexInv'
  BY DEF TypeOK, PlacesInv, MutexInv
<1>4. OwnerInv'
  BY DEF TypeOK, PlacesInv, OwnerInv
<1>5. EngineInv'
  BY DEF TypeOK, PlacesInv, MutexInv, EngineInv
<1>6. FreshInv'
  BY DEF TypeOK, PlacesInv, FreshInv
<1>7. WitnessInv'
  BY DEF TypeOK, PlacesInv, MutexInv, OwnerInv, WitnessInv, RelaunchReaches
<1> QED
  BY <1>1, <1>2, <1>3, <1>4, <1>5, <1>6, <1>7

\* The launch ends, and it is lost only with a window that has gone.
LEMMA DispatchInv ==
  ASSUME NEW p \in Procs, IInv, Dispatch(p) PROVE IInv'
<1> USE DEF Dispatch
<1>1. TypeOK'
  <2>1. /\ seen' \in [Procs -> SUBSET Procs]
        /\ visible' \in [Procs -> BOOLEAN]
    <3>1. seen' \in [Procs -> SUBSET Procs]
      BY DEF TypeOK
    <3>2. (windows[found[p]] > 0) \in BOOLEAN
      OBVIOUS
    <3>3. visible' = [visible EXCEPT ![found[p]] = windows[found[p]] > 0]
      OBVIOUS
    <3>4. visible' \in [Procs -> BOOLEAN]
      BY <3>2, <3>3 DEF TypeOK
    <3> QED
      BY <3>1, <3>4
  <2>2. result' \in [Procs -> {"none", "handed", "lost", "failed", "ended"}]
    BY DEF TypeOK
  <2>3. witness' \in [Procs -> SUBSET Procs]
    BY DEF TypeOK
  <2> QED
    BY <2>1, <2>2, <2>3 DEF TypeOK
<1>2. PlacesInv'
  BY DEF TypeOK, PlacesInv
<1>3. MutexInv'
  BY DEF TypeOK, PlacesInv, MutexInv
<1>4. OwnerInv'
  BY DEF TypeOK, PlacesInv, OwnerInv
<1>5. EngineInv'
  BY DEF TypeOK, PlacesInv, MutexInv, EngineInv
<1>6. FreshInv'
  BY DEF TypeOK, PlacesInv, FreshInv
<1>7. WitnessInv'
  BY DEF TypeOK, PlacesInv, MutexInv, OwnerInv, WitnessInv, RelaunchReaches
<1> QED
  BY <1>1, <1>2, <1>3, <1>4, <1>5, <1>6, <1>7

\* There is no window, so no witness.
LEMMA GiveUpInv ==
  ASSUME NEW p \in Procs, IInv, GiveUp(p) PROVE IInv'
<1> USE DEF GiveUp, Leave, HasWindow
<1>1. TypeOK'
  BY DEF TypeOK
<1>2. PlacesInv'
  BY DEF TypeOK, PlacesInv
<1>3. MutexInv'
  BY DEF TypeOK, PlacesInv, MutexInv
<1>4. OwnerInv'
  BY DEF TypeOK, PlacesInv, OwnerInv
<1>5. EngineInv'
  BY DEF TypeOK, PlacesInv, MutexInv, EngineInv
<1>6. FreshInv'
  BY DEF TypeOK, PlacesInv, FreshInv
<1>7. WitnessInv'
  BY DEF TypeOK, PlacesInv, MutexInv, OwnerInv, WitnessInv, RelaunchReaches
<1> QED
  BY <1>1, <1>2, <1>3, <1>4, <1>5, <1>6, <1>7

\* No window was found.
LEMMA CreateInv ==
  ASSUME NEW p \in Procs, IInv, Create(p) PROVE IInv'
<1> USE DEF Create
<1>1. TypeOK'
  BY DEF TypeOK
<1>2. PlacesInv'
  BY DEF TypeOK, PlacesInv
<1>3. MutexInv'
  BY DEF TypeOK, PlacesInv, MutexInv
<1>4. OwnerInv'
  BY DEF TypeOK, PlacesInv, OwnerInv
<1>5. EngineInv'
  BY DEF TypeOK, PlacesInv, MutexInv, EngineInv
<1>6. FreshInv'
  BY DEF TypeOK, PlacesInv, FreshInv
<1>7. WitnessInv'
  BY DEF TypeOK, PlacesInv, MutexInv, OwnerInv, WitnessInv, RelaunchReaches
<1> QED
  BY <1>1, <1>2, <1>3, <1>4, <1>5, <1>6, <1>7

\* The first window of the process.
LEMMA CreateWindowInv ==
  ASSUME NEW p \in Procs, IInv, CreateWindow(p) PROVE IInv'
<1> USE DEF CreateWindow, GetWindowClass, NcCreate
<1>1. TypeOK'
  BY DEF TypeOK
<1>2. PlacesInv'
  BY DEF TypeOK, PlacesInv
<1>3. MutexInv'
  BY DEF TypeOK, PlacesInv, MutexInv
<1>4. OwnerInv'
  BY DEF TypeOK, PlacesInv, OwnerInv
<1>5. EngineInv'
  BY DEF TypeOK, PlacesInv, MutexInv, EngineInv
<1>6. FreshInv'
  BY DEF TypeOK, PlacesInv, FreshInv
<1>7. WitnessInv'
  BY DEF TypeOK, PlacesInv, MutexInv, OwnerInv, WitnessInv, RelaunchReaches
<1> QED
  BY <1>1, <1>2, <1>3, <1>4, <1>5, <1>6, <1>7

\* The engine comes into the window.
LEMMA OnCreateInv ==
  ASSUME NEW p \in Procs, IInv, OnCreate(p) PROVE IInv'
<1> USE DEF OnCreate, SetQuitOnClose, Arguments
<1>1. TypeOK'
  <2>1. seen' \in [Procs -> SUBSET Procs]
    BY DEF TypeOK
  <2> QED
    BY <2>1 DEF TypeOK
<1>2. PlacesInv'
  BY DEF TypeOK, PlacesInv
<1>3. MutexInv'
  BY DEF TypeOK, PlacesInv, MutexInv
<1>4. OwnerInv'
  BY DEF TypeOK, PlacesInv, OwnerInv
<1>5. EngineInv'
  BY DEF TypeOK, PlacesInv, MutexInv, EngineInv
<1>6. FreshInv'
  BY DEF TypeOK, PlacesInv, FreshInv
<1>7. WitnessInv'
  BY DEF TypeOK, PlacesInv, MutexInv, OwnerInv, WitnessInv, RelaunchReaches
<1> QED
  BY <1>1, <1>2, <1>3, <1>4, <1>5, <1>6, <1>7

\* The window goes, and its engine with it.
LEMMA DestroyWindowInv ==
  ASSUME NEW p \in Procs, IInv, DestroyWindow(p) PROVE IInv'
<1> USE DEF DestroyWindow, OnDestroy
<1>1. TypeOK'
  BY DEF TypeOK
<1>2. PlacesInv'
  BY DEF TypeOK, PlacesInv
<1>3. MutexInv'
  BY DEF TypeOK, PlacesInv, MutexInv
<1>4. OwnerInv'
  BY DEF TypeOK, PlacesInv, OwnerInv
<1>5. EngineInv'
  BY DEF TypeOK, PlacesInv, MutexInv, EngineInv
<1>6. FreshInv'
  BY DEF TypeOK, PlacesInv, FreshInv
<1>7. WitnessInv'
  BY DEF TypeOK, PlacesInv, MutexInv, OwnerInv, WitnessInv, RelaunchReaches
<1> QED
  BY <1>1, <1>2, <1>3, <1>4, <1>5, <1>6, <1>7

\* The window is shown or hidden.
LEMMA PluginShowInv ==
  ASSUME NEW p \in Procs, IInv, PluginShow(p) PROVE IInv'
<1> USE DEF PluginShow
<1>1. TypeOK'
  BY DEF TypeOK
<1>2. PlacesInv'
  BY DEF TypeOK, PlacesInv
<1>3. MutexInv'
  BY DEF TypeOK, PlacesInv, MutexInv
<1>4. OwnerInv'
  BY DEF TypeOK, PlacesInv, OwnerInv
<1>5. EngineInv'
  BY DEF TypeOK, PlacesInv, MutexInv, EngineInv
<1>6. FreshInv'
  BY DEF TypeOK, PlacesInv, FreshInv
<1>7. WitnessInv'
  BY DEF TypeOK, PlacesInv, MutexInv, OwnerInv, WitnessInv, RelaunchReaches
<1> QED
  BY <1>1, <1>2, <1>3, <1>4, <1>5, <1>6, <1>7

\* A plugin posts WM_QUIT.
LEMMA PluginQuitInv ==
  ASSUME NEW p \in Procs, IInv, PluginQuit(p) PROVE IInv'
<1> USE DEF PluginQuit
<1>1. TypeOK'
  BY DEF TypeOK
<1>2. PlacesInv'
  BY DEF TypeOK, PlacesInv
<1>3. MutexInv'
  BY DEF TypeOK, PlacesInv, MutexInv
<1>4. OwnerInv'
  BY DEF TypeOK, PlacesInv, OwnerInv
<1>5. EngineInv'
  BY DEF TypeOK, PlacesInv, MutexInv, EngineInv
<1>6. FreshInv'
  BY DEF TypeOK, PlacesInv, FreshInv
<1>7. WitnessInv'
  BY DEF TypeOK, PlacesInv, MutexInv, OwnerInv, WitnessInv, RelaunchReaches
<1> QED
  BY <1>1, <1>2, <1>3, <1>4, <1>5, <1>6, <1>7

\* The message loop ends.
LEMMA EndLoopInv ==
  ASSUME NEW p \in Procs, IInv, EndLoop(p) PROVE IInv'
<1> USE DEF EndLoop
<1>1. TypeOK'
  BY DEF TypeOK
<1>2. PlacesInv'
  BY DEF TypeOK, PlacesInv
<1>3. MutexInv'
  BY DEF TypeOK, PlacesInv, MutexInv
<1>4. OwnerInv'
  BY DEF TypeOK, PlacesInv, OwnerInv
<1>5. EngineInv'
  BY DEF TypeOK, PlacesInv, MutexInv, EngineInv
<1>6. FreshInv'
  BY DEF TypeOK, PlacesInv, FreshInv
<1>7. WitnessInv'
  BY DEF TypeOK, PlacesInv, MutexInv, OwnerInv, WitnessInv, RelaunchReaches
<1> QED
  BY <1>1, <1>2, <1>3, <1>4, <1>5, <1>6, <1>7

\* The destructors run and the process ends.
LEMMA UnwindInv ==
  ASSUME NEW p \in Procs, IInv, Unwind(p) PROVE IInv'
<1> USE DEF Unwind, Leave
<1>1. TypeOK'
  BY DEF TypeOK
<1>2. PlacesInv'
  BY DEF TypeOK, PlacesInv
<1>3. MutexInv'
  BY DEF TypeOK, PlacesInv, MutexInv
<1>4. OwnerInv'
  BY DEF TypeOK, PlacesInv, OwnerInv
<1>5. EngineInv'
  BY DEF TypeOK, PlacesInv, MutexInv, EngineInv
<1>6. FreshInv'
  BY DEF TypeOK, PlacesInv, FreshInv
<1>7. WitnessInv'
  BY DEF TypeOK, PlacesInv, MutexInv, OwnerInv, WitnessInv, RelaunchReaches
<1> QED
  BY <1>1, <1>2, <1>3, <1>4, <1>5, <1>6, <1>7

\* The process has copied its arguments.
LEMMA CommandLineInv ==
  ASSUME NEW p \in Procs, IInv, CommandLine(p) PROVE IInv'
<1> USE DEF CommandLine
<1>1. TypeOK'
  BY DEF TypeOK
<1>2. PlacesInv'
  BY DEF TypeOK, PlacesInv
<1>3. MutexInv'
  BY DEF TypeOK, PlacesInv, MutexInv
<1>4. OwnerInv'
  BY DEF TypeOK, PlacesInv, OwnerInv
<1>5. EngineInv'
  BY DEF TypeOK, PlacesInv, MutexInv, EngineInv
<1>6. FreshInv'
  BY DEF TypeOK, PlacesInv, FreshInv
<1>7. WitnessInv'
  <2>1. \A r \in Procs : witness'[r] = IF r = p THEN {q \in Procs : Reachable(q)}
                                                ELSE witness[r]
    BY DEF TypeOK
  <2>2. \A q \in Procs : pc[q] = "loop" => pc'[q] = "loop" /\ q # p
    BY DEF TypeOK
  <2>3. result[p] # "lost"
    BY DEF FreshInv
  <2> QED
    BY <2>1, <2>2, <2>3 DEF TypeOK, WitnessInv, RelaunchReaches
<1> QED
  BY <1>1, <1>2, <1>3, <1>4, <1>5, <1>6, <1>7

\* The process cannot register and ends.
LEMMA RegisterFailsInv ==
  ASSUME NEW p \in Procs, IInv, RegisterFails(p) PROVE IInv'
<1> USE DEF RegisterFails, Leave
<1>1. TypeOK'
  BY DEF TypeOK
<1>2. PlacesInv'
  BY DEF TypeOK, PlacesInv
<1>3. MutexInv'
  BY DEF TypeOK, PlacesInv, MutexInv
<1>4. OwnerInv'
  BY DEF TypeOK, PlacesInv, OwnerInv
<1>5. EngineInv'
  BY DEF TypeOK, PlacesInv, MutexInv, EngineInv
<1>6. FreshInv'
  BY DEF TypeOK, PlacesInv, FreshInv
<1>7. WitnessInv'
  BY DEF TypeOK, PlacesInv, MutexInv, OwnerInv, WitnessInv, RelaunchReaches
<1> QED
  BY <1>1, <1>2, <1>3, <1>4, <1>5, <1>6, <1>7

\* The name has one owner.
LEMMA RegisterInv ==
  ASSUME NEW p \in Procs, IInv, Register(p) PROVE IInv'
<1> USE DEF Register
<1>1. TypeOK'
  BY DEF TypeOK
<1>2. PlacesInv'
  BY DEF TypeOK, PlacesInv
<1>3. MutexInv'
  BY DEF TypeOK, PlacesInv, MutexInv
<1>4. OwnerInv'
  BY DEF TypeOK, PlacesInv, OwnerInv
<1>5. EngineInv'
  BY DEF TypeOK, PlacesInv, MutexInv, EngineInv
<1>6. FreshInv'
  BY DEF TypeOK, PlacesInv, FreshInv
<1>7. WitnessInv'
  BY DEF TypeOK, PlacesInv, MutexInv, OwnerInv, WitnessInv, RelaunchReaches
<1> QED
  BY <1>1, <1>2, <1>3, <1>4, <1>5, <1>6, <1>7

\* The owner opens its first window.
LEMMA ActivateInv ==
  ASSUME NEW p \in Procs, IInv, Activate(p) PROVE IInv'
<1> USE DEF Activate, Open
<1>1. TypeOK'
  BY DEF TypeOK
<1>2. PlacesInv'
  BY DEF TypeOK, PlacesInv
<1>3. MutexInv'
  BY DEF TypeOK, PlacesInv, MutexInv
<1>4. OwnerInv'
  BY DEF TypeOK, PlacesInv, OwnerInv
<1>5. EngineInv'
  BY DEF TypeOK, PlacesInv, MutexInv, EngineInv
<1>6. FreshInv'
  BY DEF TypeOK, PlacesInv, FreshInv
<1>7. WitnessInv'
  BY DEF TypeOK, PlacesInv, MutexInv, OwnerInv, WitnessInv, RelaunchReaches
<1> QED
  BY <1>1, <1>2, <1>3, <1>4, <1>5, <1>6, <1>7

\* Without an owner there is no witness.
LEMMA ActivateRemoteInv ==
  ASSUME NEW p \in Procs, IInv, ActivateRemote(p) PROVE IInv'
<1> USE DEF ActivateRemote
<1>1. TypeOK'
  BY DEF TypeOK
<1>2. PlacesInv'
  BY DEF TypeOK, PlacesInv
<1>3. MutexInv'
  BY DEF TypeOK, PlacesInv, MutexInv
<1>4. OwnerInv'
  BY DEF TypeOK, PlacesInv, OwnerInv
<1>5. EngineInv'
  BY DEF TypeOK, PlacesInv, MutexInv, EngineInv
<1>6. FreshInv'
  BY DEF TypeOK, PlacesInv, FreshInv
<1>7. WitnessInv'
  BY DEF TypeOK, PlacesInv, MutexInv, OwnerInv, WitnessInv, RelaunchReaches
<1> QED
  BY <1>1, <1>2, <1>3, <1>4, <1>5, <1>6, <1>7

\* The owner opens one more window.
LEMMA AnswerInv ==
  ASSUME NEW p \in Procs, IInv, Answer(p) PROVE IInv'
<1> USE DEF Answer, TakeCall, Open
<1>1. TypeOK'
  BY DEF TypeOK
<1>2. PlacesInv'
  BY DEF TypeOK, PlacesInv
<1>3. MutexInv'
  BY DEF TypeOK, PlacesInv, MutexInv
<1>4. OwnerInv'
  BY DEF TypeOK, PlacesInv, OwnerInv
<1>5. EngineInv'
  BY DEF TypeOK, PlacesInv, MutexInv, EngineInv
<1>6. FreshInv'
  BY DEF TypeOK, PlacesInv, FreshInv
<1>7. WitnessInv'
  BY DEF TypeOK, PlacesInv, MutexInv, OwnerInv, WitnessInv, RelaunchReaches
<1> QED
  BY <1>1, <1>2, <1>3, <1>4, <1>5, <1>6, <1>7

\* One window of the owner goes.
LEMMA CloseWindowInv ==
  ASSUME NEW p \in Procs, IInv, CloseWindow(p) PROVE IInv'
<1> USE DEF CloseWindow
<1>1. TypeOK'
  <2>1. windows[p] - 1 \in Nat
    BY DEF TypeOK
  <2>2. views[p] - 1 \in Nat
    BY <2>1 DEF EngineInv, TypeOK
  <2>3. visible' \in [Procs -> BOOLEAN]
    BY Zenon DEF TypeOK
  <2>4. witness' \in [Procs -> SUBSET Procs]
    BY DEF TypeOK
  <2> QED
    BY <2>1, <2>2, <2>3, <2>4 DEF TypeOK
<1>2. PlacesInv'
  BY DEF TypeOK, PlacesInv
<1>3. MutexInv'
  BY DEF TypeOK, PlacesInv, MutexInv
<1>4. OwnerInv'
  BY DEF TypeOK, PlacesInv, OwnerInv
<1>5. EngineInv'
  BY DEF TypeOK, PlacesInv, MutexInv, EngineInv
<1>6. FreshInv'
  BY DEF TypeOK, PlacesInv, FreshInv
<1>7. WitnessInv'
  BY DEF TypeOK, PlacesInv, MutexInv, OwnerInv, WitnessInv, RelaunchReaches
<1> QED
  BY <1>1, <1>2, <1>3, <1>4, <1>5, <1>6, <1>7

\* The owner has no window left and ends.
LEMMA ShutdownInv ==
  ASSUME NEW p \in Procs, IInv, Shutdown(p) PROVE IInv'
<1> USE DEF Shutdown, Leave
<1>1. TypeOK'
  BY DEF TypeOK
<1>2. PlacesInv'
  BY DEF TypeOK, PlacesInv
<1>3. MutexInv'
  BY DEF TypeOK, PlacesInv, MutexInv
<1>4. OwnerInv'
  BY DEF TypeOK, PlacesInv, OwnerInv
<1>5. EngineInv'
  BY DEF TypeOK, PlacesInv, MutexInv, EngineInv
<1>6. FreshInv'
  BY DEF TypeOK, PlacesInv, FreshInv
<1>7. WitnessInv'
  BY DEF TypeOK, PlacesInv, MutexInv, OwnerInv, WitnessInv, RelaunchReaches
<1> QED
  BY <1>1, <1>2, <1>3, <1>4, <1>5, <1>6, <1>7

\* The process ends anywhere.
LEMMA KilledInv ==
  ASSUME NEW p \in Procs, IInv, Killed(p) PROVE IInv'
<1> USE DEF Killed, Leave
<1>1. TypeOK'
  BY DEF TypeOK
<1>2. PlacesInv'
  BY DEF TypeOK, PlacesInv
<1>3. MutexInv'
  BY DEF TypeOK, PlacesInv, MutexInv
<1>4. OwnerInv'
  BY DEF TypeOK, PlacesInv, OwnerInv
<1>5. EngineInv'
  BY DEF TypeOK, PlacesInv, MutexInv, EngineInv
<1>6. FreshInv'
  BY DEF TypeOK, PlacesInv, FreshInv
<1>7. WitnessInv'
  BY DEF TypeOK, PlacesInv, MutexInv, OwnerInv, WitnessInv, RelaunchReaches
<1> QED
  BY <1>1, <1>2, <1>3, <1>4, <1>5, <1>6, <1>7

-----------------------------------------------------------------------------
LEMMA InitInv == Init => IInv
<1> SUFFICES ASSUME Init PROVE IInv
  OBVIOUS
<1> USE DEF Init
<1>1. errorKept \in BOOLEAN /\ (platform = "linux" => errorKept)
  OBVIOUS
<1>2. TypeOK
  BY <1>1 DEF TypeOK
<1>3. PlacesInv /\ MutexInv /\ OwnerInv /\ EngineInv
  BY <1>1 DEF PlacesInv, MutexInv, OwnerInv, EngineInv
<1>4. FreshInv /\ WitnessInv
  BY DEF FreshInv, WitnessInv, RelaunchReaches
<1> QED
  BY <1>2, <1>3, <1>4

LEMMA NextInv == IInv /\ [Next]_vars => IInv'
<1> SUFFICES ASSUME IInv, [Next]_vars PROVE IInv'
  OBVIOUS
<1>1. ASSUME NEW p \in Procs, Proceed(p) PROVE IInv'
  BY <1>1, FindWindowInv, CheckErrorInv, FindInstanceInv, DispatchInv,
     GiveUpInv, CreateInv, CreateWindowInv, OnCreateInv, EndLoopInv,
     UnwindInv, RegisterFailsInv, RegisterInv, ActivateInv, ActivateRemoteInv,
     AnswerInv, ShutdownInv DEF Proceed
<1>2. ASSUME NEW p \in Procs,
             \/ CreateMutex(p) \/ CommandLine(p) \/ DestroyWindow(p)
             \/ PluginShow(p) \/ PluginQuit(p) \/ CloseWindow(p) \/ Killed(p)
      PROVE  IInv'
  BY <1>2, CreateMutexInv, CommandLineInv, DestroyWindowInv, PluginShowInv,
     PluginQuitInv, CloseWindowInv, KilledInv
<1>3. CASE UNCHANGED vars
  BY <1>3 DEF TypeOK, PlacesInv, MutexInv, OwnerInv, EngineInv, FreshInv,
              WitnessInv, RelaunchReaches
<1> QED
  BY <1>1, <1>2, <1>3 DEF Next

LEMMA Invariant == Spec => []IInv
  BY InitInv, NextInv, PTL DEF Spec

-----------------------------------------------------------------------------
(* The theorems.                                                           *)

\* Every variable of the runners keeps its type.
THEOREM TypeCorrect == Spec => []TypeOK
<1>1. IInv => TypeOK
  OBVIOUS
<1> QED
  BY <1>1, Invariant, PTL

\* However many launches race and die, one process at most has windows.
THEOREM OneInstance == Spec => []SingleInstance
  BY Single, Invariant, PTL

\* No engine outlives its window, no window on Windows its class.
THEOREM EnginesInWindows == Spec => []EngineInWindow
<1>1. IInv => EngineInWindow
  BY DEF EngineInWindow, EngineInv, MutexInv
<1> QED
  BY <1>1, Invariant, PTL

\* A launch is lost only when no process was up all the time.
THEOREM RelaunchFinds == Spec => []RelaunchReaches
<1>1. IInv => RelaunchReaches
  BY DEF WitnessInv
<1> QED
  BY <1>1, Invariant, PTL

-----------------------------------------------------------------------------
(* What LaunchSettles rests on besides fairness.                           *)

\* Windows: a process in its loop quits on close, and once its window has
\* gone WM_QUIT is in its queue.
QuitInv ==
  platform = "windows" =>
    \A p \in Procs : pc[p] = "loop" => /\ quitOnClose[p]
                                       /\ windows[p] > 0 \/ quit[p]

\* A process has a step that nobody else need make possible.
CanProceed(p) ==
  \/ pc[p] \in Transit
  \/ platform = "windows" /\ pc[p] = "unwind"
  \/ pc[p] = "loop" /\ \/ quit[p]
                       \/ calls[p] > 0
                       \/ platform = "linux" /\ windows[p] = 0

LEMMA QuitStep ==
  ASSUME IInv, QuitInv, NEW p \in Procs,
         \/ CreateMutex(p) \/ CommandLine(p) \/ Proceed(p) \/ DestroyWindow(p)
         \/ PluginShow(p) \/ PluginQuit(p) \/ CloseWindow(p) \/ Killed(p)
  PROVE  QuitInv'
<1> USE DEF QuitInv, TypeOK
<1>1. CASE CreateMutex(p) \/ CommandLine(p)
  BY <1>1 DEF CreateMutex, CommandLine
<1>2. CASE FindWindow(p) \/ CheckError(p) \/ FindInstance(p) \/ Create(p)
  BY <1>2 DEF FindWindow, CheckError, FindInstance, Create
<1>3. CASE Dispatch(p)
  BY <1>3 DEF Dispatch
<1>4. CASE GiveUp(p) \/ Unwind(p) \/ RegisterFails(p) \/ Shutdown(p) \/ Killed(p)
  BY <1>4 DEF GiveUp, Unwind, RegisterFails, Shutdown, Killed, Leave
<1>5. CASE CreateWindow(p)
  BY <1>5 DEF CreateWindow, NcCreate, GetWindowClass
<1>6. CASE OnCreate(p)
  BY <1>6 DEF OnCreate, SetQuitOnClose, MutexInv
<1>7. CASE EndLoop(p) \/ PluginShow(p) \/ PluginQuit(p)
  BY <1>7 DEF EndLoop, PluginShow, PluginQuit
<1>8. CASE DestroyWindow(p)
  BY <1>8 DEF DestroyWindow, OnDestroy
<1>9. CASE Register(p) \/ Activate(p) \/ ActivateRemote(p)
  BY <1>9 DEF Register, Activate, ActivateRemote, Open, PlacesInv
<1>10. CASE Answer(p) \/ CloseWindow(p)
  BY <1>10 DEF Answer, TakeCall, CloseWindow, Open
<1> QED
  BY <1>1, <1>2, <1>3, <1>4, <1>5, <1>6, <1>7, <1>8, <1>9, <1>10 DEF Proceed

\* No launch is left where it waits for somebody else: it has come to its
\* loop with a window, has exited, or has a step of its own.  So none goes on
\* without a window because WM_QUIT was never posted.
THEOREM LaunchesGoOn == Spec => [](\A p \in Procs : Settled(p) \/ CanProceed(p))
<1>1. Init => QuitInv
  BY DEF Init, QuitInv
<1>2. IInv /\ QuitInv /\ [Next]_vars => QuitInv'
  <2>1. IInv /\ QuitInv /\ UNCHANGED vars => QuitInv'
    BY DEF QuitInv
  <2> QED
    BY <2>1, QuitStep DEF Next
<1>3. IInv /\ QuitInv => \A p \in Procs : Settled(p) \/ CanProceed(p)
  <2> SUFFICES ASSUME IInv, QuitInv, NEW p \in Procs, ~Settled(p)
               PROVE  CanProceed(p)
    OBVIOUS
  <2>1. pc[p] \in Transit \cup {"loop", "unwind"}
    BY DEF TypeOK, Settled
  <2>2. CASE pc[p] = "loop"
    <3>1. windows[p] = 0
      BY <2>2 DEF TypeOK, Settled
    <3>2. platform = "windows" \/ platform = "linux"
      BY DEF TypeOK
    <3> QED
      BY <2>2, <3>1, <3>2 DEF QuitInv, CanProceed
  <2>3. CASE pc[p] = "unwind"
    BY <2>3 DEF PlacesInv, TypeOK, CanProceed
  <2> QED
    BY <2>1, <2>2, <2>3 DEF CanProceed
<1> QED
  BY <1>1, <1>2, <1>3, Invariant, PTL DEF Spec

\* How far a process is from its end.
Rank == [off |-> 10, find |-> 9, register |-> 9, check |-> 8, activate |-> 8, remote |-> 8,
         forward |-> 7, create |-> 7, dispatch |-> 6, window |-> 6, view |-> 5, loop |-> 4,
         unwind |-> 3, exited |-> 0]

\* A step takes processes nearer to their end or leaves them where they are.
Onward == \A p \in Procs : pc'[p] = pc[p] \/ Rank[pc'[p]] < Rank[pc[p]]

LEMMA RankFact ==
  /\ Rank["off"] = 10 /\ Rank["find"] = 9 /\ Rank["register"] = 9
  /\ Rank["check"] = 8 /\ Rank["activate"] = 8 /\ Rank["remote"] = 8
  /\ Rank["forward"] = 7 /\ Rank["create"] = 7 /\ Rank["dispatch"] = 6
  /\ Rank["window"] = 6 /\ Rank["view"] = 5 /\ Rank["loop"] = 4
  /\ Rank["unwind"] = 3 /\ Rank["exited"] = 0
  BY DEF Rank

LEMMA OnwardStep ==
  ASSUME TypeOK, NEW p \in Procs,
         \/ CreateMutex(p) \/ CommandLine(p) \/ Proceed(p) \/ DestroyWindow(p)
         \/ PluginShow(p) \/ PluginQuit(p) \/ CloseWindow(p) \/ Killed(p)
  PROVE  Onward
<1> USE RankFact DEF Onward, TypeOK
<1>1. CASE CreateMutex(p) \/ CommandLine(p)
  BY <1>1 DEF CreateMutex, CommandLine, Launch
<1>2. CASE FindWindow(p) \/ CheckError(p) \/ FindInstance(p) \/ Create(p)
  BY <1>2 DEF FindWindow, CheckError, FindInstance, Create
<1>3. CASE Dispatch(p)
  BY <1>3 DEF Dispatch
<1>4. CASE GiveUp(p) \/ Unwind(p) \/ RegisterFails(p) \/ Shutdown(p)
  BY <1>4 DEF GiveUp, Unwind, RegisterFails, Shutdown, Leave
<1>5. CASE CreateWindow(p) \/ OnCreate(p)
  BY <1>5 DEF CreateWindow, OnCreate
<1>6. CASE EndLoop(p)
  BY <1>6 DEF EndLoop
<1>7. CASE PluginShow(p) \/ PluginQuit(p) \/ DestroyWindow(p) \/ CloseWindow(p)
  BY <1>7 DEF PluginShow, PluginQuit, DestroyWindow, CloseWindow
<1>8. CASE Register(p) \/ Activate(p) \/ ActivateRemote(p) \/ Answer(p)
  BY <1>8 DEF Register, Activate, ActivateRemote, Answer
<1>9. CASE Killed(p)
  BY <1>9 DEF Killed, Leave
<1> QED
  BY <1>1, <1>2, <1>3, <1>4, <1>5, <1>6, <1>7, <1>8, <1>9 DEF Proceed

\* No launch goes in circles: other launches, links, crashes and the user never
\* throw it back to a place it has left.
THEOREM LaunchesAdvance == Spec => [][Onward]_vars
<1>1. IInv /\ [Next]_vars => [Onward]_vars
  BY OnwardStep DEF Next
<1> QED
  BY <1>1, Invariant, PTL DEF Spec
==============================================================================
