---------------------------- MODULE DesktopRunner ----------------------------
(***************************************************************************)
(* The native runners of the desktops: wWinMain, Win32Window and           *)
(* FlutterWindow on Windows, MyApplication on Linux.  A process is one     *)
(* launch of the program.  The question both runners answer is what a      *)
(* second launch does while another is running: on Windows a named mutex   *)
(* and a look for the window by its title, on Linux the name GApplication  *)
(* owns on the bus.                                                        *)
(*                                                                         *)
(* A process is single threaded, so its steps end where another process    *)
(* can see a difference: a call into the operating system.  WM_DESTROY is  *)
(* handled inside DestroyWindow and is part of the step that calls it.     *)
(***************************************************************************)
EXTENDS Naturals

CONSTANTS Procs,      \* the launches of the program
          Platforms,  \* the platforms to check: "windows", "linux"
          None

ASSUME PlatformsAssumption == Platforms \subseteq {"windows", "linux"}
ASSUME ProcsAssumption == None \notin Procs

VARIABLES platform,  \* where the launches happen
          errorKept, \* does a FindWindow that finds nothing keep the last error?
          pc,        \* pc[p]: where process p is
          owner,     \* Linux: the process that owns the application's name
          mutex,     \* Windows: the processes with a handle of HiddifyMutex
          lastError, \* lastError[p]: is GetLastError() ERROR_ALREADY_EXISTS?
          found,     \* found[p]: the process whose window p has found, or None
          windows,   \* windows[p]: how many top level windows p has
          views,     \* views[p]: how many Flutter engines p has
          visible,   \* visible[p]: has p a window that is shown?
          class,     \* class[p]: is p's window class registered?
          quitOnClose,
          quit,      \* quit[p]: is WM_QUIT in p's queue?
          calls,     \* Linux: calls[p]: activations sent to p and not handled
          seen,      \* seen[p]: launches whose argument an engine of p got
          result,    \* result[p]: how the launch p has ended
          witness    \* witness[p]: processes in their loop, with a window,
                     \* ever since p was launched (history)

setting == <<platform, errorKept>>
window == <<windows, views, visible, class, quitOnClose, quit>>
vars == <<setting, pc, owner, mutex, lastError, found, window, calls, seen,
          result, witness>>

Transit == {"find", "check", "forward", "create", "dispatch", "window", "view",
            "register", "activate", "remote"}
Places == Transit \cup {"off", "loop", "unwind", "exited"}

TypeOK == /\ platform \in Platforms
          /\ errorKept \in BOOLEAN
          /\ pc \in [Procs -> Places]
          /\ owner \in Procs \cup {None}
          /\ mutex \subseteq Procs
          /\ lastError \in [Procs -> BOOLEAN]
          /\ found \in [Procs -> Procs \cup {None}]
          /\ windows \in [Procs -> Nat]
          /\ views \in [Procs -> Nat]
          /\ visible \in [Procs -> BOOLEAN]
          /\ class \in [Procs -> BOOLEAN]
          /\ quitOnClose \in [Procs -> BOOLEAN]
          /\ quit \in [Procs -> BOOLEAN]
          /\ calls \in [Procs -> Nat]
          /\ seen \in [Procs -> SUBSET Procs]
          /\ result \in [Procs -> {"none", "handed", "lost", "failed", "ended"}]
          /\ witness \in [Procs -> SUBSET Procs]

Init == /\ platform \in Platforms
        /\ errorKept \in IF platform = "windows" THEN BOOLEAN ELSE {TRUE}
        /\ pc = [p \in Procs |-> "off"]
        /\ owner = None
        /\ mutex = {}
        /\ lastError = [p \in Procs |-> FALSE]
        /\ found = [p \in Procs |-> None]
        /\ windows = [p \in Procs |-> 0]
        /\ views = [p \in Procs |-> 0]
        /\ visible = [p \in Procs |-> FALSE]
        /\ class = [p \in Procs |-> FALSE]
        /\ quitOnClose = [p \in Procs |-> FALSE]
        /\ quit = [p \in Procs |-> FALSE]
        /\ calls = [p \in Procs |-> 0]
        /\ seen = [p \in Procs |-> {}]
        /\ result = [p \in Procs |-> "none"]
        /\ witness = [p \in Procs |-> {}]

-----------------------------------------------------------------------------
(* Helpers.                                                                *)

At(p, place) == pc[p] = place
Goto(p, place) == pc' = [pc EXCEPT ![p] = place]

Reachable(q) == At(q, "loop") /\ windows[q] > 0

\* Processes that are no longer reachable are no longer witnesses.
Witnessed(gone) == witness' = [p \in Procs |-> witness[p] \ gone]

Launch(p, place) ==
  /\ At(p, "off")
  /\ Goto(p, place)
  /\ witness' = [witness EXCEPT ![p] = {q \in Procs : Reachable(q)}]

\* The end of a process: the system closes its handles, windows and names.
Leave(p, how) == /\ Goto(p, "exited")
                 /\ result' = [result EXCEPT ![p] = how]
                 /\ mutex' = mutex \ {p}
                 /\ owner' = IF owner = p THEN None ELSE owner
                 /\ windows' = [windows EXCEPT ![p] = 0]
                 /\ views' = [views EXCEPT ![p] = 0]
                 /\ visible' = [visible EXCEPT ![p] = FALSE]
                 /\ class' = [class EXCEPT ![p] = FALSE]
                 /\ Witnessed({p})
                 /\ UNCHANGED <<setting, lastError, found, quitOnClose, quit,
                                calls>>

-----------------------------------------------------------------------------
(* Windows: wWinMain up to the window.                                     *)

\* CreateMutex, whose last error says whether the mutex was there.
CreateMutex(p) ==
  /\ platform = "windows"
  /\ Launch(p, "find")
  /\ lastError' = [lastError EXCEPT ![p] = mutex # {}]
  /\ mutex' = mutex \cup {p}
  /\ UNCHANGED <<setting, owner, found, window, calls, seen, result>>

\* Mutant: a window that has been hidden in the tray is not found.
ShownWindows == {q \in Procs : windows[q] > 0 /\ visible[q]}

\* FindWindow finds hidden windows too.
HasWindow == {q \in Procs : windows[q] > 0}

\* FindWindowA comes between CreateMutex and GetLastError.
FindWindow(p) ==
  /\ At(p, "find")
  /\ lastError' = [lastError EXCEPT ![p] = @ /\ (errorKept \/ HasWindow # {})]
  /\ Goto(p, "check")
  /\ UNCHANGED <<setting, owner, mutex, found, window, calls, seen, result,
                 witness>>

\* Mutant: the result of CreateMutex is not looked at.
IgnoreMutex(p) ==
  /\ At(p, "check")
  /\ Goto(p, "create")
  /\ UNCHANGED <<setting, owner, mutex, lastError, found, window, calls, seen,
                 result, witness>>

CheckError(p) ==
  /\ At(p, "check")
  /\ Goto(p, IF lastError[p] THEN "forward" ELSE "create")
  /\ UNCHANGED <<setting, owner, mutex, lastError, found, window, calls, seen,
                 result, witness>>

\* SendAppLinkToInstance looks the window up, ...
FindInstance(p) ==
  /\ pc[p] \in {"forward", "create"}
  /\ \E q \in HasWindow : found' = [found EXCEPT ![p] = q]
  /\ Goto(p, "dispatch")
  /\ UNCHANGED <<setting, owner, mutex, lastError, window, calls, seen, result,
                 witness>>

\* ... hands it the link of this launch and shows it.  Either caller returns,
\* wWinMain with FALSE and Create with a failure, though the link was sent.
Dispatch(p) ==
  LET q == found[p]
      there == windows[q] > 0
  IN /\ At(p, "dispatch")
     /\ seen' = [seen EXCEPT ![q] = IF there THEN @ \cup {p} ELSE @]
     /\ Goto(p, "exited")
     /\ result' = [result EXCEPT ![p] = IF there THEN "handed" ELSE "lost"]
     /\ mutex' = mutex \ {p}
     /\ visible' = [visible EXCEPT ![q] = there]
     /\ Witnessed({p})
     /\ UNCHANGED <<setting, owner, lastError, found, windows, views, class,
                    quitOnClose, quit, calls>>

\* The mutex was there and no window is: the launch ends, the link is dropped.
GiveUp(p) == /\ At(p, "forward")
             /\ HasWindow = {}
             /\ Leave(p, "lost")
             /\ UNCHANGED seen

\* Create finds no window of the program and goes on to make one.
Create(p) ==
  /\ At(p, "create")
  /\ HasWindow = {}
  /\ Goto(p, "window")
  /\ UNCHANGED <<setting, owner, mutex, lastError, found, window, calls, seen,
                 result, witness>>

GetWindowClass(p) == class' = [class EXCEPT ![p] = TRUE]

\* WM_NCCREATE, the first message of a window, ties it to its object.
NcCreate(p) == windows' = [windows EXCEPT ![p] = 1]

\* CreateWindow gives a window, which nobody shows yet, or fails.
CreateWindow(p) ==
  /\ At(p, "window")
  /\ GetWindowClass(p)
  /\ \/ /\ NcCreate(p)
        /\ Goto(p, "view")
     \/ /\ UNCHANGED windows
        /\ Goto(p, "unwind")
  /\ UNCHANGED <<setting, owner, mutex, lastError, found, views, visible,
                 quitOnClose, quit, calls, seen, result, witness>>

\* Mutant: the window does not quit the program when it is closed.
NoQuitOnClose(p) == UNCHANGED quitOnClose

SetQuitOnClose(p) == quitOnClose' = [quitOnClose EXCEPT ![p] = TRUE]

\* GetCommandLineArguments gives the engine the link of the launch, or an
\* empty string in its place if that is not valid UTF-16.
Arguments(p) == {{p}, {}}

\* FlutterWindow::OnCreate: an engine or a view that is missing fails Create
\* with the controller in place.
OnCreate(p) ==
  /\ At(p, "view")
  /\ views' = [views EXCEPT ![p] = 1]
  /\ \/ /\ Goto(p, "loop")
        /\ SetQuitOnClose(p)
     \/ /\ Goto(p, "unwind")
        /\ UNCHANGED quitOnClose
  /\ \E given \in Arguments(p) : seen' = [seen EXCEPT ![p] = @ \cup given]
  /\ UNCHANGED <<setting, owner, mutex, lastError, found, windows, visible,
                 class, quit, calls, result, witness>>

-----------------------------------------------------------------------------
(* Windows: the message loop and the end of wWinMain.                      *)

OnDestroy(p) == views' = [views EXCEPT ![p] = 0]

\* DestroyWindow and the WM_DESTROY in it: the handle is cleared, Destroy
\* drops the controller and leaves the class, as the object still counts.
DestroyWindow(p) ==
  /\ platform = "windows" /\ At(p, "loop")
  /\ windows[p] > 0
  /\ windows' = [windows EXCEPT ![p] = 0]
  /\ OnDestroy(p)
  /\ visible' = [visible EXCEPT ![p] = FALSE]
  /\ quit' = [quit EXCEPT ![p] = @ \/ quitOnClose[p]]
  /\ Witnessed({p})
  /\ UNCHANGED <<setting, pc, owner, mutex, lastError, found, class,
                 quitOnClose, calls, seen, result>>

\* HandleTopLevelWindowProc lets window_manager answer first: it shows and
\* hides the window, keeps it from closing, and its destroy may post WM_QUIT.
PluginShow(p) ==
  /\ Reachable(p)
  /\ visible' = [visible EXCEPT ![p] = ~@]
  /\ UNCHANGED <<setting, pc, owner, mutex, lastError, found, windows, views,
                 class, quitOnClose, quit, calls, seen, result, witness>>

PluginQuit(p) ==
  /\ platform = "windows"
  /\ Reachable(p) /\ ~quit[p]
  /\ quit' = [quit EXCEPT ![p] = TRUE]
  /\ UNCHANGED <<setting, pc, owner, mutex, lastError, found, windows, views,
                 visible, class, quitOnClose, calls, seen, result, witness>>

\* GetMessage returns WM_QUIT.
EndLoop(p) ==
  /\ At(p, "loop") /\ quit[p]
  /\ Goto(p, "unwind")
  /\ Witnessed({p})
  /\ UNCHANGED <<setting, owner, mutex, lastError, found, window, calls, seen,
                 result>>

\* The destructors: the controller goes first, then the window if it is still
\* there, then the class, as no object counts any more.
Unwind(p) ==
  /\ platform = "windows" /\ At(p, "unwind")
  /\ Leave(p, IF quitOnClose[p] THEN "ended" ELSE "failed")
  /\ UNCHANGED seen

-----------------------------------------------------------------------------
(* Linux: MyApplication.                                                   *)

\* my_application_local_command_line copies the arguments, then registers.
CommandLine(p) ==
  /\ platform = "linux"
  /\ Launch(p, "register")
  /\ UNCHANGED <<setting, owner, mutex, lastError, found, window, calls, seen,
                 result>>

RegisterFails(p) == /\ At(p, "register")
                    /\ Leave(p, "failed")
                    /\ UNCHANGED seen

\* The first to register owns the name, the others are remote.
Register(p) ==
  /\ At(p, "register")
  /\ IF owner = None THEN owner' = p /\ Goto(p, "activate")
                     ELSE UNCHANGED owner /\ Goto(p, "remote")
  /\ UNCHANGED <<setting, mutex, lastError, found, window, calls, seen, result,
                 witness>>

\* my_application_activate: a new window with an engine of its own, started
\* with the arguments of this process, whoever has asked.
Open(p) == /\ windows' = [windows EXCEPT ![p] = @ + 1]
           /\ views' = [views EXCEPT ![p] = @ + 1]
           /\ visible' = [visible EXCEPT ![p] = TRUE]
           /\ seen' = [seen EXCEPT ![p] = @ \cup {p}]
           /\ UNCHANGED <<class, quitOnClose, quit>>

Activate(p) ==
  /\ At(p, "activate")
  /\ Open(p)
  /\ Goto(p, "loop")
  /\ UNCHANGED <<setting, owner, mutex, lastError, found, calls, result,
                 witness>>

\* A remote instance asks the owner of the name to activate, and exits.
ActivateRemote(p) ==
  /\ At(p, "remote")
  /\ calls' = [q \in Procs |-> IF q = owner THEN calls[q] + 1 ELSE calls[q]]
  /\ result' = [result EXCEPT ![p] = IF owner = None THEN "lost" ELSE "handed"]
  /\ Goto(p, "exited")
  /\ Witnessed({p})
  /\ UNCHANGED <<setting, owner, mutex, lastError, found, window, seen>>

TakeCall(p) == calls' = [calls EXCEPT ![p] = @ - 1]

Answer(p) ==
  /\ At(p, "loop") /\ calls[p] > 0
  /\ TakeCall(p)
  /\ Open(p)
  /\ UNCHANGED <<setting, pc, owner, mutex, lastError, found, result, witness>>

CloseWindow(p) ==
  /\ platform = "linux" /\ Reachable(p)
  /\ windows' = [windows EXCEPT ![p] = @ - 1]
  /\ views' = [views EXCEPT ![p] = @ - 1]
  /\ visible' = [visible EXCEPT ![p] = @ /\ windows[p] > 1]
  /\ Witnessed(IF windows[p] = 1 THEN {p} ELSE {})
  /\ UNCHANGED <<setting, pc, owner, mutex, lastError, found, class,
                 quitOnClose, quit, calls, seen, result>>

\* g_application_run returns when the last window is gone.
Shutdown(p) == /\ platform = "linux" /\ At(p, "loop")
               /\ windows[p] = 0
               /\ Leave(p, "ended")
               /\ UNCHANGED seen

-----------------------------------------------------------------------------
\* A process is killed, or crashes.
Killed(p) == /\ pc[p] \notin {"off", "exited"}
             /\ Leave(p, "failed")
             /\ UNCHANGED seen

\* What goes on by itself once a process has been launched.
Proceed(p) == \/ FindWindow(p) \/ CheckError(p) \/ FindInstance(p)
              \/ Dispatch(p) \/ GiveUp(p) \/ Create(p) \/ CreateWindow(p)
              \/ OnCreate(p) \/ EndLoop(p) \/ Unwind(p)
              \/ RegisterFails(p) \/ Register(p) \/ Activate(p)
              \/ ActivateRemote(p) \/ Answer(p) \/ Shutdown(p)

Next == \E p \in Procs : \/ CreateMutex(p) \/ CommandLine(p) \/ Proceed(p)
                         \/ DestroyWindow(p) \/ PluginShow(p) \/ PluginQuit(p)
                         \/ CloseWindow(p) \/ Killed(p)

Fairness == \A p \in Procs : WF_vars(Proceed(p))

Spec == Init /\ [][Next]_vars /\ Fairness

-----------------------------------------------------------------------------
(* Properties                                                              *)

\* However launches race and die, two processes never have a window of the
\* program at once: "Fixed multiple instance launch on windows"
\* (CHANGELOG.md).  On Windows it takes a FindWindow that leaves the last
\* error alone, as it comes between CreateMutex and GetLastError.
SingleInstance ==
  errorKept => \A p, q \in Procs : windows[p] > 0 /\ windows[q] > 0 => p = q

\* A Flutter engine lives inside a window: a message that comes after
\* WM_DESTROY finds no controller, and none is left when the windows are gone.
\* A window on Windows has its class, which is left to the last window object.
EngineInWindow ==
  \A p \in Procs : /\ views[p] > 0 => windows[p] > 0
                   /\ platform = "windows" /\ windows[p] > 0 => class[p]

\* A launch reaches the program that has been running all the time: it is
\* lost only when that program was still coming up or already going down.
\* With two instances it may find the one that dies.
RelaunchReaches ==
  errorKept => \A p \in Procs : result[p] = "lost" => witness[p] = {}

\* Every launch ends in its message loop or exits, and a process whose last
\* window has gone does exit: none is left running without a window.
Settled(p) == pc[p] \in {"off", "exited"} \/ Reachable(p)
LaunchSettles == \A p \in Procs : ~Settled(p) ~> Settled(p)
==============================================================================
