----------------------------- MODULE TunHandler -----------------------------
(***************************************************************************)
(* The TUN bridge of the Go core on Android (clashcore/lib_android.go).    *)
(*                                                                         *)
(* startTUN and stopTun each run on a goroutine of their own and meet at   *)
(* tunLock; the dialer and the process finder of the core call the hooks   *)
(* (handleProtect, handleResolveProcess) from any number of connection     *)
(* goroutines, which never take tunLock: between a hook and close() stands *)
(* only the weighted semaphore of the handler.                             *)
(*                                                                         *)
(* A start call, the handler it builds, its Java callback and its listener *)
(* have one identity, the element of Starters.                             *)
(***************************************************************************)
EXTENDS Naturals, FiniteSets

CONSTANTS Starters,   \* the calls of startTUN
          Stoppers,   \* the calls of stopTun
          Users,      \* the connection goroutines that run the hooks
          Readers,    \* the calls of getRunTime
          Permits,    \* the weight of the semaphore: 4 in the code
          None

Calls == Starters \cup Stoppers
Threads == Calls \cup Users \cup Readers

ASSUME ThreadsAssumption ==
         /\ Starters \cap Stoppers = {} /\ Calls \cap Users = {}
         /\ Readers \cap (Calls \cup Users) = {}
         /\ None \notin Threads
ASSUME PermitsAssumption == Permits \in Nat \ {0}

VARIABLES tunLock,     \* the call that holds the mutex, or None
          runTime,     \* is the start time non-nil?
          tunHandler,  \* the global handler pointer, or None
          callback,    \* callback[h]: is the field non-nil?
          listener,    \* listener[h]: is the field non-nil?
          limit,       \* limit[h]: who holds permits of the semaphore
          ahead,       \* the hooks queued there before a waiting close()
          hook,        \* are DefaultSocketHook and the resolver installed?
          devices,     \* the handlers whose sing_tun listener is open
          released,    \* released[h]: how often releaseObject(callback) ran
          configured,  \* is currentConfig non-nil?
          panicked,    \* has a goroutine panicked (the process is gone)?
          pc,          \* where each thread is
          mine,        \* mine[u]: the handler a hook has read
          overlapped   \* has a startTUN met another in flight (history)?

fields == <<callback, listener, limit, ahead, released>>
globals == <<runTime, tunHandler, hook, devices, configured, panicked,
             overlapped>>
vars == <<tunLock, globals, fields, pc, mine>>

CloseSteps == {"acquire", "unhook", "closeListener", "release", "clear"}
BuildSteps == {"install", "open", "publish", "failed"}
Locked == CloseSteps \cup BuildSteps \cup {"stopUnlock", "build", "startUnlock"}
CallSteps == Locked \cup {"idle", "startLock", "done"}
UserSteps == {"idle", "hooked", "acquire", "check", "calling", "leave"}
ReaderSteps == {"idle", "deref", "done"}

TypeOK == /\ tunLock \in Calls \cup {None}
          /\ runTime \in BOOLEAN
          /\ tunHandler \in Starters \cup {None}
          /\ callback \in [Starters -> BOOLEAN]
          /\ listener \in [Starters -> BOOLEAN]
          /\ limit \in [Starters -> SUBSET (Calls \cup Users)]
          /\ ahead \in SUBSET Users
          /\ hook \in BOOLEAN
          /\ devices \in SUBSET Starters
          /\ released \in [Starters -> Nat]
          /\ configured \in BOOLEAN
          /\ panicked \in BOOLEAN
          /\ pc \in [Threads -> CallSteps \cup UserSteps \cup ReaderSteps]
          /\ mine \in [Users -> Starters \cup {None}]
          /\ overlapped \in BOOLEAN

Init == /\ tunLock = None
        /\ runTime = FALSE
        /\ tunHandler = None
        /\ callback = [h \in Starters |-> FALSE]
        /\ listener = [h \in Starters |-> FALSE]
        /\ limit = [h \in Starters |-> {}]
        /\ ahead = {}
        /\ hook = FALSE
        /\ devices = {}
        /\ released = [h \in Starters |-> 0]
        /\ configured = FALSE
        /\ panicked = FALSE
        /\ pc = [t \in Threads |-> "idle"]
        /\ mine = [u \in Users |-> None]
        /\ overlapped = FALSE

Goto(t, from, to) == pc[t] = from /\ pc' = [pc EXCEPT ![t] = to]

-----------------------------------------------------------------------------
(* The semaphore (golang.org/x/sync/semaphore): close() asks for every     *)
(* permit, a hook for one, and waiters are served first come first served: *)
(* a hook that comes while close() waits gets nothing before it, one that  *)
(* was at Acquire already may.                                             *)

CloseWaits(h) == /\ tunLock # None /\ pc[tunLock] = "acquire"
                 /\ h = tunHandler

Enqueue == ahead' = {u \in Users : pc[u] = "acquire" /\ mine[u] = tunHandler}

\* Mutant: close() asks for a single permit.
AcquireOneInClose(c, h) == /\ Cardinality(limit[h]) < Permits
                           /\ limit' = [limit EXCEPT ![h] = @ \cup {c}]
                           /\ ahead' = {}

AcquireAll(c, h) == /\ limit[h] = {}
                    /\ limit' = [limit EXCEPT ![h] = {c}]
                    /\ ahead' = {}

AcquireOne(u, h) == /\ limit[h] \cap Calls = {}
                    /\ Cardinality(limit[h]) < Permits
                    /\ CloseWaits(h) => u \in ahead
                    /\ limit' = [limit EXCEPT ![h] = @ \cup {u}]
                    /\ ahead' = ahead \ {u}

Release(t, h) == limit' = [limit EXCEPT ![h] = @ \ {t}]

-----------------------------------------------------------------------------
(* handleStopTun, which handleStartTun also calls first.                   *)

InFlight(s) == pc[s] \notin {"idle", "done"}

\* tunLock.Lock, runTime = nil, and into close() when there is a handler.
\* The spawned goroutine takes the lock at any time, so a start may meet
\* another one that is in flight.
StopTun(c) == /\ tunLock = None
              /\ Goto(c, "idle", IF tunHandler = None THEN "stopUnlock"
                                                       ELSE "acquire")
              /\ tunLock' = c
              /\ runTime' = FALSE
              /\ Enqueue
              /\ overlapped' = \/ overlapped
                               \/ /\ c \in Starters
                                  /\ \E s \in Starters : InFlight(s)
              /\ UNCHANGED <<tunHandler, hook, devices, configured, panicked,
                             callback, listener, limit, released, mine>>

\* close(): all permits, so every hook inside the handler has left.
CloseAcquire(c) == /\ Goto(c, "acquire", "unhook")
                   /\ c \in Calls
                   /\ AcquireAll(c, tunHandler)
                   /\ UNCHANGED <<tunLock, globals, callback, listener,
                                  released, mine>>

CloseUnhook(c) == /\ Goto(c, "unhook", "closeListener")
                  /\ hook' = FALSE
                  /\ UNCHANGED <<tunLock, runTime, tunHandler, devices,
                                 configured, panicked, overlapped, fields,
                                 mine>>

\* Mutant: the listener is not closed.
SkipCloseListener(c) == /\ Goto(c, "closeListener", "release")
                        /\ UNCHANGED <<tunLock, globals, fields, mine>>

CloseListener(c) == /\ Goto(c, "closeListener", "release")
                    /\ devices' = IF listener[tunHandler]
                                  THEN devices \ {tunHandler} ELSE devices
                    /\ UNCHANGED <<tunLock, runTime, tunHandler, hook,
                                   configured, panicked, overlapped, fields,
                                   mine>>

CloseRelease(c) == /\ Goto(c, "release", "clear")
                   /\ released' = [released EXCEPT ![tunHandler] =
                                     IF callback[tunHandler] THEN @ + 1 ELSE @]
                   /\ UNCHANGED <<tunLock, globals, callback, listener, limit,
                                  ahead, mine>>

\* Both fields become nil; the deferred Release gives the permits back.
CloseClear(c) == /\ Goto(c, "clear", "stopUnlock")
                 /\ callback' = [callback EXCEPT ![tunHandler] = FALSE]
                 /\ listener' = [listener EXCEPT ![tunHandler] = FALSE]
                 /\ Release(c, tunHandler)
                 /\ UNCHANGED <<tunLock, globals, released, ahead, mine>>

\* Mutant: handleStartTun goes on with tunLock still held.
ReturnLocked(c) == /\ Goto(c, "stopUnlock",
                           IF c \in Starters THEN "startLock" ELSE "done")
                   /\ UNCHANGED <<tunLock, globals, fields, mine>>

\* tunHandler keeps pointing at the closed handler.
StopUnlock(c) == /\ Goto(c, "stopUnlock",
                         IF c \in Starters THEN "startLock" ELSE "done")
                 /\ tunLock' = None
                 /\ UNCHANGED <<globals, fields, mine>>

-----------------------------------------------------------------------------
(* The rest of handleStartTun, after it has taken tunLock a second time.   *)

\* fd = 0 asks for no device: only runTime is set, and the callback passed
\* in is neither kept nor released.
StartLock(s) == /\ tunLock = None
                /\ \E fdIsZero \in BOOLEAN :
                     Goto(s, "startLock",
                          IF fdIsZero THEN "startUnlock" ELSE "build")
                /\ tunLock' = s
                /\ runTime' = TRUE
                /\ UNCHANGED <<tunHandler, hook, devices, configured,
                               panicked, overlapped, fields,
                               mine>>

BuildHandler(s) == /\ Goto(s, "build", "install")
                   /\ tunHandler' = s
                   /\ callback' = [callback EXCEPT ![s] = TRUE]
                   /\ UNCHANGED <<tunLock, runTime, hook, devices, configured,
                                  panicked, overlapped, listener, limit,
                                  ahead, released, mine>>

InitTunHook(s) == /\ Goto(s, "install", "open")
                  /\ hook' = TRUE
                  /\ UNCHANGED <<tunLock, runTime, tunHandler, devices,
                                 configured, panicked, overlapped, fields,
                                 mine>>

\* t.Start opens the device or fails; without a configuration the argument
\* currentConfig.General is a nil dereference.
TunStart(s) == /\ \/ /\ configured
                     /\ Goto(s, "open", "publish")
                     /\ devices' = devices \cup {s}
                     /\ UNCHANGED panicked
                  \/ /\ configured
                     /\ Goto(s, "open", "failed")
                     /\ UNCHANGED <<devices, panicked>>
                  \/ /\ ~configured
                     /\ pc[s] = "open"
                     /\ panicked' = TRUE
                     /\ UNCHANGED <<pc, devices>>
               /\ UNCHANGED <<tunLock, runTime, tunHandler, hook, configured,
                              overlapped, fields, mine>>

Publish(s) == /\ Goto(s, "publish", "startUnlock")
              /\ listener' = [listener EXCEPT ![tunHandler] = TRUE]
              /\ UNCHANGED <<tunLock, globals, callback, limit, ahead, released,
                             mine>>

\* Mutant: the hooks stay installed after a failed start.
KeepHook(s) == /\ Goto(s, "failed", "startUnlock")
               /\ UNCHANGED <<tunLock, globals, fields, mine>>

StartFailed(s) == /\ Goto(s, "failed", "startUnlock")
                  /\ hook' = FALSE
                  /\ UNCHANGED <<tunLock, runTime, tunHandler, devices,
                                 configured, panicked, overlapped, fields,
                                 mine>>

StartUnlock(s) == /\ Goto(s, "startUnlock", "done")
                  /\ tunLock' = None
                  /\ UNCHANGED <<globals, fields, mine>>

-----------------------------------------------------------------------------
(* The hooks, run by a connection goroutine over and over.                 *)

\* The dialer found a hook; the closure may still answer errBlocked.
EnterHook(u) == /\ hook
                /\ Goto(u, "idle", "hooked")
                /\ UNCHANGED <<tunLock, globals, fields, mine>>

Blocked(u) == /\ u \in Users
              /\ Goto(u, "hooked", "idle")
              /\ UNCHANGED <<tunLock, globals, fields, mine>>

\* The closure reads the global tunHandler when it runs, not when it was
\* installed.
ReadHandler(u) == /\ Goto(u, "hooked", "acquire")
                  /\ mine' = [mine EXCEPT ![u] = tunHandler]
                  /\ UNCHANGED <<tunLock, globals, fields>>

HookAcquire(u) == /\ u \in Users
                  /\ Goto(u, "acquire", "check")
                  /\ AcquireOne(u, mine[u])
                  /\ UNCHANGED <<tunLock, globals, callback, listener,
                                 released, mine>>

\* Mutant: the nil check of the listener is missing.
CallAnyway(u) == /\ Goto(u, "check", "calling")
                 /\ UNCHANGED <<tunLock, globals, fields, mine>>

\* A nil listener makes the hook return without touching the callback.
CheckListener(u) == /\ Goto(u, "check",
                            IF listener[mine[u]] THEN "calling" ELSE "leave")
                    /\ UNCHANGED <<tunLock, globals, fields, mine>>

\* Protect or ResolveProcess returns from Java.
CallReturns(u) == /\ Goto(u, "calling", "leave")
                  /\ UNCHANGED <<tunLock, globals, fields, mine>>

LeaveHook(u) == /\ Goto(u, "leave", "idle")
                /\ Release(u, mine[u])
                /\ mine' = [mine EXCEPT ![u] = None]
                /\ UNCHANGED <<tunLock, globals, callback, listener, ahead,
                               released>>

-----------------------------------------------------------------------------
(* handleGetRunTime reads runTime twice and takes no lock.                 *)

CheckRunTime(r) == /\ Goto(r, "idle", IF runTime THEN "deref" ELSE "done")
                   /\ UNCHANGED <<tunLock, globals, fields, mine>>

\* The second read: nil by now is a nil dereference.
DerefRunTime(r) == /\ IF runTime
                      THEN Goto(r, "deref", "done") /\ UNCHANGED panicked
                      ELSE /\ pc[r] = "deref"
                           /\ panicked' = TRUE
                           /\ UNCHANGED pc
                   /\ UNCHANGED <<tunLock, runTime, tunHandler, hook, devices,
                                  configured, overlapped, fields, mine>>

\* setupConfig runs under runLock, which nothing here takes: it gives the core
\* a configuration, and one that does not parse leaves currentConfig nil until
\* the default has been parsed in its place.
SetupConfig == /\ configured' = ~configured
               /\ UNCHANGED <<tunLock, runTime, tunHandler, hook, devices,
                              panicked, overlapped, fields, pc, mine>>

-----------------------------------------------------------------------------
Close(c) == \/ CloseAcquire(c) \/ CloseUnhook(c) \/ CloseListener(c)
            \/ CloseRelease(c) \/ CloseClear(c)
Stop(c) == StopTun(c) \/ Close(c) \/ StopUnlock(c)
Start(s) == \/ StartLock(s) \/ BuildHandler(s) \/ InitTunHook(s)
            \/ TunStart(s) \/ Publish(s) \/ StartFailed(s) \/ StartUnlock(s)
Hook(u) == \/ EnterHook(u) \/ Blocked(u) \/ ReadHandler(u) \/ HookAcquire(u)
           \/ CheckListener(u) \/ CallReturns(u) \/ LeaveHook(u)
GetRunTime(r) == CheckRunTime(r) \/ DerefRunTime(r)

Next == /\ ~panicked
        /\ \/ \E c \in Calls : Stop(c)
           \/ \E s \in Starters : Start(s)
           \/ \E u \in Users : Hook(u)
           \/ \E r \in Readers : GetRunTime(r)
           \/ SetupConfig

Spec == Init /\ [][Next]_vars

\* Every goroutine is scheduled and Java callbacks return.
Fairness == /\ \A c \in Calls : WF_vars(~panicked /\ Stop(c))
            /\ \A s \in Starters : WF_vars(~panicked /\ Start(s))
            /\ \A u \in Users : WF_vars(~panicked /\ Hook(u))

FairSpec == Spec /\ Fairness

-----------------------------------------------------------------------------
(* Properties                                                              *)

\* A hook never calls into a Java callback that releaseObject has already
\* given back, whatever starts and stops run meanwhile.
NoUseAfterRelease ==
  \A u \in Users : pc[u] = "calling" => released[mine[u]] = 0

\* A callback is given back at most once, though the closed handler stays in
\* tunHandler and later stops close it again.
ReleasedOnce == \A h \in Starters : released[h] <= 1

\* While close() owns a handler, no hook is between its Acquire and Release.
CloseExcludesHooks ==
  \A c \in Calls, u \in Users :
    pc[c] \in CloseSteps \ {"acquire"} /\
    pc[u] \in {"check", "calling", "leave"} => mine[u] # tunHandler

\* With no start or stop under way, the hooks are installed exactly when the
\* current handler has a listener: neither dead hooks after a failed start
\* nor an unprotected running device.
HookIffListening ==
  tunLock = None => (hook <=> tunHandler # None /\ listener[tunHandler])

\* Starts that do not overlap leave no TUN device behind: an open device is
\* the current handler's, and a callback that is not has been released.
NothingLeaked ==
  ~overlapped => /\ devices \subseteq {tunHandler}
                 /\ \A h \in Starters : callback[h] => h = tunHandler

\* Every start and stop gets through: close() waits for the hooks inside, and
\* they never wait for a start or a stop.
CallsComplete == \A c \in Calls : <>(pc[c] = "done" \/ panicked)

\* The bridge is a lease of callbacks (CallbackLease): hooks borrow them,
\* close() revokes them when no hook is borrowing.
Lease == INSTANCE CallbackLease WITH
           Leases <- Starters,
           Borrowers <- Users,
           phase <- [h \in Starters |-> IF released[h] > 0 THEN "revoked"
                                        ELSE IF callback[h] THEN "granted"
                                        ELSE "free"],
           borrowed <- [u \in Users |-> IF pc[u] = "calling" THEN {mine[u]}
                                                              ELSE {}]
LeaseSpec == Lease!Spec
==============================================================================
