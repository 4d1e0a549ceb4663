-------------------------- MODULE TunHandlerProofs --------------------------
(***************************************************************************)
(* TunHandler proved for every number of calls, hooks and permits: the     *)
(* mutex and the semaphore keep a released callback out of every hook, and *)
(* nobody is left waiting for somebody who waits.                          *)
(***************************************************************************)
EXTENDS TunHandler, FiniteSetTheorems, TLAPS

Inside == {"check", "calling", "leave"}      \* a hook that holds a permit
Closing == CloseSteps \ {"acquire"}          \* a close() that holds them all
Unbuilt == CloseSteps \cup {"idle", "stopUnlock", "startLock", "build"}

\* Where each kind of thread can be.
Places ==
  /\ \A s \in Starters : pc[s] \in CallSteps
  /\ \A p \in Stoppers : pc[p] \in CloseSteps \cup {"idle", "stopUnlock", "done"}
  /\ \A u \in Users : pc[u] \in UserSteps
  /\ \A r \in Readers : pc[r] \in ReaderSteps

\* The mutex: exactly the call inside its critical section owns tunLock.
Mutex == \A c \in Calls : pc[c] \in Locked <=> tunLock = c

\* The semaphore: the holders of permits are the threads between Acquire and
\* Release, and a close() is alone in its handler.
Semaphore ==
  /\ \A c \in Calls, h \in Starters :
       c \in limit[h] <=> pc[c] \in Closing /\ tunHandler = h
  /\ \A u \in Users, h \in Starters :
       u \in limit[h] <=> pc[u] \in Inside /\ mine[u] = h
  /\ \A c \in Calls, h \in Starters : c \in limit[h] => limit[h] = {c}

\* A handler is there when a hook or a close() uses one.
Handlers ==
  /\ \A c \in Calls : pc[c] \in CloseSteps => tunHandler # None
  /\ hook => tunHandler # None
  /\ \A u \in Users : pc[u] = "hooked" => tunHandler # None
  /\ \A u \in Users : pc[u] \in Inside \cup {"acquire"} => mine[u] # None

\* The life of a callback: kept when the handler is built, released by the
\* close() that then clears the field.
Lifetime ==
  /\ \A s \in Starters : pc[s] \in Unbuilt =>
       /\ ~callback[s] /\ ~listener[s] /\ released[s] = 0 /\ tunHandler # s
  /\ \A s \in Starters : pc[s] \in BuildSteps =>
       callback[s] /\ tunHandler = s /\ ~listener[s]
  /\ \A h \in Starters : listener[h] => callback[h]
  /\ \A h \in Starters : released[h] <= 1
  /\ \A h \in Starters : callback[h] /\ released[h] # 0 =>
       \E c \in Calls : pc[c] = "clear" /\ tunHandler = h
  /\ tunHandler # None => callback[tunHandler] \/ released[tunHandler] = 1
  /\ \A c \in Calls : pc[c] = "clear" => released[tunHandler] = 1
  /\ \A u \in Users : pc[u] = "calling" => callback[mine[u]]

\* The hooks follow the listener, except where a call is changing both.
Hooks ==
  /\ \/ tunLock # None /\ pc[tunLock] \in BuildSteps \cup
                            {"closeListener", "release", "clear"}
     \/ hook <=> tunHandler # None /\ listener[tunHandler]
  /\ \A c \in Calls : pc[c] \in {"closeListener", "release", "clear"} => ~hook
  /\ \A s \in Starters : pc[s] \in {"open", "publish"} => hook

IInv == TypeOK /\ Places /\ Mutex /\ Semaphore /\ Handlers /\ Lifetime /\ Hooks

-----------------------------------------------------------------------------
(* Each action preserves the invariant.                                    *)

USE ThreadsAssumption, PermitsAssumption
    DEF IInv, TypeOK, vars, globals, fields, Calls, Threads, CloseSteps,
        BuildSteps, Locked, CallSteps, UserSteps, ReaderSteps, Inside, Closing,
        Unbuilt

\* handleStopTun takes tunLock.
LEMMA StopTunInv == ASSUME NEW c \in Calls, IInv, StopTun(c) PROVE IInv'
  <1> USE DEF StopTun, Goto, InFlight, Enqueue
  <1>1. TypeOK'
    BY DEF Places, Handlers
  <1>2. Places'
    BY DEF Places
  <1>3. Mutex'
    BY DEF Places, Mutex
  <1>4. Semaphore'
    BY DEF Places, Mutex, Semaphore, Handlers
  <1>5. Handlers'
    BY DEF Places, Mutex, Handlers
  <1>6. Lifetime'
    BY DEF Places, Mutex, Semaphore, Handlers, Lifetime
  <1>7. Hooks'
    BY DEF Places, Mutex, Handlers, Lifetime, Hooks
  <1>. QED  BY <1>1, <1>2, <1>3, <1>4, <1>5, <1>6, <1>7

\* close() gets every permit.
LEMMA CloseAcquireInv == ASSUME NEW c \in Calls, IInv, CloseAcquire(c) PROVE IInv'
  <1> USE DEF CloseAcquire, Goto, AcquireAll
  <1>1. TypeOK'
    BY DEF Places, Handlers
  <1>2. Places'
    BY DEF Places
  <1>3. Mutex'
    BY DEF Places, Mutex
  <1>4. Semaphore'
    BY DEF Places, Mutex, Semaphore, Handlers
  <1>5. Handlers'
    BY DEF Places, Mutex, Handlers
  <1>6. Lifetime'
    BY DEF Places, Mutex, Semaphore, Handlers, Lifetime
  <1>7. Hooks'
    BY DEF Places, Mutex, Handlers, Lifetime, Hooks
  <1>. QED  BY <1>1, <1>2, <1>3, <1>4, <1>5, <1>6, <1>7

\* close() removes the hooks.
LEMMA CloseUnhookInv == ASSUME NEW c \in Calls, IInv, CloseUnhook(c) PROVE IInv'
  <1> USE DEF CloseUnhook, Goto
  <1>1. TypeOK'
    BY DEF Places, Handlers
  <1>2. Places'
    BY DEF Places
  <1>3. Mutex'
    BY DEF Places, Mutex
  <1>4. Semaphore'
    BY DEF Places, Mutex, Semaphore, Handlers
  <1>5. Handlers'
    BY DEF Places, Mutex, Handlers
  <1>6. Lifetime'
    BY DEF Places, Mutex, Semaphore, Handlers, Lifetime
  <1>7. Hooks'
    BY DEF Places, Mutex, Handlers, Lifetime, Hooks
  <1>. QED  BY <1>1, <1>2, <1>3, <1>4, <1>5, <1>6, <1>7

\* close() closes the listener.
LEMMA CloseListenerInv == ASSUME NEW c \in Calls, IInv, CloseListener(c) PROVE IInv'
  <1> USE DEF CloseListener, Goto
  <1>1. TypeOK'
    BY DEF Places, Handlers
  <1>2. Places'
    BY DEF Places
  <1>3. Mutex'
    BY DEF Places, Mutex
  <1>4. Semaphore'
    BY DEF Places, Mutex, Semaphore, Handlers
  <1>5. Handlers'
    BY DEF Places, Mutex, Handlers
  <1>6. Lifetime'
    BY DEF Places, Mutex, Semaphore, Handlers, Lifetime
  <1>7. Hooks'
    BY DEF Places, Mutex, Handlers, Lifetime, Hooks
  <1>. QED  BY <1>1, <1>2, <1>3, <1>4, <1>5, <1>6, <1>7

\* close() releases the callback.
LEMMA CloseReleaseInv == ASSUME NEW c \in Calls, IInv, CloseRelease(c) PROVE IInv'
  <1> USE DEF CloseRelease, Goto
  <1>1. TypeOK'
    BY DEF Places, Handlers
  <1>2. Places'
    BY DEF Places
  <1>3. Mutex'
    BY DEF Places, Mutex
  <1>4. Semaphore'
    BY DEF Places, Mutex, Semaphore, Handlers
  <1>5. Handlers'
    BY DEF Places, Mutex, Handlers
  <1>6. Lifetime'
    BY DEF Places, Mutex, Semaphore, Handlers, Lifetime
  <1>7. Hooks'
    BY DEF Places, Mutex, Handlers, Lifetime, Hooks
  <1>. QED  BY <1>1, <1>2, <1>3, <1>4, <1>5, <1>6, <1>7

\* close() clears the fields and gives the permits back.
LEMMA CloseClearInv == ASSUME NEW c \in Calls, IInv, CloseClear(c) PROVE IInv'
  <1> USE DEF CloseClear, Goto, Release
  <1>1. TypeOK'
    BY DEF Places, Handlers
  <1>2. Places'
    BY DEF Places
  <1>3. Mutex'
    BY DEF Places, Mutex
  <1>4. Semaphore'
    BY DEF Places, Mutex, Semaphore, Handlers
  <1>5. Handlers'
    BY DEF Places, Mutex, Handlers
  <1>6. Lifetime'
    BY DEF Places, Mutex, Semaphore, Handlers, Lifetime
  <1>7. Hooks'
    BY DEF Places, Mutex, Handlers, Lifetime, Hooks
  <1>. QED  BY <1>1, <1>2, <1>3, <1>4, <1>5, <1>6, <1>7

\* handleStopTun returns.
LEMMA StopUnlockInv == ASSUME NEW c \in Calls, IInv, StopUnlock(c) PROVE IInv'
  <1> USE DEF StopUnlock, Goto
  <1>1. TypeOK'
    BY DEF Places, Handlers
  <1>2. Places'
    BY DEF Places
  <1>3. Mutex'
    BY DEF Places, Mutex
  <1>4. Semaphore'
    BY DEF Places, Mutex, Semaphore, Handlers
  <1>5. Handlers'
    BY DEF Places, Mutex, Handlers
  <1>6. Lifetime'
    BY DEF Places, Mutex, Semaphore, Handlers, Lifetime
  <1>7. Hooks'
    BY DEF Places, Mutex, Handlers, Lifetime, Hooks
  <1>. QED  BY <1>1, <1>2, <1>3, <1>4, <1>5, <1>6, <1>7

\* handleStartTun takes tunLock again.
LEMMA StartLockInv == ASSUME NEW s \in Starters, IInv, StartLock(s) PROVE IInv'
  <1> USE DEF StartLock, Goto
  <1>1. TypeOK'
    BY DEF Places, Handlers
  <1>2. Places'
    BY DEF Places
  <1>3. Mutex'
    BY DEF Places, Mutex
  <1>4. Semaphore'
    BY DEF Places, Mutex, Semaphore, Handlers
  <1>5. Handlers'
    BY DEF Places, Mutex, Handlers
  <1>6. Lifetime'
    BY DEF Places, Mutex, Semaphore, Handlers, Lifetime
  <1>7. Hooks'
    BY DEF Places, Mutex, Handlers, Lifetime, Hooks
  <1>. QED  BY <1>1, <1>2, <1>3, <1>4, <1>5, <1>6, <1>7

\* The new handler becomes the global one.
LEMMA BuildHandlerInv == ASSUME NEW s \in Starters, IInv, BuildHandler(s) PROVE IInv'
  <1> USE DEF BuildHandler, Goto
  <1>1. TypeOK'
    BY DEF Places, Handlers
  <1>2. Places'
    BY DEF Places
  <1>3. Mutex'
    BY DEF Places, Mutex
  <1>4. Semaphore'
    BY DEF Places, Mutex, Semaphore, Handlers
  <1>5. Handlers'
    BY DEF Places, Mutex, Handlers
  <1>6. Lifetime'
    BY DEF Places, Mutex, Semaphore, Handlers, Lifetime
  <1>7. Hooks'
    BY DEF Places, Mutex, Handlers, Lifetime, Hooks
  <1>. QED  BY <1>1, <1>2, <1>3, <1>4, <1>5, <1>6, <1>7

\* The hooks are installed.
LEMMA InitTunHookInv == ASSUME NEW s \in Starters, IInv, InitTunHook(s) PROVE IInv'
  <1> USE DEF InitTunHook, Goto
  <1>1. TypeOK'
    BY DEF Places, Handlers
  <1>2. Places'
    BY DEF Places
  <1>3. Mutex'
    BY DEF Places, Mutex
  <1>4. Semaphore'
    BY DEF Places, Mutex, Semaphore, Handlers
  <1>5. Handlers'
    BY DEF Places, Mutex, Handlers, Lifetime
  <1>6. Lifetime'
    BY DEF Places, Mutex, Semaphore, Handlers, Lifetime
  <1>7. Hooks'
    BY DEF Places, Mutex, Handlers, Lifetime, Hooks
  <1>. QED  BY <1>1, <1>2, <1>3, <1>4, <1>5, <1>6, <1>7

\* The device opens, fails to open, or the process panics.
LEMMA TunStartInv == ASSUME NEW s \in Starters, IInv, TunStart(s) PROVE IInv'
  <1> USE DEF TunStart, Goto
  <1>1. TypeOK'
    BY DEF Places, Handlers
  <1>2. Places'
    BY DEF Places
  <1>3. Mutex'
    BY DEF Places, Mutex
  <1>4. Semaphore'
    BY DEF Places, Mutex, Semaphore, Handlers
  <1>5. Handlers'
    BY DEF Places, Mutex, Handlers
  <1>6. Lifetime'
    BY DEF Places, Mutex, Semaphore, Handlers, Lifetime
  <1>7. Hooks'
    BY DEF Places, Mutex, Handlers, Lifetime, Hooks
  <1>. QED  BY <1>1, <1>2, <1>3, <1>4, <1>5, <1>6, <1>7

\* The handler gets its listener.
LEMMA PublishInv == ASSUME NEW s \in Starters, IInv, Publish(s) PROVE IInv'
  <1> USE DEF Publish, Goto
  <1>1. TypeOK'
    BY DEF Places, Handlers
  <1>2. Places'
    BY DEF Places
  <1>3. Mutex'
    BY DEF Places, Mutex
  <1>4. Semaphore'
    BY DEF Places, Mutex, Semaphore, Handlers
  <1>5. Handlers'
    BY DEF Places, Mutex, Handlers
  <1>6. Lifetime'
    BY DEF Places, Mutex, Semaphore, Handlers, Lifetime
  <1>7. Hooks'
    BY DEF Places, Mutex, Handlers, Lifetime, Hooks
  <1>. QED  BY <1>1, <1>2, <1>3, <1>4, <1>5, <1>6, <1>7

\* A failed start removes the hooks.
LEMMA StartFailedInv == ASSUME NEW s \in Starters, IInv, StartFailed(s) PROVE IInv'
  <1> USE DEF StartFailed, Goto
  <1>1. TypeOK'
    BY DEF Places, Handlers
  <1>2. Places'
    BY DEF Places
  <1>3. Mutex'
    BY DEF Places, Mutex
  <1>4. Semaphore'
    BY DEF Places, Mutex, Semaphore, Handlers
  <1>5. Handlers'
    BY DEF Places, Mutex, Handlers
  <1>6. Lifetime'
    BY DEF Places, Mutex, Semaphore, Handlers, Lifetime
  <1>7. Hooks'
    BY DEF Places, Mutex, Handlers, Lifetime, Hooks
  <1>. QED  BY <1>1, <1>2, <1>3, <1>4, <1>5, <1>6, <1>7

\* handleStartTun returns.
LEMMA StartUnlockInv == ASSUME NEW s \in Starters, IInv, StartUnlock(s) PROVE IInv'
  <1> USE DEF StartUnlock, Goto
  <1>1. TypeOK'
    BY DEF Places, Handlers
  <1>2. Places'
    BY DEF Places
  <1>3. Mutex'
    BY DEF Places, Mutex
  <1>4. Semaphore'
    BY DEF Places, Mutex, Semaphore, Handlers
  <1>5. Handlers'
    BY DEF Places, Mutex, Handlers
  <1>6. Lifetime'
    BY DEF Places, Mutex, Semaphore, Handlers, Lifetime
  <1>7. Hooks'
    BY DEF Places, Mutex, Handlers, Lifetime, Hooks
  <1>. QED  BY <1>1, <1>2, <1>3, <1>4, <1>5, <1>6, <1>7

\* The dialer calls a hook.
LEMMA EnterHookInv == ASSUME NEW u \in Users, IInv, EnterHook(u) PROVE IInv'
  <1> USE DEF EnterHook, Goto
  <1>1. TypeOK'
    BY DEF Places, Handlers
  <1>2. Places'
    BY DEF Places
  <1>3. Mutex'
    BY DEF Places, Mutex
  <1>4. Semaphore'
    BY DEF Places, Mutex, Semaphore, Handlers
  <1>5. Handlers'
    BY DEF Places, Mutex, Handlers
  <1>6. Lifetime'
    BY DEF Places, Mutex, Semaphore, Handlers, Lifetime
  <1>7. Hooks'
    BY DEF Places, Mutex, Handlers, Lifetime, Hooks
  <1>. QED  BY <1>1, <1>2, <1>3, <1>4, <1>5, <1>6, <1>7

\* A hook answers errBlocked.
LEMMA BlockedInv == ASSUME NEW u \in Users, IInv, Blocked(u) PROVE IInv'
  <1> USE DEF Blocked, Goto
  <1>1. TypeOK'
    BY DEF Places, Handlers
  <1>2. Places'
    BY DEF Places
  <1>3. Mutex'
    BY DEF Places, Mutex
  <1>4. Semaphore'
    BY DEF Places, Mutex, Semaphore, Handlers
  <1>5. Handlers'
    BY DEF Places, Mutex, Handlers
  <1>6. Lifetime'
    BY DEF Places, Mutex, Semaphore, Handlers, Lifetime
  <1>7. Hooks'
    BY DEF Places, Mutex, Handlers, Lifetime, Hooks
  <1>. QED  BY <1>1, <1>2, <1>3, <1>4, <1>5, <1>6, <1>7

\* A hook reads the global handler.
LEMMA ReadHandlerInv == ASSUME NEW u \in Users, IInv, ReadHandler(u) PROVE IInv'
  <1> USE DEF ReadHandler, Goto
  <1>1. TypeOK'
    BY DEF Places, Handlers
  <1>2. Places'
    BY DEF Places
  <1>3. Mutex'
    BY DEF Places, Mutex
  <1>4. Semaphore'
    BY DEF Places, Mutex, Semaphore, Handlers
  <1>5. Handlers'
    BY DEF Places, Mutex, Handlers
  <1>6. Lifetime'
    BY DEF Places, Mutex, Semaphore, Handlers, Lifetime
  <1>7. Hooks'
    BY DEF Places, Mutex, Handlers, Lifetime, Hooks
  <1>. QED  BY <1>1, <1>2, <1>3, <1>4, <1>5, <1>6, <1>7

\* A hook gets its permit.
LEMMA HookAcquireInv == ASSUME NEW u \in Users, IInv, HookAcquire(u) PROVE IInv'
  <1> USE DEF HookAcquire, Goto, AcquireOne, CloseWaits
  <1>1. TypeOK'
    BY DEF Places, Handlers
  <1>2. Places'
    BY DEF Places
  <1>3. Mutex'
    BY DEF Places, Mutex
  <1>4. Semaphore'
    BY DEF Places, Mutex, Semaphore, Handlers
  <1>5. Handlers'
    BY DEF Places, Mutex, Handlers
  <1>6. Lifetime'
    BY DEF Places, Mutex, Semaphore, Handlers, Lifetime
  <1>7. Hooks'
    BY DEF Places, Mutex, Handlers, Lifetime, Hooks
  <1>. QED  BY <1>1, <1>2, <1>3, <1>4, <1>5, <1>6, <1>7

\* A hook tests the listener.
LEMMA CheckListenerInv == ASSUME NEW u \in Users, IInv, CheckListener(u) PROVE IInv'
  <1> USE DEF CheckListener, Goto
  <1>1. TypeOK'
    BY DEF Places, Handlers
  <1>2. Places'
    BY DEF Places
  <1>3. Mutex'
    BY DEF Places, Mutex
  <1>4. Semaphore'
    BY DEF Places, Mutex, Semaphore, Handlers
  <1>5. Handlers'
    BY DEF Places, Mutex, Handlers
  <1>6. Lifetime'
    BY DEF Places, Mutex, Semaphore, Handlers, Lifetime
  <1>7. Hooks'
    BY DEF Places, Mutex, Handlers, Lifetime, Hooks
  <1>. QED  BY <1>1, <1>2, <1>3, <1>4, <1>5, <1>6, <1>7

\* The app returns to a hook.
LEMMA CallReturnsInv == ASSUME NEW u \in Users, IInv, CallReturns(u) PROVE IInv'
  <1> USE DEF CallReturns, Goto
  <1>1. TypeOK'
    BY DEF Places, Handlers
  <1>2. Places'
    BY DEF Places
  <1>3. Mutex'
    BY DEF Places, Mutex
  <1>4. Semaphore'
    BY DEF Places, Mutex, Semaphore, Handlers
  <1>5. Handlers'
    BY DEF Places, Mutex, Handlers
  <1>6. Lifetime'
    BY DEF Places, Mutex, Semaphore, Handlers, Lifetime
  <1>7. Hooks'
    BY DEF Places, Mutex, Handlers, Lifetime, Hooks
  <1>. QED  BY <1>1, <1>2, <1>3, <1>4, <1>5, <1>6, <1>7

\* A hook gives its permit back.
LEMMA LeaveHookInv == ASSUME NEW u \in Users, IInv, LeaveHook(u) PROVE IInv'
  <1> USE DEF LeaveHook, Goto, Release
  <1>1. TypeOK'
    BY DEF Places, Handlers
  <1>2. Places'
    BY DEF Places
  <1>3. Mutex'
    BY DEF Places, Mutex
  <1>4. Semaphore'
    BY DEF Places, Mutex, Semaphore, Handlers
  <1>5. Handlers'
    BY DEF Places, Mutex, Handlers
  <1>6. Lifetime'
    BY DEF Places, Mutex, Semaphore, Handlers, Lifetime
  <1>7. Hooks'
    BY DEF Places, Mutex, Handlers, Lifetime, Hooks
  <1>. QED  BY <1>1, <1>2, <1>3, <1>4, <1>5, <1>6, <1>7

\* getRunTime tests runTime.
LEMMA CheckRunTimeInv == ASSUME NEW r \in Readers, IInv, CheckRunTime(r) PROVE IInv'
  <1> USE DEF CheckRunTime, Goto
  <1>1. TypeOK'
    BY DEF Places, Handlers
  <1>2. Places'
    BY DEF Places
  <1>3. Mutex'
    BY DEF Places, Mutex
  <1>4. Semaphore'
    BY DEF Places, Mutex, Semaphore, Handlers
  <1>5. Handlers'
    BY DEF Places, Mutex, Handlers
  <1>6. Lifetime'
    BY DEF Places, Mutex, Semaphore, Handlers, Lifetime
  <1>7. Hooks'
    BY DEF Places, Mutex, Handlers, Lifetime, Hooks
  <1>. QED  BY <1>1, <1>2, <1>3, <1>4, <1>5, <1>6, <1>7

\* getRunTime reads runTime again.
LEMMA DerefRunTimeInv == ASSUME NEW r \in Readers, IInv, DerefRunTime(r) PROVE IInv'
  <1> USE DEF DerefRunTime, Goto
  <1>1. TypeOK'
    <2>1. CASE runTime
      BY <2>1 DEF Places
    <2>2. CASE ~runTime
      BY <2>2
    <2>. QED  BY <2>1, <2>2
  <1>2. Places'
    BY DEF Places
  <1>3. Mutex'
    BY DEF Places, Mutex
  <1>4. Semaphore'
    BY DEF Places, Mutex, Semaphore, Handlers
  <1>5. Handlers'
    BY DEF Places, Mutex, Handlers
  <1>6. Lifetime'
    BY DEF Places, Mutex, Semaphore, Handlers, Lifetime
  <1>7. Hooks'
    BY DEF Places, Mutex, Handlers, Lifetime, Hooks
  <1>. QED  BY <1>1, <1>2, <1>3, <1>4, <1>5, <1>6, <1>7

\* The initial state has no handler, no hook and nobody in a lock.
LEMMA InitInv == Init => IInv
  <1> SUFFICES ASSUME Init PROVE IInv
    OBVIOUS
  <1> USE DEF Init
  <1>1. TypeOK
    BY DEF TypeOK
  <1>2. Places
    BY DEF Places
  <1>3. Mutex
    BY DEF Mutex
  <1>4. Semaphore
    BY DEF Semaphore
  <1>5. Handlers
    BY DEF Handlers
  <1>6. Lifetime
    BY DEF Lifetime
  <1>7. Hooks
    BY DEF Hooks
  <1>. QED  BY <1>1, <1>2, <1>3, <1>4, <1>5, <1>6, <1>7 DEF IInv

HIDE DEF IInv, TypeOK, vars, globals, fields, Calls, Threads, CloseSteps,
         BuildSteps, Locked, CallSteps, UserSteps, ReaderSteps, Inside,
         Closing, Unbuilt

-----------------------------------------------------------------------------
(* The invariant is inductive.                                             *)

\* Every step preserves the invariant.
LEMMA NextInv == IInv /\ [Next]_vars => IInv'
  <1> SUFFICES ASSUME IInv, [Next]_vars PROVE IInv'
    OBVIOUS
  <1>1. ASSUME NEW c \in Calls, Stop(c) PROVE IInv'
    BY <1>1, StopTunInv, CloseAcquireInv, CloseUnhookInv, CloseListenerInv,
       CloseReleaseInv, CloseClearInv, StopUnlockInv DEF Stop, Close
  <1>2. ASSUME NEW s \in Starters, Start(s) PROVE IInv'
    BY <1>2, StartLockInv, BuildHandlerInv, InitTunHookInv, TunStartInv,
       PublishInv, StartFailedInv, StartUnlockInv DEF Start
  <1>3. ASSUME NEW u \in Users, Hook(u) PROVE IInv'
    BY <1>3, EnterHookInv, BlockedInv, ReadHandlerInv, HookAcquireInv,
       CheckListenerInv, CallReturnsInv, LeaveHookInv DEF Hook
  <1>4. ASSUME NEW r \in Readers, GetRunTime(r) PROVE IInv'
    BY <1>4, CheckRunTimeInv, DerefRunTimeInv DEF GetRunTime
  <1>5. CASE SetupConfig
    BY <1>5 DEF SetupConfig, IInv, TypeOK, Places, Mutex, Semaphore, Handlers,
       Lifetime, Hooks, fields
  <1>6. CASE UNCHANGED vars
    BY <1>6 DEF vars, globals, fields, IInv, TypeOK, Places, Mutex, Semaphore,
       Handlers, Lifetime, Hooks
  <1>. QED  BY <1>1, <1>2, <1>3, <1>4, <1>5, <1>6 DEF Next

\* The inductive invariant holds in every reachable state.
THEOREM Invariance == Spec => []IInv
  BY InitInv, NextInv, PTL DEF Spec

-----------------------------------------------------------------------------
(* What follows from it.                                                   *)

\* Every variable of the bridge keeps its type.
THEOREM TypeCorrect == Spec => []TypeOK
  <1>1. IInv => TypeOK
    BY DEF IInv
  <1>. QED  BY <1>1, Invariance, PTL

\* handleProtect and handleResolveProcess never call into a callback that
\* close() has handed to releaseObject.
THEOREM CallbackSafe == Spec => []NoUseAfterRelease
  <1>1. ASSUME IInv, NEW u \in Users, pc[u] = "calling"
        PROVE  released[mine[u]] = 0
    <2>1. mine[u] \in Starters /\ u \in limit[mine[u]] /\ callback[mine[u]]
      BY <1>1 DEF IInv, TypeOK, Semaphore, Handlers, Lifetime, Inside
    <2>2. ASSUME NEW c \in Calls, pc[c] = "clear", tunHandler = mine[u]
          PROVE  FALSE
      <3>1. limit[mine[u]] = {c}
        BY <1>1, <2>1, <2>2 DEF IInv, Semaphore, Closing, CloseSteps
      <3>. QED  BY <2>1, <3>1, ThreadsAssumption
    <2>. QED  BY <1>1, <2>1, <2>2 DEF IInv, Lifetime
  <1>2. IInv => NoUseAfterRelease
    BY <1>1 DEF NoUseAfterRelease
  <1>. QED  BY <1>2, Invariance, PTL

\* releaseObject runs at most once for each callback.
THEOREM CallbackReleasedOnce == Spec => []ReleasedOnce
  <1>1. IInv => ReleasedOnce
    BY DEF IInv, Lifetime, ReleasedOnce
  <1>. QED  BY <1>1, Invariance, PTL

\* Between the Acquire and the Release of close() no hook is inside.
THEOREM CloseExclusive == Spec => []CloseExcludesHooks
  <1>1. ASSUME IInv, NEW c \in Calls, NEW u \in Users, pc[c] \in Closing,
               pc[u] \in Inside, mine[u] = tunHandler
        PROVE  FALSE
    <2>1. mine[u] \in Starters
      BY <1>1 DEF IInv, TypeOK, Handlers
    <2>2. c \in limit[mine[u]] /\ u \in limit[mine[u]]
      BY <1>1, <2>1 DEF IInv, Semaphore
    <2>3. limit[mine[u]] = {c}
      BY <1>1, <2>1, <2>2 DEF IInv, Semaphore
    <2>. QED  BY <2>2, <2>3, ThreadsAssumption
  <1>2. IInv => CloseExcludesHooks
    BY <1>1 DEF CloseExcludesHooks, Closing, Inside
  <1>. QED  BY <1>2, Invariance, PTL

\* With tunLock free, hooks are installed exactly when the current handler
\* has a listener.
THEOREM HooksFollowListener == Spec => []HookIffListening
  <1>1. IInv => HookIffListening
    BY ThreadsAssumption DEF IInv, Hooks, HookIffListening
  <1>. QED  BY <1>1, Invariance, PTL

-----------------------------------------------------------------------------
(* What starts that wait for each other leave behind.                      *)

\* A start that has stopped the old device finds nothing open when it builds
\* its own, and a device has the listener that will close it.
LeakInv ==
  ~overlapped =>
    /\ \A s, t \in Starters : InFlight(s) /\ InFlight(t) => s = t
    /\ devices \subseteq {tunHandler}
    /\ \A h \in Starters : callback[h] => h = tunHandler
    /\ \A h \in devices : listener[h] \/ pc[h] = "publish"
    /\ \A c \in Calls : pc[c] \in {"release", "clear"} => devices = {}
    /\ \A s \in Starters : pc[s] \in {"stopUnlock", "startLock", "build"} =>
         devices = {} /\ \A h \in Starters : ~callback[h]

USE ThreadsAssumption
    DEF IInv, TypeOK, Places, vars, globals, fields, Calls, Threads, CloseSteps, BuildSteps,
        Locked, CallSteps, UserSteps, ReaderSteps

\* A start is counted as an overlap when it begins beside another one.
LEMMA StopTunLeak ==
  ASSUME NEW c \in Calls, IInv, LeakInv, StopTun(c)
  PROVE  LeakInv'
  <1> SUFFICES ASSUME ~overlapped' PROVE LeakInv'
    BY DEF LeakInv
  <1> USE DEF StopTun, Goto
  <1>1. ~overlapped
    OBVIOUS
  <1>2. c \in Starters => \A s \in Starters : ~InFlight(s)
    OBVIOUS
  <1>3. \A s, t \in Starters : (InFlight(s) /\ InFlight(t) => s = t)'
    BY <1>1, <1>2 DEF LeakInv, InFlight
  <1>4. pc' = [pc EXCEPT ![c] = IF tunHandler = None THEN "stopUnlock" ELSE "acquire"]
    OBVIOUS
  <1>5. tunHandler = None => devices = {} /\ \A h \in Starters : ~callback[h]
    BY <1>1 DEF LeakInv
  <1>6. ASSUME NEW s \in Starters, pc'[s] \in {"stopUnlock", "startLock", "build"}
        PROVE  devices = {} /\ \A h \in Starters : ~callback[h]
    BY <1>1, <1>4, <1>5, <1>6 DEF LeakInv
  <1>7. ASSUME NEW h \in devices PROVE (listener[h] \/ pc[h] = "publish")'
    <2>1. h # c \/ pc[h] = "idle"
      OBVIOUS
    <2>. QED  BY <1>1, <1>4, <2>1 DEF LeakInv
  <1>. QED  BY <1>1, <1>3, <1>4, <1>6, <1>7 DEF LeakInv

LEMMA CloseLeak ==
  ASSUME NEW c \in Calls, IInv, LeakInv, Close(c) \/ StopUnlock(c)
  PROVE  LeakInv'
  <1> USE DEF Goto, InFlight, LeakInv
  <1>1. CASE CloseAcquire(c)
    BY <1>1 DEF CloseAcquire
  <1>2. CASE CloseUnhook(c)
    BY <1>2 DEF CloseUnhook
  <1>3. CASE CloseListener(c)
    <2>1. tunHandler \in Starters /\ pc[c] = "closeListener"
      BY <1>3 DEF CloseListener, Handlers
    <2>2. pc[tunHandler] # "publish"
      BY <2>1 DEF Mutex
    <2>3. ~overlapped => devices' = {}
      BY <1>3, <2>1, <2>2 DEF CloseListener
    <2>. QED  BY <1>3, <2>3 DEF CloseListener
  <1>4. CASE CloseRelease(c)
    BY <1>4 DEF CloseRelease
  <1>5. CASE CloseClear(c)
    <2>1. tunHandler \in Starters /\ pc[c] = "clear"
      BY <1>5 DEF CloseClear, Handlers
    <2>2. ~overlapped => devices = {} /\ \A h \in Starters : ~callback'[h]
      BY <1>5, <2>1 DEF CloseClear
    <2>. QED  BY <1>5, <2>2 DEF CloseClear
  <1>6. CASE StopUnlock(c)
    BY <1>6 DEF StopUnlock
  <1>. QED  BY <1>1, <1>2, <1>3, <1>4, <1>5, <1>6 DEF Close

LEMMA StartLeak ==
  ASSUME NEW s \in Starters, IInv, LeakInv, Start(s)
  PROVE  LeakInv'
  <1> USE DEF Goto, InFlight, LeakInv
  <1>1. CASE StartLock(s)
    BY <1>1 DEF StartLock
  <1>2. CASE BuildHandler(s)
    <2>1. ~overlapped => devices = {} /\ \A h \in Starters : ~callback[h]
      BY <1>2 DEF BuildHandler
    <2>. QED  BY <1>2, <2>1 DEF BuildHandler
  <1>3. CASE InitTunHook(s)
    BY <1>3 DEF InitTunHook
  <1>4. CASE TunStart(s)
    <2>1. pc[s] = "open" /\ tunHandler = s
      BY <1>4 DEF TunStart, Lifetime
    <2>. QED  BY <1>4, <2>1 DEF TunStart, Mutex
  <1>5. CASE Publish(s)
    <2>1. pc[s] = "publish" /\ tunHandler = s
      BY <1>5 DEF Publish, Lifetime
    <2>. QED  BY <1>5, <2>1 DEF Publish
  <1>6. CASE StartFailed(s)
    BY <1>6 DEF StartFailed
  <1>7. CASE StartUnlock(s)
    BY <1>7 DEF StartUnlock
  <1>. QED  BY <1>1, <1>2, <1>3, <1>4, <1>5, <1>6, <1>7 DEF Start

\* Hooks and readers leave handlers, devices and calls alone.
LEMMA OthersLeak ==
  ASSUME IInv, LeakInv,
         \/ \E u \in Users : Hook(u)
         \/ \E r \in Readers : GetRunTime(r)
         \/ SetupConfig
         \/ UNCHANGED vars
  PROVE  LeakInv'
  <1>1. UNCHANGED <<overlapped, devices, tunHandler, callback, listener>>
    BY DEF Hook, EnterHook, Blocked, ReadHandler, HookAcquire, CheckListener,
           CallReturns, LeaveHook, GetRunTime, CheckRunTime, DerefRunTime, SetupConfig
  <1>2. \A c \in Calls : pc'[c] = pc[c]
    BY DEF Hook, EnterHook, Blocked, ReadHandler, HookAcquire, CheckListener,
           CallReturns, LeaveHook, GetRunTime, CheckRunTime, DerefRunTime, SetupConfig,
           Goto
  <1>. QED  BY <1>1, <1>2 DEF LeakInv, InFlight

HIDE DEF IInv, TypeOK, Places, vars, globals, fields, Calls, Threads, CloseSteps, BuildSteps,
         Locked, CallSteps, UserSteps, ReaderSteps

LEMMA LeakInvariant == Spec => []LeakInv
  <1>1. Init => LeakInv
    BY ThreadsAssumption DEF Init, LeakInv, InFlight, Threads, Calls
  <1>2. IInv /\ LeakInv /\ [Next]_vars => LeakInv'
    BY StopTunLeak, CloseLeak, StartLeak, OthersLeak DEF Next, Stop
  <1>. QED  BY <1>1, <1>2, Invariance, PTL DEF Spec

\* As long as starts wait for each other, the only open device is the current
\* handler's and only its callback is kept: handleStopTun, which a start calls
\* first, leaves nothing, and stops that come between add nothing.
THEOREM LeavesNothing == Spec => []NothingLeaked
  <1>1. LeakInv => NothingLeaked
    BY DEF LeakInv, NothingLeaked
  <1>. QED  BY <1>1, LeakInvariant, PTL

-----------------------------------------------------------------------------
(* Nobody waits for ever for somebody who waits: the guards at which a     *)
(* goroutine waits, and who is then able to go on.                         *)

\* A call waits for tunLock or for every permit, a hook for one.
Waits(t) ==
  \/ t \in Starters /\ pc[t] = "startLock" /\ tunLock # None
  \/ t \in Calls /\ pc[t] = "acquire" /\ limit[tunHandler] # {}
  \/ /\ t \in Users /\ pc[t] = "acquire"
     /\ ~ /\ limit[mine[t]] \cap Calls = {}
          /\ Cardinality(limit[mine[t]]) < Permits
          /\ CloseWaits(mine[t]) => t \in ahead

GoesOn(t) == InFlight(t) /\ ~Waits(t)

NoDeadlock == (\E t \in Calls \cup Users : Waits(t))
                => \E t \in Calls \cup Users : GoesOn(t)

\* Who holds a permit does not wait: a hook inside or a close() that has all.
LEMMA HolderGoesOn ==
  ASSUME IInv, NEW h \in Starters, NEW t \in limit[h]
  PROVE  t \in Calls \cup Users /\ GoesOn(t)
  <1>1. t \in Calls \cup Users
    BY DEF IInv, TypeOK
  <1>2. t \in Calls => pc[t] \in Closing
    BY DEF IInv, Semaphore
  <1>3. t \in Users => pc[t] \in Inside
    BY DEF IInv, Semaphore
  <1>. QED  BY <1>1, <1>2, <1>3, ThreadsAssumption
            DEF GoesOn, Waits, InFlight, Closing, CloseSteps, Inside, Calls

\* Who owns tunLock goes on, or waits for one who holds a permit.
LEMMA OwnerGoesOn ==
  ASSUME IInv, tunLock # None
  PROVE  \E t \in Calls \cup Users : GoesOn(t)
  <1>1. tunLock \in Calls /\ pc[tunLock] \in Locked
    BY DEF IInv, TypeOK, Mutex
  <1>2. CASE pc[tunLock] = "acquire" /\ limit[tunHandler] # {}
    <2>1. tunHandler \in Starters
      BY <1>1, <1>2 DEF IInv, TypeOK, Handlers, CloseSteps
    <2>. QED  BY <1>2, <2>1, HolderGoesOn
  <1>3. CASE ~(pc[tunLock] = "acquire" /\ limit[tunHandler] # {})
    <2>1. ~Waits(tunLock) /\ InFlight(tunLock)
      BY <1>1, <1>3, ThreadsAssumption
         DEF Waits, InFlight, Locked, CloseSteps, BuildSteps, Calls
    <2>. QED  BY <1>1, <2>1 DEF GoesOn
  <1>. QED  BY <1>2, <1>3

\* Calls wait for tunLock and for the hooks inside, hooks for the hooks before
\* them and for a close(): there is no circle, so while anybody waits, somebody
\* does not.
THEOREM NobodyDeadlocked == Spec => []NoDeadlock
  <1>1. ASSUME IInv, NEW t \in Calls \cup Users, Waits(t)
        PROVE  \E x \in Calls \cup Users : GoesOn(x)
    <2>1. CASE tunLock # None
      BY <1>1, <2>1, OwnerGoesOn
    <2>2. CASE tunLock = None
      <3>1. t \in Users /\ pc[t] = "acquire"
        <4>1. pc[t] # "acquire" \/ t \notin Calls
          BY <1>1, <2>2, ThreadsAssumption
             DEF IInv, Mutex, Locked, CloseSteps, Calls, Threads
        <4>. QED  BY <1>1, <2>2, <4>1 DEF Waits
      <3>2. mine[t] \in Starters
        BY <1>1, <3>1 DEF IInv, TypeOK, Handlers
      <3>3. limit[mine[t]] # {}
        <4>1. limit[mine[t]] \cap Calls # {} \/ ~(Cardinality(limit[mine[t]]) < Permits)
          BY <1>1, <2>2, <3>1, ThreadsAssumption DEF Waits, CloseWaits, Calls
        <4>2. Cardinality({}) = 0 /\ 0 < Permits
          BY FS_EmptySet, PermitsAssumption
        <4>. QED  BY <4>1, <4>2
      <3>. QED  BY <1>1, <3>2, <3>3, HolderGoesOn
    <2>. QED  BY <2>1, <2>2
  <1>2. IInv => NoDeadlock
    BY <1>1 DEF NoDeadlock
  <1>. QED  BY <1>2, Invariance, PTL

-----------------------------------------------------------------------------
(* Nor does anybody go in circles or wait for those who come later: what   *)
(* CallsComplete rests on besides NoDeadlock and fairness.                 *)

\* How far a call is from its end.
Rank == [idle |-> 15, acquire |-> 14, unhook |-> 13, closeListener |-> 12, release |-> 11,
         clear |-> 10, stopUnlock |-> 9, startLock |-> 8, build |-> 7, install |-> 6,
         open |-> 5, publish |-> 4, failed |-> 4, startUnlock |-> 3, done |-> 0]

\* A step brings a call nearer to its end or leaves it where it is, and while
\* close() waits no hook joins those it waits for.
Onward == /\ \A c \in Calls : pc'[c] = pc[c] \/ Rank[pc'[c]] < Rank[pc[c]]
          /\ \A h \in Starters : CloseWaits(h) /\ CloseWaits(h)'
                => limit'[h] \cup ahead' \subseteq limit[h] \cup ahead

LEMMA RankFact ==
  /\ Rank["idle"] = 15 /\ Rank["acquire"] = 14 /\ Rank["unhook"] = 13
  /\ Rank["closeListener"] = 12 /\ Rank["release"] = 11 /\ Rank["clear"] = 10
  /\ Rank["stopUnlock"] = 9 /\ Rank["startLock"] = 8 /\ Rank["build"] = 7
  /\ Rank["install"] = 6 /\ Rank["open"] = 5 /\ Rank["publish"] = 4
  /\ Rank["failed"] = 4 /\ Rank["startUnlock"] = 3 /\ Rank["done"] = 0
  BY DEF Rank

\* The first half: a call goes forward, and is moved by its own steps only.
LEMMA CallForward ==
  ASSUME IInv, [Next]_vars, NEW c \in Calls
  PROVE  pc'[c] = pc[c] \/ Rank[pc'[c]] < Rank[pc[c]]
  <1> USE RankFact, ThreadsAssumption DEF IInv, TypeOK, Calls, Threads, Goto
  <1>1. ASSUME NEW d \in Calls, Stop(d) PROVE pc'[c] = pc[c] \/ Rank[pc'[c]] < Rank[pc[c]]
    <2>1. CASE StopTun(d)  BY <2>1 DEF StopTun
    <2>2. CASE Close(d)
      BY <2>2 DEF Close, CloseAcquire, CloseUnhook, CloseListener, CloseRelease, CloseClear
    <2>3. CASE StopUnlock(d)  BY <2>3 DEF StopUnlock
    <2>. QED  BY <1>1, <2>1, <2>2, <2>3 DEF Stop
  <1>2. ASSUME NEW s \in Starters, Start(s)
        PROVE  pc'[c] = pc[c] \/ Rank[pc'[c]] < Rank[pc[c]]
    <2>1. CASE StartLock(s)  BY <2>1 DEF StartLock
    <2>2. CASE BuildHandler(s) \/ InitTunHook(s)  BY <2>2 DEF BuildHandler, InitTunHook
    <2>3. CASE TunStart(s)  BY <2>3 DEF TunStart
    <2>4. CASE Publish(s) \/ StartFailed(s) \/ StartUnlock(s)
      BY <2>4 DEF Publish, StartFailed, StartUnlock
    <2>. QED  BY <1>2, <2>1, <2>2, <2>3, <2>4 DEF Start
  <1>3. ASSUME NEW u \in Users, Hook(u) PROVE pc'[c] = pc[c]
    BY <1>3 DEF Hook, EnterHook, Blocked, ReadHandler, HookAcquire, CheckListener,
                CallReturns, LeaveHook
  <1>4. ASSUME NEW r \in Readers, GetRunTime(r) PROVE pc'[c] = pc[c]
    BY <1>4 DEF GetRunTime, CheckRunTime, DerefRunTime
  <1>5. SetupConfig \/ UNCHANGED vars => pc'[c] = pc[c]
    BY DEF SetupConfig, vars
  <1>. QED  BY <1>1, <1>2, <1>3, <1>4, <1>5 DEF Next

\* The second half: while close() waits, a permit goes only to a hook that was
\* at Acquire before it.
LEMMA NobodyJoins ==
  ASSUME IInv, [Next]_vars, NEW h \in Starters, CloseWaits(h), CloseWaits(h)'
  PROVE  limit'[h] \cup ahead' \subseteq limit[h] \cup ahead
  <1> USE DEF IInv, TypeOK, fields, globals
  <1>1. tunLock \in Calls /\ pc[tunLock] = "acquire" /\ h = tunHandler
    BY DEF CloseWaits
  <1>2. \A c \in Calls : pc[c] \in Locked => c = tunLock
    BY DEF Mutex
  <1>3. ASSUME NEW c \in Calls, Stop(c)
        PROVE  limit'[h] \cup ahead' \subseteq limit[h] \cup ahead
    <2>1. ~StopTun(c)  BY <1>1, ThreadsAssumption DEF StopTun, Calls, Threads
    <2>2. ~CloseAcquire(c)
      <3>1. CASE c = tunLock  BY <1>1, <3>1, ThreadsAssumption
              DEF CloseWaits, CloseAcquire, Goto, Calls, Threads
      <3>2. CASE c # tunLock  BY <1>2, <3>2 DEF CloseAcquire, Goto, Locked, CloseSteps
      <3>. QED  BY <3>1, <3>2
    <2>3. ~CloseClear(c)  BY <1>1, <1>2 DEF CloseClear, Goto, Locked, CloseSteps
    <2>4. CASE CloseUnhook(c) \/ CloseListener(c) \/ CloseRelease(c) \/ StopUnlock(c)
      BY <2>4 DEF CloseUnhook, CloseListener, CloseRelease, StopUnlock
    <2>. QED  BY <1>3, <2>1, <2>2, <2>3, <2>4 DEF Stop, Close
  <1>4. ASSUME NEW s \in Starters, Start(s) PROVE UNCHANGED <<limit, ahead>>
    BY <1>4 DEF Start, StartLock, BuildHandler, InitTunHook, TunStart, Publish, StartFailed,
                StartUnlock
  <1>5. ASSUME NEW u \in Users, Hook(u)
        PROVE  limit'[h] \cup ahead' \subseteq limit[h] \cup ahead
    <2>1. CASE HookAcquire(u)
      <3>1. mine[u] \in Starters  BY <2>1 DEF Handlers, HookAcquire, Goto
      <3>2. CASE mine[u] = h  BY <2>1, <3>2 DEF HookAcquire, AcquireOne
      <3>3. CASE mine[u] # h  BY <2>1, <3>1, <3>3 DEF HookAcquire, AcquireOne
      <3>. QED  BY <3>2, <3>3
    <2>2. CASE LeaveHook(u)
      BY <2>2 DEF LeaveHook, Release, Handlers, Goto, Inside
    <2>3. CASE \/ EnterHook(u) \/ Blocked(u) \/ ReadHandler(u) \/ CheckListener(u)
               \/ CallReturns(u)
      BY <2>3 DEF EnterHook, Blocked, ReadHandler, CheckListener, CallReturns
    <2>. QED  BY <1>5, <2>1, <2>2, <2>3 DEF Hook
  <1>6. ASSUME NEW r \in Readers, GetRunTime(r) PROVE UNCHANGED <<limit, ahead>>
    BY <1>6 DEF GetRunTime, CheckRunTime, DerefRunTime
  <1>7. SetupConfig \/ UNCHANGED vars => UNCHANGED <<limit, ahead>>
    BY DEF SetupConfig, vars
  <1>. QED  BY <1>3, <1>4, <1>5, <1>6, <1>7 DEF Next

\* Every step takes a call nearer to its end, and hooks that come while close()
\* waits do not hold it up: it waits for ever fewer.
THEOREM CallsAdvance == Spec => [][Onward]_vars
  <1>1. ASSUME IInv, [Next]_vars PROVE Onward
    BY <1>1, CallForward, NobodyJoins DEF Onward
  <1>2. IInv /\ [Next]_vars => [Onward]_vars
    BY <1>1
  <1>. QED  BY <1>2, Invariance, PTL DEF Spec

-----------------------------------------------------------------------------
(* Refinement: the bridge implements the lease of callbacks.               *)

phaseBar == [h \in Starters |-> IF released[h] > 0 THEN "revoked"
                                ELSE IF callback[h] THEN "granted" ELSE "free"]
borrowedBar == [u \in Users |-> IF pc[u] = "calling" THEN {mine[u]} ELSE {}]

\* A step that neither moves a callback nor enters or leaves a Java call is a
\* stutter of the lease.
LEMMA StutterStep ==
  ASSUME IInv, released' = released,
         \A h \in Starters : (callback'[h] = callback[h]) \/ released[h] > 0,
         \A u \in Users : (pc'[u] = "calling") = (pc[u] = "calling"),
         \A u \in Users : pc[u] = "calling" => mine'[u] = mine[u]
  PROVE  UNCHANGED <<phaseBar, borrowedBar>>
  BY DEF phaseBar, borrowedBar

\* The state of the lease is the mapped state of the bridge.
LEMMA LeaseNames == /\ Lease!leaseVars = <<phaseBar, borrowedBar>>
                    /\ Lease!leaseVars' = <<phaseBar, borrowedBar>>'
  BY DEF Lease!leaseVars, phaseBar, borrowedBar

\* Building a handler grants its callback.
LEMMA GrantStep == ASSUME NEW s \in Starters, IInv, BuildHandler(s)
                   PROVE  Lease!Grant(s)
  <1>1. released[s] = 0 /\ ~callback[s]
    BY DEF IInv, Lifetime, BuildHandler, Goto, Unbuilt
  <1>2. \A u \in Users : (pc'[u] = "calling") = (pc[u] = "calling")
    BY ThreadsAssumption DEF BuildHandler, Goto, IInv, TypeOK, Calls, Threads
  <1>3. callback'[s] /\ \A h \in Starters : h # s => callback'[h] = callback[h]
    BY DEF BuildHandler, IInv, TypeOK
  <1>4. released' = released /\ mine' = mine
    BY DEF BuildHandler
  <1>5. phaseBar[s] = "free"
    BY <1>1 DEF phaseBar
  <1>6. phaseBar' = [phaseBar EXCEPT ![s] = "granted"]
    <2>1. \A h \in Starters : phaseBar'[h] = IF h = s THEN "granted"
                                                    ELSE phaseBar[h]
      BY <1>1, <1>3, <1>4 DEF phaseBar
    <2>. QED  BY <2>1 DEF phaseBar
  <1>7. borrowedBar' = borrowedBar
    BY <1>2, <1>4 DEF borrowedBar
  <1>. QED  BY <1>5, <1>6, <1>7 DEF Lease!Grant, phaseBar, borrowedBar

\* The first close() of a handler revokes its callback.
LEMMA RevokeStep ==
  ASSUME NEW c \in Calls, NEW h \in Starters, h = tunHandler, IInv,
         CloseRelease(c), callback[h]
  PROVE  Lease!Revoke(h)
  <1>1. limit[h] = {c}
    BY DEF IInv, TypeOK, Handlers, Semaphore, CloseRelease, Goto, CloseSteps,
           Closing
  <1>2. \A k \in Calls : pc[k] # "clear"
    BY DEF IInv, Mutex, CloseRelease, Goto, Locked, CloseSteps
  <1>3. released[h] = 0
    BY <1>1, <1>2 DEF IInv, Lifetime
  <1>4. \A u \in Users : pc[u] = "calling" => mine[u] # h
    BY <1>1, ThreadsAssumption DEF IInv, Semaphore, Inside
  <1>5. \A u \in Users : (pc'[u] = "calling") = (pc[u] = "calling")
    BY ThreadsAssumption DEF CloseRelease, Goto, IInv, TypeOK, Calls, Threads
  <1>6. released' = [released EXCEPT ![h] = 1]
    BY <1>1, <1>3 DEF CloseRelease, IInv, TypeOK
  <1>7. callback' = callback /\ mine' = mine
    BY DEF CloseRelease
  <1>8. phaseBar[h] = "granted"
    BY <1>1, <1>3 DEF phaseBar
  <1>9. phaseBar' = [phaseBar EXCEPT ![h] = "revoked"]
    <2>1. \A k \in Starters : phaseBar'[k] = IF k = h THEN "revoked"
                                                    ELSE phaseBar[k]
      BY <1>1, <1>6, <1>7 DEF phaseBar, IInv, TypeOK
    <2>. QED  BY <2>1 DEF phaseBar
  <1>10. borrowedBar' = borrowedBar
    BY <1>5, <1>7 DEF borrowedBar
  <1>11. \A u \in Users : h \notin borrowedBar[u]
    BY <1>4 DEF borrowedBar
  <1>. QED  BY <1>8, <1>9, <1>10, <1>11 DEF Lease!Revoke, phaseBar, borrowedBar

\* A hook that finds a listener borrows the callback.
LEMMA BorrowStep ==
  ASSUME NEW u \in Users, NEW h \in Starters, h = mine[u], IInv,
         CheckListener(u), listener[h]
  PROVE  Lease!Borrow(u, h)
  <1>1. callback[h] /\ u \in limit[h]
    BY DEF IInv, TypeOK, Handlers, Semaphore, Lifetime, CheckListener, Goto,
           Inside
  <1>2. ASSUME NEW c \in Calls, pc[c] = "clear", tunHandler = h
        PROVE  FALSE
    <2>1. limit[h] = {c}
      BY <1>1, <1>2 DEF IInv, Semaphore, Closing, CloseSteps
    <2>. QED  BY <1>1, <2>1, ThreadsAssumption
  <1>3. released[h] = 0
    BY <1>1, <1>2 DEF IInv, Lifetime
  <1>4. phaseBar[h] = "granted"
    BY <1>1, <1>3 DEF phaseBar
  <1>5. borrowedBar[u] = {}
    BY DEF borrowedBar, CheckListener, Goto
  <1>6. pc' = [pc EXCEPT ![u] = "calling"] /\ UNCHANGED <<released, callback, mine>>
    BY DEF CheckListener, Goto, fields
  <1>7. borrowedBar' = [borrowedBar EXCEPT ![u] = {h}]
    BY <1>6 DEF borrowedBar, IInv, TypeOK, Threads
  <1>8. phaseBar' = phaseBar
    BY <1>6 DEF phaseBar
  <1>. QED  BY <1>1, <1>4, <1>5, <1>7, <1>8
            DEF Lease!Borrow, phaseBar, borrowedBar

\* A hook back from the app returns it.
LEMMA ReturnStep == ASSUME NEW u \in Users, IInv, CallReturns(u)
                    PROVE  Lease!Return(u)
  <1>1. borrowedBar[u] # {}
    BY DEF borrowedBar, CallReturns, Goto
  <1>2. pc' = [pc EXCEPT ![u] = "leave"] /\ UNCHANGED <<released, callback, mine>>
    BY DEF CallReturns, Goto, fields
  <1>3. borrowedBar' = [borrowedBar EXCEPT ![u] = {}]
    BY <1>2 DEF borrowedBar, IInv, TypeOK, Threads
  <1>4. phaseBar' = phaseBar
    BY <1>2 DEF phaseBar
  <1>. QED  BY <1>1, <1>3, <1>4 DEF Lease!Return, phaseBar, borrowedBar

\* Every step of the bridge is a step of the lease or leaves it alone.
LEMMA LeaseNext == IInv /\ [Next]_vars => [Lease!Next]_(Lease!leaseVars)
  <1> SUFFICES ASSUME IInv, [Next]_vars
               PROVE  Lease!Next \/ UNCHANGED <<phaseBar, borrowedBar>>
    BY LeaseNames
  <1> USE ThreadsAssumption DEF Calls, Threads
  <1>1. ASSUME NEW c \in Calls, Stop(c)
        PROVE  Lease!Next \/ UNCHANGED <<phaseBar, borrowedBar>>
    <2>1. CASE StopTun(c)
      BY <2>1, StutterStep DEF StopTun, Goto, IInv, TypeOK
    <2>2. CASE CloseAcquire(c)
      BY <2>2, StutterStep DEF CloseAcquire, Goto, IInv, TypeOK
    <2>3. CASE CloseUnhook(c)
      BY <2>3, StutterStep DEF CloseUnhook, Goto, IInv, TypeOK, fields
    <2>4. CASE CloseListener(c)
      BY <2>4, StutterStep DEF CloseListener, Goto, IInv, TypeOK, fields
    <2>5. CASE CloseRelease(c) /\ callback[tunHandler]
      <3>1. PICK h \in Starters : h = tunHandler
        BY <2>5 DEF IInv, TypeOK, Handlers, CloseRelease, Goto, CloseSteps
      <3>2. Lease!Revoke(h)
        BY <2>5, <3>1, RevokeStep
      <3>. QED  BY <3>2 DEF Lease!Next
    <2>6. CASE CloseRelease(c) /\ ~callback[tunHandler]
      <3>1. released' = released
        BY <2>6 DEF CloseRelease, IInv, TypeOK
      <3>. QED  BY <2>6, <3>1, StutterStep DEF CloseRelease, Goto, IInv, TypeOK
    <2>7. CASE CloseClear(c)
      <3>1. tunHandler \in Starters /\ released[tunHandler] = 1
        BY <2>7 DEF IInv, TypeOK, Handlers, Lifetime, CloseClear, Goto, CloseSteps
      <3>2. \A h \in Starters : callback'[h] = callback[h] \/ released[h] > 0
        <4>1. ASSUME NEW h \in Starters, h # tunHandler
              PROVE  callback'[h] = callback[h]
          BY <2>7, <4>1 DEF CloseClear, IInv, TypeOK
        <4>. QED  BY <3>1, <4>1
      <3>3. \A u \in Users : (pc'[u] = "calling") = (pc[u] = "calling")
        BY <2>7 DEF CloseClear, Goto, IInv, TypeOK
      <3>4. released' = released /\ mine' = mine
        BY <2>7 DEF CloseClear
      <3>. QED  BY <3>2, <3>3, <3>4, StutterStep
    <2>8. CASE StopUnlock(c)
      BY <2>8, StutterStep DEF StopUnlock, Goto, IInv, TypeOK, fields
    <2>. QED  BY <1>1, <2>1, <2>2, <2>3, <2>4, <2>5, <2>6, <2>7, <2>8
              DEF Stop, Close
  <1>2. ASSUME NEW s \in Starters, Start(s)
        PROVE  Lease!Next \/ UNCHANGED <<phaseBar, borrowedBar>>
    <2>1. CASE StartLock(s)
      BY <2>1, StutterStep DEF StartLock, Goto, IInv, TypeOK, fields
    <2>2. CASE BuildHandler(s)
      BY <2>2, GrantStep DEF Lease!Next
    <2>3. CASE InitTunHook(s)
      BY <2>3, StutterStep DEF InitTunHook, Goto, IInv, TypeOK, fields
    <2>4. CASE TunStart(s)
      BY <2>4, StutterStep DEF TunStart, Goto, IInv, TypeOK, fields
    <2>5. CASE Publish(s)
      BY <2>5, StutterStep DEF Publish, Goto, IInv, TypeOK
    <2>6. CASE StartFailed(s)
      BY <2>6, StutterStep DEF StartFailed, Goto, IInv, TypeOK, fields
    <2>7. CASE StartUnlock(s)
      BY <2>7, StutterStep DEF StartUnlock, Goto, IInv, TypeOK, fields
    <2>. QED  BY <1>2, <2>1, <2>2, <2>3, <2>4, <2>5, <2>6, <2>7 DEF Start
  <1>3. ASSUME NEW u \in Users, Hook(u)
        PROVE  Lease!Next \/ UNCHANGED <<phaseBar, borrowedBar>>
    <2>1. CASE EnterHook(u)
      BY <2>1, StutterStep DEF EnterHook, Goto, IInv, TypeOK, fields
    <2>2. CASE Blocked(u)
      BY <2>2, StutterStep DEF Blocked, Goto, IInv, TypeOK, fields
    <2>3. CASE ReadHandler(u)
      BY <2>3, StutterStep DEF ReadHandler, Goto, IInv, TypeOK, fields
    <2>4. CASE HookAcquire(u)
      BY <2>4, StutterStep DEF HookAcquire, Goto, IInv, TypeOK
    <2>5. CASE CheckListener(u) /\ listener[mine[u]]
      <3>1. PICK h \in Starters : h = mine[u]
        BY <2>5 DEF IInv, TypeOK, Handlers, CheckListener, Goto, Inside
      <3>2. Lease!Borrow(u, h)
        BY <2>5, <3>1, BorrowStep
      <3>. QED  BY <3>2 DEF Lease!Next
    <2>6. CASE CheckListener(u) /\ ~listener[mine[u]]
      BY <2>6, StutterStep DEF CheckListener, Goto, IInv, TypeOK, fields
    <2>7. CASE CallReturns(u)
      BY <2>7, ReturnStep DEF Lease!Next
    <2>8. CASE LeaveHook(u)
      BY <2>8, StutterStep DEF LeaveHook, Goto, IInv, TypeOK
    <2>. QED  BY <1>3, <2>1, <2>2, <2>3, <2>4, <2>5, <2>6, <2>7, <2>8 DEF Hook
  <1>4. ASSUME NEW r \in Readers, GetRunTime(r)
        PROVE  Lease!Next \/ UNCHANGED <<phaseBar, borrowedBar>>
    <2>1. CASE CheckRunTime(r)
      BY <2>1, StutterStep DEF CheckRunTime, Goto, IInv, TypeOK, fields
    <2>2. CASE DerefRunTime(r) /\ runTime
      BY <2>2, StutterStep DEF DerefRunTime, Goto, IInv, TypeOK, fields
    <2>3. CASE DerefRunTime(r) /\ ~runTime
      BY <2>3, StutterStep DEF DerefRunTime, IInv, TypeOK, fields
    <2>. QED  BY <1>4, <2>1, <2>2, <2>3 DEF GetRunTime
  <1>5. CASE SetupConfig
    BY <1>5, StutterStep DEF SetupConfig, fields
  <1>6. CASE UNCHANGED vars
    BY <1>6, StutterStep DEF vars, fields
  <1>. QED  BY <1>1, <1>2, <1>3, <1>4, <1>5, <1>6 DEF Next

\* No callback is granted at the start.
LEMMA LeaseInit == Init => Lease!Init
  BY DEF Init, Lease!Init, Threads

\* The bridge lends each callback out between one grant and one revocation,
\* and revokes it when no hook is using it.
THEOREM ImplementsLease == Spec => LeaseSpec
  BY LeaseInit, LeaseNext, Invariance, PTL DEF Spec, LeaseSpec, Lease!Spec
==============================================================================
