--------------------------- MODULE CoreHubProofs ---------------------------
(***************************************************************************)
(* Proofs about CoreHub, for any number of calls, configurations, ports    *)
(* and proxies.  The inductive invariant says which places of a handler    *)
(* lie inside the critical section, and what may be out of step with what  *)
(* while its holder is at each of them.  The last section is about the     *)
(* answers: one for each request, and nothing a handler waits for in vain. *)
(***************************************************************************)
EXTENDS CoreHub, TLAPS

\* The places a handler reaches only with runLock held.
Inside == {"default", "apply", "patch", "listen", "stop", "unlock", "release"}

\* A call owns runLock exactly while its handler is in the critical section.
LockInv ==
  \A c \in Calls :
    runLock = c <=> \/ pc[c] \in Inside
                    \/ pc[c] = "run" /\ method[c] \in Locking

\* What a call carries fits its method.
RequestInv ==
  \A c \in Calls :
    /\ pc[c] = "idle" => method[c] = None
    /\ pc[c] # "idle" => arg[c] \in Arguments(method[c])
    /\ pc[c] = "lock" => method[c] \in Locking
    /\ pc[c] = "executor" => method[c] = "shutdown"

\* No handler is at one of these places.
Nobody(places) == \A c \in Calls : pc[c] \notin places

\* currentConfig is nil between a failed parse and the default, and before
\* any setup; it is never nil when it is about to be applied.
CurrentInv == ~Nobody({"apply"}) => current # None

TunnelInv ==
  Nobody({"default", "apply"}) =>
    tunnel = IF current = None THEN None ELSE current.name

\* A port is open only with isRunning set, or about to be closed by the
\* handler that reset it, and a configuration in place.
OpenInv ==
  /\ listening # None => /\ isRunning \/ ~Nobody({"stop"})
                         /\ current # None \/ ~Nobody({"default"})
  /\ ~Nobody({"stop"}) => ~isRunning

\* Between the change of what is wanted and updateListeners the ports lag
\* behind.
Lagging == {"default", "apply", "patch", "listen", "stop"}

PortInv ==
  Nobody(Lagging) =>
    /\ listening # None => listening = WantedPort
    /\ ~ShutdownSent => listening = WantedPort

IInv == /\ TypeOK /\ LockInv /\ RequestInv /\ CurrentInv /\ TunnelInv
        /\ OpenInv /\ PortInv /\ SelectionAnswered /\ PanicsUnconfigured

\* A configuration as setupConfig makes it.
LEMMA ConfigFact ==
  ASSUME NEW n \in ConfigNames
  PROVE  /\ Config(n) \in [name : ConfigNames, port : Ports]
         /\ Config(n) # None
         /\ Config(n).name = n
<1>1. Config(n) \in [name : ConfigNames, port : Ports]
  BY DEF Config, Ports
<1> QED
  BY <1>1, NamesAssumption DEF Config

\* updateConfig patches the port and keeps the rest.
LEMMA PatchFact ==
  ASSUME NEW p \in Ports, NEW r \in [name : ConfigNames, port : Ports]
  PROVE  /\ [r EXCEPT !.port = p] \in [name : ConfigNames, port : Ports]
         /\ [r EXCEPT !.port = p] # None
         /\ [r EXCEPT !.port = p].name = r.name
<1>1. [r EXCEPT !.port = p] \in [name : ConfigNames, port : Ports]
  OBVIOUS
<1> QED
  BY <1>1, NamesAssumption

\* Every handler step keeps the types.
LEMMA TypeStep ==
  ASSUME TypeOK, LockInv, RequestInv, CurrentInv, SelectionAnswered, NEW c \in
         Calls, Handle(c)
  PROVE  TypeOK'
<1>7. CASE SetupConfig(c)
  <2>1. arg[c] \in Configs \cup {None}
    BY <1>7 DEF SetupConfig, At, RequestInv, Arguments
  <2>2. \/ /\ current' = Config(IF arg[c] = None THEN DefaultConfig ELSE arg[c])
           /\ pc' = [pc EXCEPT ![c] = "apply"]
        \/ /\ current' = None
           /\ pc' = [pc EXCEPT ![c] = "default"]
    BY <1>7 DEF SetupConfig, Goto
  <2>3. /\ current' \in [name : ConfigNames, port : Ports] \cup {None}
        /\ pc' \in [Calls -> Places]
    BY <2>1, <2>2, ConfigFact DEF TypeOK, ConfigNames, Places
  <2>4. err' \in [Calls -> BOOLEAN]
    BY <1>7, ZenonT(30) DEF SetupConfig, TypeOK
  <2> QED
    BY <1>7, <2>3, <2>4 DEF SetupConfig, TypeOK, request
<1>12. CASE UpdateConfig(c)
  <2>1. arg[c] \in Patches \cup {None}
    BY <1>12 DEF UpdateConfig, At, RequestInv, Arguments
  <2>2. current' \in [name : ConfigNames, port : Ports] \cup {None}
    BY <1>12, <2>1, PatchFact DEF UpdateConfig, TypeOK, Ports
  <2>3. /\ pc' \in [Calls -> Places]
        /\ panicked' \in BOOLEAN
    BY <1>12 DEF UpdateConfig, Goto, TypeOK, Places
  <2> QED
    BY <1>12, <2>2, <2>3 DEF UpdateConfig, TypeOK, request
<1>17. CASE InitClash(c)
  <2>1. isInit' \in BOOLEAN
    BY <1>17 DEF InitClash, TypeOK
  <2>2. err' \in [Calls -> BOOLEAN]
    BY <1>17, ZenonT(30) DEF InitClash, TypeOK
  <2> QED
    BY <1>17, <2>1, <2>2 DEF InitClash, Goto, TypeOK, Places, request
<1> USE NamesAssumption, ProxiesAssumption, MethodsAssumption DEF At, Goto,
   Answer, state, request, TypeOK, RequestInv, CurrentInv, Nobody, Arguments,
   Places, Ports, ConfigNames
<1>1. CASE HandleAction(c)
  BY <1>1 DEF HandleAction, Take
<1>2. CASE Lock(c)
  BY <1>2 DEF Lock
<1>3. CASE Unlock(c)
  BY <1>3 DEF Unlock
<1>4. CASE Success(c)
  BY <1>4 DEF Success
<1>5. CASE Release(c)
  BY <1>5 DEF Release
<1>6. CASE UnknownMethod(c)
  BY <1>6 DEF UnknownMethod
<1>8. CASE SetupDefault(c)
  BY <1>8 DEF SetupDefault, Config
<1>9. CASE ApplyConfig(c)
  BY <1>9 DEF ApplyConfig
<1>10. CASE PatchSelectGroup(c)
  BY <1>10 DEF PatchSelectGroup
<1>11. CASE UpdateListeners(c)
  BY <1>11 DEF UpdateListeners
<1>13. CASE StartListener(c)
  BY <1>13 DEF StartListener
<1>14. CASE StopListener(c)
  BY <1>14 DEF StopListener
<1>15. CASE StopListeners(c)
  BY <1>15 DEF StopListeners
<1>16. CASE ExecutorShutdown(c)
  BY <1>16 DEF ExecutorShutdown
<1>18. CASE ChangeProxy(c)
  BY <1>18 DEF ChangeProxy
<1>19. CASE GetExternalProviders(c)
  BY <1>19 DEF GetExternalProviders
<1>20. CASE UpdateExternalProvider(c)
  BY <1>20 DEF UpdateExternalProvider
<1>21. CASE SideLoadExternalProvider(c)
  BY <1>21 DEF SideLoadExternalProvider
<1>22. CASE Query(c)
  BY <1>22 DEF Query
<1>23. CASE Crash(c)
  BY <1>23 DEF Crash
<1> QED
  BY <1>1, <1>2, <1>3, <1>4, <1>5, <1>6, <1>7, <1>8, <1>9, <1>10, <1>11,
     <1>12, <1>13, <1>14, <1>15, <1>16, <1>17, <1>18, <1>19, <1>20, <1>21,
     <1>22, <1>23 DEF Handle

\* A handler enters the critical section with runLock and leaves it without.
LEMMA LockStep ==
  ASSUME TypeOK, LockInv, RequestInv, NEW c \in Calls, Handle(c)
  PROVE  LockInv'
<1> USE NamesAssumption DEF At, Goto, Answer, state, request, TypeOK, LockInv,
   RequestInv, Inside, Locking, AllMethods
<1>1. CASE HandleAction(c)
  BY <1>1 DEF HandleAction, Take
<1>2. CASE Lock(c)
  BY <1>2 DEF Lock
<1>3. CASE Unlock(c)
  BY <1>3 DEF Unlock
<1>4. CASE Success(c)
  BY <1>4 DEF Success
<1>5. CASE Release(c)
  BY <1>5 DEF Release
<1>6. CASE UnknownMethod(c)
  BY <1>6 DEF UnknownMethod
<1>7. CASE SetupConfig(c)
  BY <1>7 DEF SetupConfig, Config
<1>8. CASE SetupDefault(c)
  BY <1>8 DEF SetupDefault, Config
<1>9. CASE ApplyConfig(c)
  BY <1>9 DEF ApplyConfig
<1>10. CASE PatchSelectGroup(c)
  BY <1>10 DEF PatchSelectGroup
<1>11. CASE UpdateListeners(c)
  BY <1>11 DEF UpdateListeners
<1>12. CASE UpdateConfig(c)
  BY <1>12 DEF UpdateConfig
<1>13. CASE StartListener(c)
  BY <1>13 DEF StartListener
<1>14. CASE StopListener(c)
  BY <1>14 DEF StopListener
<1>15. CASE StopListeners(c)
  BY <1>15 DEF StopListeners
<1>16. CASE ExecutorShutdown(c)
  BY <1>16 DEF ExecutorShutdown
<1>17. CASE InitClash(c)
  BY <1>17 DEF InitClash
<1>18. CASE ChangeProxy(c)
  BY <1>18 DEF ChangeProxy
<1>19. CASE GetExternalProviders(c)
  BY <1>19 DEF GetExternalProviders
<1>20. CASE UpdateExternalProvider(c)
  BY <1>20 DEF UpdateExternalProvider
<1>21. CASE SideLoadExternalProvider(c)
  BY <1>21 DEF SideLoadExternalProvider
<1>22. CASE Query(c)
  BY <1>22 DEF Query
<1>23. CASE Crash(c)
  BY <1>23 DEF Crash
<1> QED
  BY <1>1, <1>2, <1>3, <1>4, <1>5, <1>6, <1>7, <1>8, <1>9, <1>10, <1>11,
     <1>12, <1>13, <1>14, <1>15, <1>16, <1>17, <1>18, <1>19, <1>20, <1>21,
     <1>22, <1>23 DEF Handle

\* A request is fixed when it is taken.
LEMMA RequestStep ==
  ASSUME TypeOK, RequestInv, NEW c \in Calls, Handle(c)
  PROVE  RequestInv'
<1> USE NamesAssumption DEF At, Goto, Answer, state, request, TypeOK,
   RequestInv
<1>1. CASE HandleAction(c)
  BY <1>1 DEF HandleAction, Take
<1>2. CASE Lock(c)
  BY <1>2 DEF Lock
<1>3. CASE Unlock(c)
  BY <1>3 DEF Unlock
<1>4. CASE Success(c)
  BY <1>4 DEF Success
<1>5. CASE Release(c)
  BY <1>5 DEF Release
<1>6. CASE UnknownMethod(c)
  BY <1>6 DEF UnknownMethod
<1>7. CASE SetupConfig(c)
  BY <1>7 DEF SetupConfig, Config
<1>8. CASE SetupDefault(c)
  BY <1>8 DEF SetupDefault, Config
<1>9. CASE ApplyConfig(c)
  BY <1>9 DEF ApplyConfig
<1>10. CASE PatchSelectGroup(c)
  BY <1>10 DEF PatchSelectGroup
<1>11. CASE UpdateListeners(c)
  BY <1>11 DEF UpdateListeners
<1>12. CASE UpdateConfig(c)
  BY <1>12 DEF UpdateConfig
<1>13. CASE StartListener(c)
  BY <1>13 DEF StartListener
<1>14. CASE StopListener(c)
  BY <1>14 DEF StopListener
<1>15. CASE StopListeners(c)
  BY <1>15 DEF StopListeners
<1>16. CASE ExecutorShutdown(c)
  BY <1>16 DEF ExecutorShutdown
<1>17. CASE InitClash(c)
  BY <1>17 DEF InitClash
<1>18. CASE ChangeProxy(c)
  BY <1>18 DEF ChangeProxy
<1>19. CASE GetExternalProviders(c)
  BY <1>19 DEF GetExternalProviders
<1>20. CASE UpdateExternalProvider(c)
  BY <1>20 DEF UpdateExternalProvider
<1>21. CASE SideLoadExternalProvider(c)
  BY <1>21 DEF SideLoadExternalProvider
<1>22. CASE Query(c)
  BY <1>22 DEF Query
<1>23. CASE Crash(c)
  BY <1>23 DEF Crash
<1> QED
  BY <1>1, <1>2, <1>3, <1>4, <1>5, <1>6, <1>7, <1>8, <1>9, <1>10, <1>11,
     <1>12, <1>13, <1>14, <1>15, <1>16, <1>17, <1>18, <1>19, <1>20, <1>21,
     <1>22, <1>23 DEF Handle

\* Only the holder of runLock changes currentConfig and the tunnel.
LEMMA CurrentStep ==
  ASSUME TypeOK, LockInv, RequestInv, CurrentInv, TunnelInv, NEW c \in Calls,
         Handle(c)
  PROVE  CurrentInv' /\ TunnelInv'
<1>7. CASE SetupConfig(c)
  <2>1. arg[c] \in Configs \cup {None}
    BY <1>7 DEF SetupConfig, At, RequestInv, Arguments
  <2>2. \/ /\ current' # None
           /\ pc' = [pc EXCEPT ![c] = "apply"]
        \/ /\ current' = None
           /\ pc' = [pc EXCEPT ![c] = "default"]
    BY <1>7, <2>1, ConfigFact DEF SetupConfig, Goto, ConfigNames
  <2>3. \A d \in Calls \ {c} : pc[d] \notin {"apply", "default", "stop"}
    BY <1>7 DEF SetupConfig, At, LockInv, Inside, Locking, AllMethods
  <2>4. tunnel' = tunnel /\ listening' = listening /\ isRunning' = isRunning
    BY <1>7 DEF SetupConfig
  <2> QED
    BY <1>7, <2>2, <2>3, <2>4 DEF SetupConfig, At, TypeOK, CurrentInv,
       TunnelInv, Nobody
<1>8. CASE SetupDefault(c)
  <2>1. current' # None /\ pc' = [pc EXCEPT ![c] = "apply"]
    BY <1>8, ConfigFact DEF SetupDefault, Goto, ConfigNames
  <2>2. \A d \in Calls \ {c} : pc[d] \notin {"apply", "default", "stop"}
    BY <1>8 DEF SetupDefault, LockInv, Inside
  <2>3. tunnel' = tunnel /\ listening' = listening /\ isRunning' = isRunning
    BY <1>8 DEF SetupDefault
  <2> QED
    BY <1>8, <2>1, <2>2, <2>3 DEF SetupDefault, TypeOK, CurrentInv, TunnelInv,
       Nobody
<1>12. CASE UpdateConfig(c)
  <2>1. CASE current = None
    BY <1>12, <2>1 DEF UpdateConfig, CurrentInv, TunnelInv, Nobody
  <2>2. CASE current # None
    <3>1. arg[c] \in Patches \cup {None}
      BY <1>12 DEF UpdateConfig, At, RequestInv, Arguments
    <3>2. /\ current' # None
          /\ current'.name = current.name
          /\ pc' = [pc EXCEPT ![c] = "listen"]
      BY <1>12, <2>2, <3>1, PatchFact DEF UpdateConfig, Goto, TypeOK, Ports
    <3>3. tunnel' = tunnel /\ listening' = listening /\ isRunning' = isRunning
      BY <1>12 DEF UpdateConfig
    <3>4. \A d \in Calls : pc[d] \notin {"apply", "default", "stop"}
      BY <1>12 DEF UpdateConfig, At, LockInv, Inside, Locking, AllMethods
    <3> QED
      BY <2>2, <3>2, <3>3, <3>4 DEF TypeOK, CurrentInv, TunnelInv, Nobody
  <2> QED
    BY <2>1, <2>2
<1> USE NamesAssumption DEF At, Goto, Answer, state, request, TypeOK, LockInv,
   Inside, Locking, AllMethods, CurrentInv, TunnelInv, Nobody
<1>1. CASE HandleAction(c)
  BY <1>1 DEF HandleAction, Take
<1>2. CASE Lock(c)
  BY <1>2 DEF Lock
<1>3. CASE Unlock(c)
  BY <1>3 DEF Unlock
<1>4. CASE Success(c)
  BY <1>4 DEF Success
<1>5. CASE Release(c)
  BY <1>5 DEF Release
<1>6. CASE UnknownMethod(c)
  BY <1>6 DEF UnknownMethod
<1>9. CASE ApplyConfig(c)
  BY <1>9 DEF ApplyConfig
<1>10. CASE PatchSelectGroup(c)
  BY <1>10 DEF PatchSelectGroup
<1>11. CASE UpdateListeners(c)
  BY <1>11 DEF UpdateListeners
<1>13. CASE StartListener(c)
  BY <1>13 DEF StartListener
<1>14. CASE StopListener(c)
  BY <1>14 DEF StopListener
<1>15. CASE StopListeners(c)
  BY <1>15 DEF StopListeners
<1>16. CASE ExecutorShutdown(c)
  BY <1>16 DEF ExecutorShutdown
<1>17. CASE InitClash(c)
  BY <1>17 DEF InitClash
<1>18. CASE ChangeProxy(c)
  BY <1>18 DEF ChangeProxy
<1>19. CASE GetExternalProviders(c)
  BY <1>19 DEF GetExternalProviders
<1>20. CASE UpdateExternalProvider(c)
  BY <1>20 DEF UpdateExternalProvider
<1>21. CASE SideLoadExternalProvider(c)
  BY <1>21 DEF SideLoadExternalProvider
<1>22. CASE Query(c)
  BY <1>22 DEF Query
<1>23. CASE Crash(c)
  BY <1>23 DEF Crash
<1> QED
  BY <1>1, <1>2, <1>3, <1>4, <1>5, <1>6, <1>7, <1>8, <1>9, <1>10, <1>11,
     <1>12, <1>13, <1>14, <1>15, <1>16, <1>17, <1>18, <1>19, <1>20, <1>21,
     <1>22, <1>23 DEF Handle

\* A port is closed before isRunning is reset for good, and no handler can
\* leave one open without a configuration.
LEMMA OpenStep ==
  ASSUME TypeOK, LockInv, RequestInv, CurrentInv, OpenInv, NEW c \in Calls,
         Handle(c)
  PROVE  OpenInv'
<1>7. CASE SetupConfig(c)
  <2>1. arg[c] \in Configs \cup {None}
    BY <1>7 DEF SetupConfig, At, RequestInv, Arguments
  <2>2. \/ /\ current' # None
           /\ pc' = [pc EXCEPT ![c] = "apply"]
        \/ /\ current' = None
           /\ pc' = [pc EXCEPT ![c] = "default"]
    BY <1>7, <2>1, ConfigFact DEF SetupConfig, Goto, ConfigNames
  <2>3. \A d \in Calls \ {c} : pc[d] \notin {"apply", "default", "stop"}
    BY <1>7 DEF SetupConfig, At, LockInv, Inside, Locking, AllMethods
  <2>4. tunnel' = tunnel /\ listening' = listening /\ isRunning' = isRunning
    BY <1>7 DEF SetupConfig
  <2> QED
    BY <1>7, <2>2, <2>3, <2>4 DEF SetupConfig, At, TypeOK, CurrentInv,
       OpenInv, Nobody
<1>8. CASE SetupDefault(c)
  <2>1. current' # None /\ pc' = [pc EXCEPT ![c] = "apply"]
    BY <1>8, ConfigFact DEF SetupDefault, Goto, ConfigNames
  <2>2. \A d \in Calls \ {c} : pc[d] \notin {"apply", "default", "stop"}
    BY <1>8 DEF SetupDefault, LockInv, Inside
  <2>3. tunnel' = tunnel /\ listening' = listening /\ isRunning' = isRunning
    BY <1>8 DEF SetupDefault
  <2> QED
    BY <1>8, <2>1, <2>2, <2>3 DEF SetupDefault, TypeOK, CurrentInv, OpenInv,
       Nobody
<1>12. CASE UpdateConfig(c)
  <2>1. CASE current = None
    BY <1>12, <2>1 DEF UpdateConfig, CurrentInv, OpenInv, Nobody
  <2>2. CASE current # None
    <3>1. arg[c] \in Patches \cup {None}
      BY <1>12 DEF UpdateConfig, At, RequestInv, Arguments
    <3>2. /\ current' # None
          /\ current'.name = current.name
          /\ pc' = [pc EXCEPT ![c] = "listen"]
      BY <1>12, <2>2, <3>1, PatchFact DEF UpdateConfig, Goto, TypeOK, Ports
    <3>3. tunnel' = tunnel /\ listening' = listening /\ isRunning' = isRunning
      BY <1>12 DEF UpdateConfig
    <3>4. \A d \in Calls : pc[d] \notin {"apply", "default", "stop"}
      BY <1>12 DEF UpdateConfig, At, LockInv, Inside, Locking, AllMethods
    <3> QED
      BY <2>2, <3>2, <3>3, <3>4 DEF TypeOK, CurrentInv, OpenInv, Nobody
  <2> QED
    BY <2>1, <2>2
<1> USE NamesAssumption DEF At, Goto, Answer, state, request, TypeOK, LockInv,
   Inside, Locking, AllMethods, CurrentInv, OpenInv, Nobody
<1>1. CASE HandleAction(c)
  BY <1>1 DEF HandleAction, Take
<1>2. CASE Lock(c)
  BY <1>2 DEF Lock
<1>3. CASE Unlock(c)
  BY <1>3 DEF Unlock
<1>4. CASE Success(c)
  BY <1>4 DEF Success
<1>5. CASE Release(c)
  BY <1>5 DEF Release
<1>6. CASE UnknownMethod(c)
  BY <1>6 DEF UnknownMethod
<1>9. CASE ApplyConfig(c)
  BY <1>9 DEF ApplyConfig
<1>10. CASE PatchSelectGroup(c)
  BY <1>10 DEF PatchSelectGroup
<1>11. CASE UpdateListeners(c)
  BY <1>11 DEF UpdateListeners
<1>13. CASE StartListener(c)
  BY <1>13 DEF StartListener
<1>14. CASE StopListener(c)
  BY <1>14 DEF StopListener
<1>15. CASE StopListeners(c)
  BY <1>15 DEF StopListeners
<1>16. CASE ExecutorShutdown(c)
  BY <1>16 DEF ExecutorShutdown
<1>17. CASE InitClash(c)
  BY <1>17 DEF InitClash
<1>18. CASE ChangeProxy(c)
  BY <1>18 DEF ChangeProxy
<1>19. CASE GetExternalProviders(c)
  BY <1>19 DEF GetExternalProviders
<1>20. CASE UpdateExternalProvider(c)
  BY <1>20 DEF UpdateExternalProvider
<1>21. CASE SideLoadExternalProvider(c)
  BY <1>21 DEF SideLoadExternalProvider
<1>22. CASE Query(c)
  BY <1>22 DEF Query
<1>23. CASE Crash(c)
  BY <1>23 DEF Crash
<1> QED
  BY <1>1, <1>2, <1>3, <1>4, <1>5, <1>6, <1>7, <1>8, <1>9, <1>10, <1>11,
     <1>12, <1>13, <1>14, <1>15, <1>16, <1>17, <1>18, <1>19, <1>20, <1>21,
     <1>22, <1>23 DEF Handle

\* A handler that changes what is wanted goes on to updateListeners.
LEMMA PortStep ==
  ASSUME TypeOK, LockInv, RequestInv, CurrentInv, OpenInv, PortInv, NEW c \in
         Calls, Handle(c)
  PROVE  PortInv'
<1>1. CASE HandleAction(c)
  <2>1. PICK m \in Methods : Take(c, m, Locking)
    BY <1>1 DEF HandleAction
  <2>2. /\ pc' = [pc EXCEPT ![c] = IF m \in Locking THEN "lock" ELSE "run"]
        /\ pc[c] = "idle"
        /\ method' = [method EXCEPT ![c] = m]
        /\ UNCHANGED <<isRunning, current, listening>>
    BY <2>1 DEF Take, Goto, state
  <2>3. ASSUME Nobody(Lagging)'
        PROVE  Nobody(Lagging)
    BY <2>2, <2>3 DEF Nobody, Lagging, TypeOK
  <2>4. ASSUME ~ShutdownSent'
        PROVE  ~ShutdownSent \/ method[c] = "shutdown"
    BY <2>2, <2>4 DEF ShutdownSent, TypeOK
  <2>5. method[c] # "shutdown"
    BY <2>2, MethodsAssumption DEF RequestInv, AllMethods
  <2> QED
    BY <2>2, <2>3, <2>4, <2>5 DEF PortInv, WantedPort
<1> USE NamesAssumption DEF At, Goto, Answer, state, request, TypeOK, LockInv,
   RequestInv, Inside, Locking, AllMethods, CurrentInv, OpenInv, PortInv,
   Lagging, ShutdownSent, WantedPort, Nobody
<1>2. CASE Lock(c)
  BY <1>2 DEF Lock
<1>3. CASE Unlock(c)
  BY <1>3 DEF Unlock
<1>4. CASE Success(c)
  BY <1>4 DEF Success
<1>5. CASE Release(c)
  BY <1>5 DEF Release
<1>6. CASE UnknownMethod(c)
  BY <1>6 DEF UnknownMethod
<1>7. CASE SetupConfig(c)
  BY <1>7 DEF SetupConfig, Config
<1>8. CASE SetupDefault(c)
  BY <1>8 DEF SetupDefault, Config
<1>9. CASE ApplyConfig(c)
  BY <1>9 DEF ApplyConfig
<1>10. CASE PatchSelectGroup(c)
  BY <1>10 DEF PatchSelectGroup
<1>11. CASE UpdateListeners(c)
  BY <1>11 DEF UpdateListeners
<1>12. CASE UpdateConfig(c)
  BY <1>12 DEF UpdateConfig
<1>13. CASE StartListener(c)
  BY <1>13 DEF StartListener
<1>14. CASE StopListener(c)
  BY <1>14 DEF StopListener
<1>15. CASE StopListeners(c)
  BY <1>15 DEF StopListeners
<1>16. CASE ExecutorShutdown(c)
  BY <1>16 DEF ExecutorShutdown
<1>17. CASE InitClash(c)
  BY <1>17 DEF InitClash
<1>18. CASE ChangeProxy(c)
  BY <1>18 DEF ChangeProxy
<1>19. CASE GetExternalProviders(c)
  BY <1>19 DEF GetExternalProviders
<1>20. CASE UpdateExternalProvider(c)
  BY <1>20 DEF UpdateExternalProvider
<1>21. CASE SideLoadExternalProvider(c)
  BY <1>21 DEF SideLoadExternalProvider
<1>22. CASE Query(c)
  BY <1>22 DEF Query
<1>23. CASE Crash(c)
  BY <1>23 DEF Crash
<1> QED
  BY <1>1, <1>2, <1>3, <1>4, <1>5, <1>6, <1>7, <1>8, <1>9, <1>10, <1>11,
     <1>12, <1>13, <1>14, <1>15, <1>16, <1>17, <1>18, <1>19, <1>20, <1>21,
     <1>22, <1>23 DEF Handle

\* changeProxy answers inside the critical section it selected in.
LEMMA SelectionStep ==
  ASSUME TypeOK, LockInv, RequestInv, CurrentInv, TunnelInv,
         SelectionAnswered, NEW c \in Calls, Handle(c)
  PROVE  SelectionAnswered'
<1> USE NamesAssumption DEF At, Goto, Answer, state, request, TypeOK, LockInv,
   RequestInv, Inside, Locking, AllMethods, CurrentInv, TunnelInv,
   SelectionAnswered, Nobody
<1>1. CASE HandleAction(c)
  BY <1>1 DEF HandleAction, Take
<1>2. CASE Lock(c)
  BY <1>2 DEF Lock
<1>3. CASE Unlock(c)
  BY <1>3 DEF Unlock
<1>4. CASE Success(c)
  BY <1>4 DEF Success
<1>5. CASE Release(c)
  BY <1>5 DEF Release
<1>6. CASE UnknownMethod(c)
  BY <1>6 DEF UnknownMethod
<1>7. CASE SetupConfig(c)
  BY <1>7 DEF SetupConfig, Config
<1>8. CASE SetupDefault(c)
  BY <1>8 DEF SetupDefault, Config
<1>9. CASE ApplyConfig(c)
  BY <1>9 DEF ApplyConfig
<1>10. CASE PatchSelectGroup(c)
  BY <1>10 DEF PatchSelectGroup
<1>11. CASE UpdateListeners(c)
  BY <1>11 DEF UpdateListeners
<1>12. CASE UpdateConfig(c)
  BY <1>12 DEF UpdateConfig
<1>13. CASE StartListener(c)
  BY <1>13 DEF StartListener
<1>14. CASE StopListener(c)
  BY <1>14 DEF StopListener
<1>15. CASE StopListeners(c)
  BY <1>15 DEF StopListeners
<1>16. CASE ExecutorShutdown(c)
  BY <1>16 DEF ExecutorShutdown
<1>17. CASE InitClash(c)
  BY <1>17 DEF InitClash
<1>18. CASE ChangeProxy(c)
  BY <1>18 DEF ChangeProxy
<1>19. CASE GetExternalProviders(c)
  BY <1>19 DEF GetExternalProviders
<1>20. CASE UpdateExternalProvider(c)
  BY <1>20 DEF UpdateExternalProvider
<1>21. CASE SideLoadExternalProvider(c)
  BY <1>21 DEF SideLoadExternalProvider
<1>22. CASE Query(c)
  BY <1>22 DEF Query
<1>23. CASE Crash(c)
  BY <1>23 DEF Crash
<1> QED
  BY <1>1, <1>2, <1>3, <1>4, <1>5, <1>6, <1>7, <1>8, <1>9, <1>10, <1>11,
     <1>12, <1>13, <1>14, <1>15, <1>16, <1>17, <1>18, <1>19, <1>20, <1>21,
     <1>22, <1>23 DEF Handle

\* The only panic besides crash is the update before any setup.
LEMMA PanicStep ==
  ASSUME TypeOK, LockInv, RequestInv, TunnelInv, PanicsUnconfigured,
         ~panicked, NEW c \in Calls, Handle(c)
  PROVE  PanicsUnconfigured'
<1> USE NamesAssumption DEF At, Goto, Answer, state, request, TypeOK, LockInv,
   Inside, Locking, AllMethods, TunnelInv, PanicsUnconfigured, Nobody
<1>1. CASE HandleAction(c)
  BY <1>1 DEF HandleAction, Take
<1>2. CASE Lock(c)
  BY <1>2 DEF Lock
<1>3. CASE Unlock(c)
  BY <1>3 DEF Unlock
<1>4. CASE Success(c)
  BY <1>4 DEF Success
<1>5. CASE Release(c)
  BY <1>5 DEF Release
<1>6. CASE UnknownMethod(c)
  BY <1>6 DEF UnknownMethod
<1>7. CASE SetupConfig(c)
  BY <1>7 DEF SetupConfig, Config
<1>8. CASE SetupDefault(c)
  BY <1>8 DEF SetupDefault, Config
<1>9. CASE ApplyConfig(c)
  BY <1>9 DEF ApplyConfig
<1>10. CASE PatchSelectGroup(c)
  BY <1>10 DEF PatchSelectGroup
<1>11. CASE UpdateListeners(c)
  BY <1>11 DEF UpdateListeners
<1>12. CASE UpdateConfig(c)
  BY <1>12 DEF UpdateConfig
<1>13. CASE StartListener(c)
  BY <1>13 DEF StartListener
<1>14. CASE StopListener(c)
  BY <1>14 DEF StopListener
<1>15. CASE StopListeners(c)
  BY <1>15 DEF StopListeners
<1>16. CASE ExecutorShutdown(c)
  BY <1>16 DEF ExecutorShutdown
<1>17. CASE InitClash(c)
  BY <1>17 DEF InitClash
<1>18. CASE ChangeProxy(c)
  BY <1>18 DEF ChangeProxy
<1>19. CASE GetExternalProviders(c)
  BY <1>19 DEF GetExternalProviders
<1>20. CASE UpdateExternalProvider(c)
  BY <1>20 DEF UpdateExternalProvider
<1>21. CASE SideLoadExternalProvider(c)
  BY <1>21 DEF SideLoadExternalProvider
<1>22. CASE Query(c)
  BY <1>22 DEF Query
<1>23. CASE Crash(c)
  BY <1>23 DEF Crash
<1> QED
  BY <1>1, <1>2, <1>3, <1>4, <1>5, <1>6, <1>7, <1>8, <1>9, <1>10, <1>11,
     <1>12, <1>13, <1>14, <1>15, <1>16, <1>17, <1>18, <1>19, <1>20, <1>21,
     <1>22, <1>23 DEF Handle

LEMMA InitIInv == Init => IInv
  BY NamesAssumption, MethodsAssumption
  DEF Init, IInv, TypeOK, LockInv, RequestInv, CurrentInv, TunnelInv, OpenInv,
      PortInv, SelectionAnswered, PanicsUnconfigured, Inside, Places, Nobody,
      Lagging, WantedPort, At

\* The invariant is inductive.
LEMMA NextIInv == IInv /\ [Next]_vars => IInv'
<1> SUFFICES ASSUME IInv, [Next]_vars PROVE IInv'
  OBVIOUS
<1>1. CASE Next
  <2>1. PICK c \in Calls : Handle(c)
    BY <1>1 DEF Next
  <2>2. ~panicked
    BY <1>1 DEF Next
  <2> QED
    BY <2>1, <2>2, TypeStep, LockStep, RequestStep, CurrentStep, OpenStep,
       PortStep, SelectionStep, PanicStep DEF IInv
<1>2. CASE UNCHANGED vars
  BY <1>2 DEF vars, state, request, IInv, TypeOK, LockInv, RequestInv,
     CurrentInv, TunnelInv, OpenInv, PortInv, SelectionAnswered,
     PanicsUnconfigured, Nobody, WantedPort, ShutdownSent, At
<1> QED
  BY <1>1, <1>2

LEMMA Invariant == Spec => []IInv
  BY InitIInv, NextIInv, PTL DEF Spec

\* Every variable of the dispatcher keeps its type, so no handler reads a
\* field of a nil configuration except where updateConfig panics.
THEOREM TypeCorrect == Spec => []TypeOK
<1>1. IInv => TypeOK
  BY DEF IInv
<1> QED
  BY <1>1, Invariant, PTL

\* No order of start, stop, setup, update and shutdown leaves a port open
\* that the current configuration and the running state do not ask for, and
\* until the first shutdown every port that is asked for is open.
THEOREM PortsFollowConfig == Spec => []PortsFollow
<1>1. IInv => PortsFollow
  BY NamesAssumption
  DEF IInv, LockInv, Inside, PortInv, TunnelInv, Nobody, Lagging, PortsFollow
<1> QED
  BY <1>1, Invariant, PTL

\* With runLock free the tunnel runs what currentConfig names.
THEOREM TunnelFollowsConfig == Spec => []TunnelRunsCurrent
<1>1. IInv => TunnelRunsCurrent
  BY NamesAssumption
  DEF IInv, LockInv, Inside, PortInv, TunnelInv, Nobody, Lagging, TunnelRunsCurrent
<1> QED
  BY <1>1, Invariant, PTL

\* A changeProxy that answers success has selected a member of the group of
\* the configuration in force.
THEOREM SelectionHolds == Spec => []SelectionAnswered
<1>1. IInv => SelectionAnswered
  BY DEF IInv
<1> QED
  BY <1>1, Invariant, PTL

\* The core dies only of the crash method and of an update before a setup.
THEOREM PanicsOnlyUnconfigured == Spec => []PanicsUnconfigured
<1>1. IInv => PanicsUnconfigured
  BY DEF IInv
<1> QED
  BY <1>1, Invariant, PTL

-----------------------------------------------------------------------------
(* What Answered rests on besides fairness.                                *)

\* The places after the answer of a method that is known.
Answering == {"release", "done"}

\* A handler answers on its way to these places and nowhere else, unless the
\* answer was the last thing the process did.
AnswerInv ==
  \A c \in Calls :
    /\ pc[c] # "idle" => method[c] # None
    /\ answer[c] # "none" => pc[c] \in Answering \/ panicked
    /\ pc[c] \in Answering => answer[c] # "none" \/ method[c] = "unknown"

\* A handler has a step to take: it is at a place whose step has no other
\* condition, or the mutex it waits for is free, or a configuration is there
\* to be applied.
CanHandle(c) ==
  \/ pc[c] \in Places \ {"idle", "lock", "run", "apply", "done"}
  \/ pc[c] = "lock" /\ runLock = None
  \/ pc[c] = "run" /\ method[c] \in AllMethods
  \/ pc[c] = "apply" /\ current # None

\* Who has to wait waits for the mutex, and the owner of the mutex does not.
NobodyStuck ==
  ~panicked =>
    \A c \in Calls :
      \/ pc[c] \in {"idle", "done"}
      \/ CanHandle(c)
      \/ pc[c] = "lock" /\ runLock \in Calls /\ CanHandle(runLock)

\* How far a handler is from its end.
Rank == [idle |-> 10, lock |-> 9, run |-> 8, default |-> 7, apply |-> 6,
         patch |-> 5, listen |-> 4, stop |-> 4, executor |-> 4, unlock |-> 3,
         reply |-> 2, release |-> 1, done |-> 0]

\* A step brings one handler nearer to its end and leaves the others where
\* they are, or ends the process.
Advance ==
  \/ panicked'
  \/ \E c \in Calls : /\ Rank[pc'[c]] < Rank[pc[c]]
                      /\ pc' = [pc EXCEPT ![c] = pc'[c]]

\* Nobody is answered twice.
Final == \A c \in Calls : answer[c] # "none" => answer'[c] = answer[c]

\* The places in their order.
LEMMA RankFact ==
  /\ Rank["idle"] = 10 /\ Rank["lock"] = 9 /\ Rank["run"] = 8
  /\ Rank["default"] = 7 /\ Rank["apply"] = 6 /\ Rank["patch"] = 5
  /\ Rank["listen"] = 4 /\ Rank["stop"] = 4 /\ Rank["executor"] = 4
  /\ Rank["unlock"] = 3 /\ Rank["reply"] = 2 /\ Rank["release"] = 1
  /\ Rank["done"] = 0
  BY DEF Rank

\* A handler answers once, and only on its way to a place after the answer.
LEMMA AnswerStep ==
  ASSUME TypeOK, RequestInv, AnswerInv, ~panicked, NEW c \in Calls, Handle(c)
  PROVE  AnswerInv' /\ Final
<1> USE NamesAssumption, MethodsAssumption
    DEF At, Goto, Answer, state, request, TypeOK, AnswerInv, Answering, Final
<1>1. CASE HandleAction(c)
  BY <1>1 DEF HandleAction, Take
<1>2. CASE Lock(c)
  BY <1>2 DEF Lock
<1>3. CASE Unlock(c)
  BY <1>3 DEF Unlock
<1>4. CASE Success(c)
  BY <1>4 DEF Success
<1>5. CASE Release(c)
  BY <1>5 DEF Release
<1>6. CASE UnknownMethod(c)
  BY <1>6 DEF UnknownMethod
<1>7. CASE SetupConfig(c)
  BY <1>7 DEF SetupConfig
<1>8. CASE SetupDefault(c)
  BY <1>8 DEF SetupDefault
<1>9. CASE ApplyConfig(c)
  BY <1>9 DEF ApplyConfig
<1>10. CASE PatchSelectGroup(c)
  BY <1>10 DEF PatchSelectGroup
<1>11. CASE UpdateListeners(c)
  BY <1>11 DEF UpdateListeners
<1>12. CASE UpdateConfig(c)
  BY <1>12 DEF UpdateConfig
<1>13. CASE StartListener(c)
  BY <1>13 DEF StartListener
<1>14. CASE StopListener(c)
  BY <1>14 DEF StopListener
<1>15. CASE StopListeners(c)
  BY <1>15 DEF StopListeners
<1>16. CASE ExecutorShutdown(c)
  BY <1>16 DEF ExecutorShutdown
<1>17. CASE InitClash(c)
  BY <1>17 DEF InitClash
<1>18. CASE ChangeProxy(c)
  BY <1>18 DEF ChangeProxy
<1>19. CASE GetExternalProviders(c)
  BY <1>19 DEF GetExternalProviders
<1>20. CASE UpdateExternalProvider(c)
  BY <1>20 DEF UpdateExternalProvider
<1>21. CASE SideLoadExternalProvider(c)
  BY <1>21 DEF SideLoadExternalProvider
<1>22. CASE Query(c)
  BY <1>22 DEF Query
<1>23. CASE Crash(c)
  BY <1>23 DEF Crash
<1> QED
  BY <1>1, <1>2, <1>3, <1>4, <1>5, <1>6, <1>7, <1>8, <1>9, <1>10, <1>11,
     <1>12, <1>13, <1>14, <1>15, <1>16, <1>17, <1>18, <1>19, <1>20, <1>21,
     <1>22, <1>23 DEF Handle

\* A step that does not end the process takes its handler nearer to its end.
LEMMA AdvanceStep ==
  ASSUME TypeOK, NEW c \in Calls, Handle(c)
  PROVE  Advance
<1>1. SUFFICES panicked' \/ \E p \in Places : Goto(c, p) /\ Rank[p] < Rank[pc[c]]
  BY <1>1 DEF Advance, Goto, TypeOK
<1> USE RankFact DEF At, Places
<1>2. CASE HandleAction(c)
  BY <1>2 DEF HandleAction, Take
<1>3. CASE Lock(c) \/ Unlock(c) \/ Success(c) \/ Release(c) \/ UnknownMethod(c)
  BY <1>3 DEF Lock, Unlock, Success, Release, UnknownMethod
<1>4. CASE \/ SetupConfig(c) \/ SetupDefault(c) \/ ApplyConfig(c)
           \/ PatchSelectGroup(c) \/ UpdateListeners(c)
  BY <1>4 DEF SetupConfig, SetupDefault, ApplyConfig, PatchSelectGroup,
     UpdateListeners
<1>5. CASE UpdateConfig(c) \/ StartListener(c) \/ StopListener(c) \/ StopListeners(c)
  BY <1>5 DEF UpdateConfig, StartListener, StopListener, StopListeners
<1>6. CASE ExecutorShutdown(c)
  BY <1>6 DEF ExecutorShutdown
<1>7. CASE InitClash(c)
  BY <1>7 DEF InitClash
<1>8. CASE ChangeProxy(c)
  BY <1>8 DEF ChangeProxy
<1>9. CASE GetExternalProviders(c)
  BY <1>9 DEF GetExternalProviders
<1>10. CASE UpdateExternalProvider(c)
  BY <1>10 DEF UpdateExternalProvider
<1>11. CASE SideLoadExternalProvider(c)
  BY <1>11 DEF SideLoadExternalProvider
<1>12. CASE Query(c)
  BY <1>12 DEF Query
<1>13. CASE Crash(c)
  BY <1>13 DEF Crash
<1> QED
  BY <1>2, <1>3, <1>4, <1>5, <1>6, <1>7, <1>8, <1>9, <1>10, <1>11, <1>12,
     <1>13 DEF Handle

\* Who is answered: the invariant holds, and every step keeps what was said.
LEMMA AnswerInvariant == Spec => []AnswerInv /\ [][Final /\ Advance]_vars
<1>1. Init => AnswerInv
  BY DEF Init, AnswerInv, Answering
<1>2. IInv /\ AnswerInv /\ [Next]_vars => AnswerInv' /\ [Final /\ Advance]_vars
  <2> SUFFICES ASSUME IInv, AnswerInv, [Next]_vars
               PROVE  AnswerInv' /\ [Final /\ Advance]_vars
    OBVIOUS
  <2>1. CASE Next
    BY <2>1, AnswerStep, AdvanceStep DEF Next, IInv
  <2>2. CASE UNCHANGED vars
    BY <2>2 DEF vars, request, AnswerInv
  <2> QED
    BY <2>1, <2>2
<1> QED
  BY <1>1, <1>2, Invariant, PTL DEF Spec

\* A request is answered at most once, whatever order the handlers run in.
THEOREM AnsweredOnce == Spec => [][Final]_vars
<1>1. [Final /\ Advance]_vars => [Final]_vars
  OBVIOUS
<1> QED
  BY <1>1, AnswerInvariant, PTL

\* A handler that has ended has answered, unless nothing knows its method.
THEOREM EndedIsAnswered ==
  Spec => [](\A c \in Calls :
               pc[c] = "done" => answer[c] # "none" \/ method[c] = "unknown")
<1>1. AnswerInv => \A c \in Calls :
                     pc[c] = "done" => answer[c] # "none" \/ method[c] = "unknown"
  BY DEF AnswerInv, Answering
<1> QED
  BY <1>1, AnswerInvariant, PTL

\* No handler gives up its turn for good: it has a step, or waits for the
\* mutex and the owner has one.  runLock is given back on every path.
THEOREM NobodyIsStuck == Spec => []NobodyStuck
<1>1. IInv /\ AnswerInv => NobodyStuck
  <2> SUFFICES ASSUME IInv, AnswerInv, NEW c \in Calls,
                      pc[c] \notin {"idle", "done"}
               PROVE  \/ CanHandle(c)
                      \/ pc[c] = "lock" /\ runLock \in Calls /\ CanHandle(runLock)
    BY DEF NobodyStuck
  <2>1. ASSUME NEW d \in Calls, pc[d] \notin {"idle", "done", "lock"}
        PROVE  CanHandle(d)
    BY <2>1, MethodsAssumption
    DEF IInv, AnswerInv, TypeOK, CurrentInv, Nobody, CanHandle
  <2>2. CASE pc[c] = "lock" /\ runLock # None
    <3>1. runLock \in Calls
      BY <2>2 DEF IInv, TypeOK
    <3>2. pc[runLock] \in Inside \cup {"run"}
      BY <3>1 DEF IInv, LockInv
    <3> QED
      BY <2>1, <2>2, <3>1, <3>2 DEF Inside
  <2> QED
    BY <2>1, <2>2 DEF CanHandle
<1> QED
  BY <1>1, Invariant, AnswerInvariant, PTL

\* Handlers never go round in circles: each step takes one of them nearer to
\* its end and moves no other one.
THEOREM HandlersAdvance == Spec => [][Advance]_vars
<1>1. [Final /\ Advance]_vars => [Advance]_vars
  OBVIOUS
<1> QED
  BY <1>1, AnswerInvariant, PTL
=============================================================================
