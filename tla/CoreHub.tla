------------------------------ MODULE CoreHub ------------------------------
(***************************************************************************)
(* The action dispatcher of the Go core (clashcore/action.go, hub.go,      *)
(* common.go).  Every action of the app is handled by a goroutine of its   *)
(* own; most handlers hold runLock, but handleShutdown, handleInitClash    *)
(* and handleUpdateExternalProvider do not, and two handlers go on in a    *)
(* second goroutine that answers before it unlocks.                        *)
(*                                                                         *)
(* A configuration is its name; the port it listens on starts out as that  *)
(* name and updateConfig may replace it by a member of Patches.  Requests   *)
(* are well formed except where a handler does something about one that is *)
(* not: a malformed setupConfig sets up the default configuration.         *)
(***************************************************************************)
EXTENDS Naturals

CONSTANTS Calls,          \* the actions the app ever sends
          Methods,        \* the methods it uses
          Configs,        \* the configurations it may set up
          DefaultConfig,  \* config.DefaultRawConfig()
          Patches,        \* the ports it may patch in
          Proxies,        \* the names it may select in the proxy group
          ProxiesOf,      \* the members of the group, by configuration
          None

ConfigNames == Configs \cup {DefaultConfig}
Ports == ConfigNames \cup Patches
AllMethods == {"initClash", "startListener", "stopListener", "shutdown",
               "setupConfig", "updateConfig", "changeProxy",
               "getExternalProviders", "getExternalProvider",
               "updateExternalProvider", "sideLoadExternalProvider",
               "closeConnections", "crash", "unknown"}

ASSUME NamesAssumption == /\ DefaultConfig \notin Configs
                          /\ ConfigNames \cap Patches = {}
                          /\ None \notin Ports \cup Proxies \cup Calls
                          /\ None \notin [name : ConfigNames, port : Ports]
ASSUME MethodsAssumption == /\ Methods \subseteq AllMethods
                            /\ None \notin AllMethods
ASSUME ProxiesAssumption == ProxiesOf \in [ConfigNames -> SUBSET Proxies]

VARIABLES runLock,     \* the call that holds the mutex, or None
          isInit,      \* has initClash run since the last shutdown?
          isRunning,   \* does the app want the listeners open?
          current,     \* currentConfig: [name, port], or None when nil
          tunnel,      \* the configuration hub.ApplyConfig applied, or None
          selected,    \* the proxy selected in the tunnel's group, or None
          listening,   \* the port the inbound listeners are open on, or None
          providers,   \* the configuration externalProviders was read from
          method,      \* method[c]: what the action of c asks for
          arg,         \* arg[c]: its configuration, port or proxy
          pc,          \* pc[c]: where its handler is
          err,         \* err[c]: has its handler an error to report?
          answer,      \* answer[c]: the result sent back, if any
          panicked     \* has a handler panicked (the process is gone)?

state == <<isInit, isRunning, current, tunnel, selected, listening, providers>>
request == <<method, arg>>
vars == <<runLock, state, request, pc, err, answer, panicked>>

Places == {"idle", "lock", "run", "default", "apply", "patch", "listen", "stop",
           "executor", "unlock", "reply", "release", "done"}

TypeOK == /\ runLock \in Calls \cup {None}
          /\ isInit \in BOOLEAN /\ isRunning \in BOOLEAN
          /\ current \in [name : ConfigNames, port : Ports] \cup {None}
          /\ tunnel \in ConfigNames \cup {None}
          /\ selected \in Proxies \cup {None}
          /\ listening \in Ports \cup {None}
          /\ providers \in ConfigNames \cup {None}
          /\ method \in [Calls -> Methods \cup {None}]
          /\ arg \in [Calls -> Ports \cup Proxies \cup {None}]
          /\ pc \in [Calls -> Places]
          /\ err \in [Calls -> BOOLEAN]
          /\ answer \in [Calls -> {"none", "ok", "error"}]
          /\ panicked \in BOOLEAN

Init == /\ runLock = None
        /\ isInit = FALSE /\ isRunning = FALSE
        /\ current = None
        /\ tunnel = None
        /\ selected = None
        /\ listening = None
        /\ providers = None
        /\ method = [c \in Calls |-> None]
        /\ arg = [c \in Calls |-> None]
        /\ pc = [c \in Calls |-> "idle"]
        /\ err = [c \in Calls |-> FALSE]
        /\ answer = [c \in Calls |-> "none"]
        /\ panicked = FALSE

-----------------------------------------------------------------------------
(* Taking a request, locking, answering.                                   *)

Locking == AllMethods \ {"initClash", "shutdown", "updateExternalProvider",
                         "crash", "unknown"}

At(c, m, p) == method[c] = m /\ pc[c] = p
Goto(c, p) == pc' = [pc EXCEPT ![c] = p]
Answer(c, ok) == answer' = [answer EXCEPT ![c] = IF ok THEN "ok" ELSE "error"]

Arguments(m) == CASE m = "setupConfig"  -> Configs \cup {None}
                  [] m = "updateConfig" -> Patches \cup {None}
                  [] m = "changeProxy"  -> Proxies \cup {None}
                  [] OTHER              -> {None}

Take(c, m, locks) == /\ pc[c] = "idle"
                     /\ method' = [method EXCEPT ![c] = m]
                     /\ \E a \in Arguments(m) : arg' = [arg EXCEPT ![c] = a]
                     /\ Goto(c, IF m \in locks THEN "lock" ELSE "run")
                     /\ UNCHANGED <<runLock, state, err, answer, panicked>>

\* Mutant: handleChangeProxy unlocks before its goroutine runs.
HandleActionEarlyUnlock(c) ==
  \E m \in Methods : Take(c, m, Locking \ {"changeProxy"})

\* invokeAction or the socket loop starts a goroutine for the request.
HandleAction(c) == \E m \in Methods : Take(c, m, Locking)

\* The handler it dispatches to takes runLock.
Lock(c) == /\ pc[c] = "lock"
           /\ runLock = None
           /\ runLock' = c
           /\ Goto(c, "run")
           /\ UNCHANGED <<state, request, err, answer, panicked>>

\* The deferred Unlock of a handler that returns its result.
Unlock(c) == /\ pc[c] = "unlock"
             /\ runLock' = None
             /\ Goto(c, "reply")
             /\ UNCHANGED <<state, request, err, answer, panicked>>

\* result.success(handleX(...)) once the handler has returned: an error is a
\* non-empty string.
Success(c) == /\ pc[c] = "reply"
              /\ Answer(c, ~err[c])
              /\ Goto(c, "done")
              /\ UNCHANGED <<runLock, state, request, err, panicked>>

\* Mutant: the goroutine returns without its deferred Unlock.
KeepLock(c) == /\ pc[c] = "release"
               /\ Goto(c, "done")
               /\ UNCHANGED <<runLock, state, request, err, answer, panicked>>

\* The deferred Unlock of a goroutine that has called fn(result) already.
Release(c) == /\ pc[c] = "release"
              /\ runLock' = None
              /\ Goto(c, "done")
              /\ UNCHANGED <<state, request, err, answer, panicked>>

\* A method that no case and no nextHandle knows is dropped unanswered.
UnknownMethod(c) == /\ At(c, "unknown", "run")
                    /\ Goto(c, "done")
                    /\ UNCHANGED <<runLock, state, request, err, answer, panicked>>

-----------------------------------------------------------------------------
(* setupConfig, updateConfig and the listeners.                            *)

Config(name) == [name |-> name, port |-> name]

\* A request that is no JSON sets up the default configuration and answers
\* the error; a configuration that does not parse leaves currentConfig nil
\* for a moment.
SetupConfig(c) ==
  /\ At(c, "setupConfig", "run")
  /\ \/ /\ current' = Config(IF arg[c] = None THEN DefaultConfig ELSE arg[c])
        /\ err' = [err EXCEPT ![c] = (arg[c] = None)]
        /\ Goto(c, "apply")
     \/ /\ arg[c] # None
        /\ current' = None
        /\ err' = [err EXCEPT ![c] = TRUE]
        /\ Goto(c, "default")
  /\ UNCHANGED <<runLock, isInit, isRunning, tunnel, selected, listening,
                 providers, request, answer, panicked>>

SetupDefault(c) ==
  /\ pc[c] = "default"
  /\ current' = Config(DefaultConfig)
  /\ Goto(c, "apply")
  /\ UNCHANGED <<runLock, isInit, isRunning, tunnel, selected, listening,
                 providers, request, err, answer, panicked>>

\* Mutant: a configuration that did not parse is not applied.
ApplyParsedOnly(c) ==
  /\ pc[c] = "apply"
  /\ tunnel' = IF err[c] THEN tunnel ELSE current.name
  /\ selected' = None
  /\ Goto(c, "listen")
  /\ UNCHANGED <<runLock, isInit, isRunning, current, listening, providers,
                 request, err, answer, panicked>>

\* hub.ApplyConfig builds new proxies, groups and providers.
ApplyConfig(c) ==
  /\ pc[c] = "apply"
  /\ tunnel' = current.name
  /\ selected' = None
  /\ Goto(c, "patch")
  /\ UNCHANGED <<runLock, isInit, isRunning, current, listening, providers,
                 request, err, answer, panicked>>

\* The saved selection is forced into the group if there is one, whether or
\* not the group has that proxy; the map may not name the group at all.
PatchSelectGroup(c) ==
  /\ pc[c] = "patch"
  /\ \/ UNCHANGED selected
     \/ ProxiesOf[tunnel] # {} /\ selected' \in Proxies
  /\ Goto(c, "listen")
  /\ UNCHANGED <<runLock, isInit, isRunning, current, tunnel, listening,
                 providers, request, err, answer, panicked>>

\* Mutant: listeners that are open are not created anew.
KeepOldListeners(c) ==
  /\ pc[c] = "listen"
  /\ listening' = IF isRunning /\ current # None /\ listening = None
                  THEN current.port ELSE listening
  /\ Goto(c, "unlock")
  /\ UNCHANGED <<runLock, isInit, isRunning, current, tunnel, selected,
                 providers, request, err, answer, panicked>>

UpdateListeners(c) ==
  /\ pc[c] = "listen"
  /\ listening' = IF isRunning /\ current # None THEN current.port
                                                 ELSE listening
  /\ Goto(c, "unlock")
  /\ UNCHANGED <<runLock, isInit, isRunning, current, tunnel, selected,
                 providers, request, err, answer, panicked>>

\* currentConfig.General of a nil configuration panics; a parameter that is
\* absent patches nothing.
UpdateConfig(c) ==
  /\ At(c, "updateConfig", "run")
  /\ IF current = None
     THEN panicked' = TRUE /\ UNCHANGED <<current, pc>>
     ELSE /\ current' = IF arg[c] = None THEN current
                        ELSE [current EXCEPT !.port = arg[c]]
          /\ Goto(c, "listen")
          /\ UNCHANGED panicked
  /\ UNCHANGED <<runLock, isInit, isRunning, tunnel, selected, listening,
                 providers, request, err, answer>>

StartListener(c) ==
  /\ At(c, "startListener", "run")
  /\ isRunning' = TRUE
  /\ Goto(c, "listen")
  /\ UNCHANGED <<runLock, isInit, current, tunnel, selected, listening,
                 providers, request, err, answer, panicked>>

StopListener(c) ==
  /\ At(c, "stopListener", "run")
  /\ isRunning' = FALSE
  /\ Goto(c, "stop")
  /\ UNCHANGED <<runLock, isInit, current, tunnel, selected, listening,
                 providers, request, err, answer, panicked>>

\* listener.StopListener, for handleStopListener and handleShutdown.
StopListeners(c) ==
  /\ \/ pc[c] = "stop" /\ Goto(c, "unlock")
     \/ At(c, "shutdown", "run") /\ Goto(c, "executor")
  /\ listening' = None
  /\ UNCHANGED <<runLock, isInit, isRunning, current, tunnel, selected,
                 providers, request, err, answer, panicked>>

-----------------------------------------------------------------------------
(* The other handlers that change state.                                   *)

\* executor.Shutdown, then isInit = false; isRunning and currentConfig stay.
ExecutorShutdown(c) ==
  /\ pc[c] = "executor"
  /\ isInit' = FALSE
  /\ Goto(c, "reply")
  /\ UNCHANGED <<runLock, isRunning, current, tunnel, selected, listening,
                 providers, request, err, answer, panicked>>

\* Parameters that are no JSON answer false and initialise nothing.
InitClash(c) ==
  /\ At(c, "initClash", "run")
  /\ \/ isInit' = TRUE /\ UNCHANGED err
     \/ err' = [err EXCEPT ![c] = TRUE] /\ UNCHANGED isInit
  /\ Goto(c, "reply")
  /\ UNCHANGED <<runLock, isRunning, current, tunnel, selected, listening,
                 providers, request, answer, panicked>>

\* "" is forced in, a name must be a member of the group; the group may be
\* missing or not selectable.
ChangeProxy(c) ==
  /\ At(c, "changeProxy", "run")
  /\ \/ /\ tunnel # None /\ ProxiesOf[tunnel] # {}
        /\ arg[c] = None \/ arg[c] \in ProxiesOf[tunnel]
        /\ selected' = arg[c]
        /\ Answer(c, TRUE)
     \/ /\ Answer(c, FALSE)
        /\ UNCHANGED selected
  /\ Goto(c, "release")
  /\ UNCHANGED <<runLock, isInit, isRunning, current, tunnel, listening,
                 providers, request, err, panicked>>

\* The only place that refreshes the cache of external providers.
GetExternalProviders(c) ==
  /\ At(c, "getExternalProviders", "run")
  /\ providers' = tunnel
  /\ Goto(c, "unlock")
  /\ UNCHANGED <<runLock, isInit, isRunning, current, tunnel, selected,
                 listening, request, err, answer, panicked>>

\* It reads the cache without runLock, and what it updates is the provider of
\* the configuration the cache was filled from.
UpdateExternalProvider(c) ==
  /\ At(c, "updateExternalProvider", "run")
  /\ \/ providers # None /\ Answer(c, TRUE)
     \/ Answer(c, FALSE)
  /\ Goto(c, "done")
  /\ UNCHANGED <<runLock, state, request, err, panicked>>

SideLoadExternalProvider(c) ==
  /\ At(c, "sideLoadExternalProvider", "run")
  /\ \/ providers # None /\ Answer(c, TRUE)
     \/ Answer(c, FALSE)
  /\ Goto(c, "release")
  /\ UNCHANGED <<runLock, state, request, err, panicked>>

\* Handlers that only read under runLock, or close tracked connections.
Query(c) ==
  /\ \/ At(c, "getExternalProvider", "run")
     \/ At(c, "closeConnections", "run")
  /\ Goto(c, "unlock")
  /\ UNCHANGED <<runLock, state, request, err, answer, panicked>>

Crash(c) ==
  /\ At(c, "crash", "run")
  /\ Answer(c, TRUE)
  /\ panicked' = TRUE
  /\ UNCHANGED <<runLock, state, request, pc, err>>

-----------------------------------------------------------------------------
Handle(c) ==
  \/ HandleAction(c) \/ Lock(c) \/ Unlock(c) \/ Success(c) \/ Release(c)
  \/ UnknownMethod(c) \/ SetupConfig(c) \/ SetupDefault(c) \/ ApplyConfig(c)
  \/ PatchSelectGroup(c) \/ UpdateListeners(c) \/ UpdateConfig(c)
  \/ StartListener(c) \/ StopListener(c) \/ StopListeners(c)
  \/ ExecutorShutdown(c) \/ InitClash(c) \/ ChangeProxy(c)
  \/ GetExternalProviders(c) \/ UpdateExternalProvider(c)
  \/ SideLoadExternalProvider(c) \/ Query(c) \/ Crash(c)

Next == ~panicked /\ \E c \in Calls : Handle(c)

Spec == Init /\ [][Next]_vars

\* Every goroutine is scheduled.
FairSpec == Spec /\ \A c \in Calls : WF_vars(~panicked /\ Handle(c))

-----------------------------------------------------------------------------
(* Properties                                                              *)

WantedPort == IF isRunning /\ current # None THEN current.port ELSE None

ShutdownSent == \E c \in Calls : method[c] = "shutdown"

\* Whenever no handler holds runLock, a port that is open is the one the
\* current configuration names, and only while the app wants listeners: no
\* order of start, stop, setup, update and shutdown leaves an old port open.
\* Without a shutdown the converse holds too: a start that came before the
\* configuration, or a setup or update while running, opens the port.
PortsFollow ==
  runLock = None => /\ listening \in {None, WantedPort}
                    /\ ShutdownSent \/ listening = WantedPort

\* The tunnel runs the configuration that currentConfig names, also after a
\* setup that failed to parse and fell back to the default.
TunnelRunsCurrent ==
  runLock = None => tunnel = IF current = None THEN None ELSE current.name

\* When changeProxy reports success, the group of the configuration that is
\* current at that moment has the proxy, and it is the one selected.
SelectionAnswered ==
  \A c \in Calls :
    At(c, "changeProxy", "release") /\ answer[c] = "ok" =>
      /\ selected = arg[c]
      /\ arg[c] \in ProxiesOf[current.name] \cup {None}

\* Handlers race, but apart from the crash method the process dies of one
\* thing only: an update before any setup.
PanicsUnconfigured ==
  panicked => \/ \E c \in Calls : At(c, "crash", "run")
              \/ tunnel = None

\* Every request with a known method is answered, so runLock is given back on
\* every path.
Answered ==
  \A c \in Calls : <>(answer[c] # "none" \/ method[c] = "unknown" \/ panicked)
==============================================================================
