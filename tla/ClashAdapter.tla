---------------------------- MODULE ClashAdapter ----------------------------
(***************************************************************************)
(* ClashAdapterService and the ClashCore it drives: start, stop and        *)
(* restart of the core process, and the status stream they feed.  A call   *)
(* is a chain of awaits, and nothing in the service keeps two calls apart; *)
(* each step below runs from one await to the next.  The microtasks that   *)
(* carry an event to its listener run before the next I/O completes, so an *)
(* event is received in the step that adds it.                             *)
(***************************************************************************)

CONSTANTS Calls,   \* calls of the service that may be under way at once
          Cores,   \* operating system processes a call may start
          Configs, \* the profiles' configuration files
          Serial,  \* do the callers take turns, and start only what is down?
          None

ASSUME NoneAssumption == None \notin Calls \cup Cores \cup Configs
ASSUME SerialAssumption == Serial \in BOOLEAN

VARIABLES status,   \* the last event of the status stream
          pc,       \* pc[c]: the await call c is at
          action,   \* action[c]: start, stop or restart
          path,     \* path[c]: the configuration it was called with
          waited,   \* the process it has started or signalled
          written,  \* what config.yaml in the working directory holds
          process,  \* ClashCore._process
          state,    \* state[p]: none, running or signalled
          running   \* running[p]: the configuration p was started on

call == <<pc, action, path, waited>>
os == <<state, running>>
adapterVars == <<status, call, written, process, os>>

Statuses == {"stopped", "failed", "starting", "started", "stopping"}
Switching == {"starting", "stopping"}
Actions == {"start", "stop", "restart"}
Awaits == {"idle", "exists", "convert", "which", "spawn", "adopt",
           "cancel", "exit", "cancelAgain", "exitAgain", "pause"}

AdapterTypeOK == /\ status \in Statuses
                 /\ pc \in [Calls -> Awaits]
                 /\ action \in [Calls -> Actions]
                 /\ path \in [Calls -> Configs \cup {None}]
                 /\ waited \in [Calls -> Cores \cup {None}]
                 /\ written \in Configs \cup {None}
                 /\ process \in Cores \cup {None}
                 /\ state \in [Cores -> {"none", "running", "signalled"}]
                 /\ running \in [Cores -> Configs \cup {None}]

Idle(c) == pc[c] = "idle"
AllIdle == \A c \in Calls : Idle(c)
Live == {p \in Cores : state[p] # "none"}

AdapterInit == /\ status = "stopped"
               /\ pc = [c \in Calls |-> "idle"]
               /\ action = [c \in Calls |-> "stop"]
               /\ path = [c \in Calls |-> None]
               /\ waited = [c \in Calls |-> None]
               /\ written = None
               /\ process = None
               /\ state = [p \in Cores |-> "none"]
               /\ running = [p \in Cores |-> None]

Goto(c, await) == pc' = [pc EXCEPT ![c] = await]
Add(event) == status' = event
Returns(c, event) == /\ Goto(c, "idle") /\ Add(event)
                     /\ waited' = [waited EXCEPT ![c] = None]
                     /\ UNCHANGED <<action, path>>

-----------------------------------------------------------------------------
\* start: the file must exist, is converted, and becomes config.yaml; an
\* exception anywhere ends the call with an alert.
Start(c, f) == /\ Idle(c)
               /\ action' = [action EXCEPT ![c] = "start"]
               /\ path' = [path EXCEPT ![c] = f]
               /\ Goto(c, "exists") /\ Add("starting")
               /\ UNCHANGED <<waited, written, process, os>>

\* Mutant: the exception handler adds no event.
FailsQuietly(c) == /\ Goto(c, "idle")
                   /\ waited' = [waited EXCEPT ![c] = None]
                   /\ UNCHANGED <<status, action, path, written, process, os>>

Fails(c) == Returns(c, "failed") /\ UNCHANGED <<written, process, os>>

CheckFile(c) == /\ pc[c] = "exists"
                /\ \/ Fails(c)
                   \/ /\ Goto(c, "convert")
                      /\ UNCHANGED <<status, action, path, waited, written,
                                     process, os>>

SetupConfig(c) == /\ pc[c] = "convert"
                  /\ \/ Fails(c)
                     \/ /\ Goto(c, "which") /\ written' = path[c]
                        /\ UNCHANGED <<status, action, path, waited, process, os>>

\* A missing binary is no error: the call succeeds without a process.
FindBinary(c) == /\ pc[c] = "which"
                 /\ \/ Returns(c, "started") /\ UNCHANGED <<written, process, os>>
                    \/ /\ Goto(c, "spawn")
                       /\ UNCHANGED <<status, action, path, waited, written,
                                      process, os>>

\* The process exists before the future that assigns _process completes; it
\* reads the config.yaml of the moment.  A process number is taken again
\* once nobody refers to it.
Spawn(c) == /\ pc[c] = "spawn"
            /\ \/ Fails(c)
               \/ \E p \in Cores :
                     /\ state[p] = "none" /\ p # process
                     /\ \A d \in Calls : waited[d] # p
                     /\ state' = [state EXCEPT ![p] = "running"]
                     /\ running' = [running EXCEPT ![p] = written]
                     /\ waited' = [waited EXCEPT ![c] = p]
                     /\ Goto(c, "adopt")
                     /\ UNCHANGED <<status, action, path, written, process>>

\* Mutant: a process once assigned is kept.
AdoptFirst(c) == /\ pc[c] = "adopt"
                 /\ process' = IF process = None THEN waited[c] ELSE process
                 /\ Returns(c, "started")
                 /\ UNCHANGED <<written, os>>

Adopt(c) == /\ pc[c] = "adopt"
            /\ process' = waited[c]
            /\ Returns(c, "started")
            /\ UNCHANGED <<written, os>>

-----------------------------------------------------------------------------
\* stop runs stopListener twice, the second time through shutdown; restart
\* runs it once, waits and starts.
Stop(c) == /\ Idle(c)
           /\ action' = [action EXCEPT ![c] = "stop"]
           /\ Goto(c, "cancel") /\ Add("stopping")
           /\ UNCHANGED <<path, waited, written, process, os>>

Restart(c, f) == /\ Idle(c)
                 /\ action' = [action EXCEPT ![c] = "restart"]
                 /\ path' = [path EXCEPT ![c] = f]
                 /\ Goto(c, "cancel") /\ Add("stopping")
                 /\ UNCHANGED <<waited, written, process, os>>

\* After the output subscriptions are cancelled, the process of the moment
\* gets SIGTERM and its exit is awaited; _process keeps its value.
Kill(c) == /\ pc[c] \in {"cancel", "cancelAgain"}
           /\ Goto(c, IF pc[c] = "cancel" THEN "exit" ELSE "exitAgain")
           /\ waited' = [waited EXCEPT ![c] = process]
           /\ state' = [p \in Cores |-> IF p = process /\ state[p] = "running"
                                        THEN "signalled" ELSE state[p]]
           /\ UNCHANGED <<status, action, path, written, process, running>>

\* Mutant: the exit code is not awaited.
ExitedAtOnce(c) == waited[c] \in Cores \cup {None}

Exited(c) == waited[c] \notin Live

StopAgain(c) == /\ pc[c] = "exit" /\ action[c] = "stop" /\ Exited(c)
                /\ Goto(c, "cancelAgain")
                /\ waited' = [waited EXCEPT ![c] = None]
                /\ UNCHANGED <<status, action, path, written, process, os>>

\* Mutant: a stop ends without its final event.
StoppedQuietly(c) == /\ pc[c] = "exitAgain" /\ Exited(c)
                     /\ Returns(c, "stopping")
                     /\ UNCHANGED <<written, process, os>>

Stopped(c) == /\ pc[c] = "exitAgain" /\ Exited(c)
              /\ Returns(c, "stopped")
              /\ UNCHANGED <<written, process, os>>

Pause(c) == /\ pc[c] = "exit" /\ action[c] = "restart" /\ Exited(c)
            /\ Goto(c, "pause")
            /\ waited' = [waited EXCEPT ![c] = None]
            /\ UNCHANGED <<status, action, path, written, process, os>>

StartAgain(c) == /\ pc[c] = "pause"
                 /\ Goto(c, "exists") /\ Add("starting")
                 /\ UNCHANGED <<action, path, waited, written, process, os>>

\* A core may end at any time, and nobody watches for it.
Exit(p) == /\ p \in Live
           /\ state' = [state EXCEPT ![p] = "none"]
           /\ running' = [running EXCEPT ![p] = None]
           /\ UNCHANGED <<status, call, written, process>>

-----------------------------------------------------------------------------
Step(c) == \/ CheckFile(c) \/ SetupConfig(c) \/ FindBinary(c) \/ Spawn(c)
           \/ Adopt(c) \/ Kill(c) \/ StopAgain(c) \/ Stopped(c) \/ Pause(c)
           \/ StartAgain(c)

MayStart == Serial => AllIdle /\ status # "started"
MayCall == Serial => AllIdle

AdapterNext == \/ \E c \in Calls, f \in Configs : MayStart /\ Start(c, f)
               \/ \E c \in Calls : MayCall /\ Stop(c)
               \/ \E c \in Calls, f \in Configs : MayCall /\ Restart(c, f)
               \/ \E c \in Calls : Step(c)
               \/ \E p \in Cores : Exit(p)

AdapterSpec == AdapterInit /\ [][AdapterNext]_adapterVars

-----------------------------------------------------------------------------
\* The status says that the service is switching only while a call is under
\* way that will say otherwise: every call of start, stop and restart ends
\* with a final event, whatever the others do meanwhile.
SwitchingIsBusy == status \in Switching => ~AllIdle

\* When callers take turns, every live core is the one ClashCore refers to or
\* one whose start is not over: no core is left behind that stop cannot reach.
NoOrphan == Serial => \A p \in Live : \/ p = process
                                      \/ \E c \in Calls : pc[c] = "adopt" /\ waited[c] = p

\* When callers take turns, nothing runs once the service has reported that
\* it is stopped or that it could not start.
StoppedMeansDown == Serial /\ status \in {"stopped", "failed"} => Live = {}
=============================================================================
