----------------------------- MODULE BoxService -----------------------------
(***************************************************************************)
(* The Android service that owns the core (BoxService.kt), inside the VPN  *)
(* service.  Its status is a LiveData of the main thread; a start and a    *)
(* stop run on as coroutines on other threads, and a reload runs on the    *)
(* thread of the command server.  postValue leaves a value for the main    *)
(* thread to set later, and what the same job sends to the main thread     *)
(* after it comes after it.                                                *)
(*                                                                         *)
(* The app stays bound, so there is one instance of the service.  What a   *)
(* job opens has the job's name: its command server, its core and its TUN  *)
(* descriptor.                                                             *)
(*                                                                         *)
(* Before Android 6 a start awaits a network, which may never come.  Of    *)
(* the actor it asks, here is what the jobs need: NetworkMonitor has its   *)
(* channel, and the notices that come after a stop.                        *)
(***************************************************************************)

CONSTANTS Jobs, \* starts, stops and reloads that may be under way at once
          None

Statuses == {"Stopped", "Starting", "Started", "Stopping"}
Kinds == {"start", "stop", "reload"}

ASSUME NoneAssumption == None \notin Jobs \cup Statuses \cup Kinds

VARIABLES status,     \* BoxService.status
          pending,    \* the value postValue has left, or None
          posted,     \* the jobs that have posted and not seen it set
          registered, \* receiverRegistered: is CLOSE received?
          startedByUser, \* the setting BootReceiver reads
          kind,       \* kind[j]: start, stop, reload, or None when it has ended
          pc,         \* pc[j]: where job j is
          box,        \* boxService
          tun,        \* fileDescriptor
          command,    \* commandServer
          live,       \* the jobs whose core runs
          open,       \* the jobs whose TUN descriptor is open
          serving,    \* the jobs whose command server is open
          monitored,  \* does DefaultNetworkListener have a listener?
          interfered  \* has a reload, or an alert, met another job? (history)

looper == <<status, pending, posted>>
fields == <<box, tun, command>>
opened == <<live, open, serving>>
vars == <<looper, registered, startedByUser, kind, pc, fields, opened, monitored, interfered>>

Places == {"idle", "command", "show", "get", "network", "create", "openTun",
           "startCore", "adopt", "shown", "alert", "failed",
           "asked", "closeTun", "closeBox", "closeServer", "stopped"}

TypeOK == /\ status \in Statuses
          /\ pending \in Statuses \cup {None}
          /\ posted \in SUBSET Jobs
          /\ registered \in BOOLEAN
          /\ startedByUser \in BOOLEAN
          /\ kind \in [Jobs -> Kinds \cup {None}]
          /\ pc \in [Jobs -> Places]
          /\ box \in Jobs \cup {None}
          /\ tun \in Jobs \cup {None}
          /\ command \in Jobs \cup {None}
          /\ live \in SUBSET Jobs
          /\ open \in SUBSET Jobs
          /\ serving \in SUBSET Jobs
          /\ monitored \in BOOLEAN
          /\ interfered \in BOOLEAN

Init == /\ status = "Stopped" /\ pending = None /\ posted = {}
        /\ registered = FALSE /\ startedByUser = FALSE
        /\ kind = [j \in Jobs |-> None]
        /\ pc = [j \in Jobs |-> "idle"]
        /\ box = None /\ tun = None /\ command = None
        /\ live = {} /\ open = {} /\ serving = {}
        /\ monitored = FALSE /\ interfered = FALSE

Ended(j) == pc[j] \in {"idle", "failed"}
\* At its notification a job has done its work, and asking is not yet work.
Busy(j) == pc[j] \notin {"idle", "failed", "shown", "asked"}
Quiet == \A j \in Jobs : ~Busy(j)
\* What these jobs had opened stays open.
Failed == {j \in Jobs : pc[j] \in {"alert", "failed"}}
Goto(j, place) == pc' = [pc EXCEPT ![j] = place]

Return(j, place) == Goto(j, place) /\ kind' = [kind EXCEPT ![j] = None]

\* A name that nothing open and no field has.
Free(j) == /\ Ended(j)
           /\ j \notin live \cup open \cup serving
           /\ j \notin {box, tun, command}

Begin(j, k, place) == /\ Free(j)
                      /\ kind' = [kind EXCEPT ![j] = k]
                      /\ Goto(j, place)

\* A reload that begins beside a job or when the service is not started, or a
\* job that begins beside a reload.
Meets(k) == interfered' = \/ interfered
                          \/ k = "reload" /\ status # "Started"
                          \/ \E j \in Jobs : Busy(j) /\ "reload" \in {k, kind[j]}

\* An exception ends a job beside another one, or after another one has
\* brought up its core.
Crosses(j) == interfered' = \/ interfered
                            \/ \E d \in Jobs \ {j} : Busy(d)
                            \/ box \notin Failed \cup {None, j}

-----------------------------------------------------------------------------
(* The main thread.                                                        *)

\* Mutant: a start is accepted whatever the status.
StartAnyway(j) == /\ Begin(j, "start", "command") /\ Meets("start")
                  /\ status' = "Starting" /\ registered' = TRUE
                  /\ UNCHANGED <<pending, posted, startedByUser, fields, opened, monitored>>

\* onStartCommand, from the app, the tile, the shortcut or the boot receiver.
StartCommand(j) == /\ status = "Stopped"
                   /\ Begin(j, "start", "command") /\ Meets("start")
                   /\ status' = "Starting" /\ registered' = TRUE
                   /\ UNCHANGED <<pending, posted, startedByUser, fields, opened, monitored>>

\* stopService, by the CLOSE broadcast or because the system revokes the VPN.
StopService(j) == /\ status = "Started"
                  /\ Begin(j, "stop", "closeTun") /\ Meets("stop")
                  /\ status' = "Stopping" /\ registered' = FALSE
                  /\ UNCHANGED <<pending, posted, startedByUser, fields, opened, monitored>>

\* The runnable of postValue sets the latest value that was posted.
Deliver == /\ pending # None
           /\ status' = pending /\ pending' = None /\ posted' = {}
           /\ UNCHANGED <<registered, startedByUser, kind, pc, fields, opened, monitored,
                          interfered>>

Post(j, value) == pending' = value /\ posted' = posted \cup {j} /\ UNCHANGED status

\* What job j sends to the main thread runs after what it has posted.
OnMain(j) == j \notin posted

-----------------------------------------------------------------------------
(* startService, for a start and, from its first notification, a reload.   *)

Throws(j) == /\ Goto(j, "alert") /\ Crosses(j)
             /\ UNCHANGED <<looper, registered, startedByUser, kind, fields, opened,
                            monitored>>
Passes(j, place) == /\ Goto(j, place)
                    /\ UNCHANGED <<looper, registered, startedByUser, kind, fields,
                                   opened, monitored, interfered>>

StartCommandServer(j) ==
    /\ pc[j] = "command"
    /\ startedByUser' = TRUE
    /\ \/ Goto(j, "alert") /\ Crosses(j) /\ UNCHANGED <<command, serving>>
       \/ /\ Goto(j, "show")
          /\ command' = j /\ serving' = serving \cup {j}
          /\ UNCHANGED interfered
    /\ UNCHANGED <<looper, registered, kind, box, tun, live, open, monitored>>

\* The notification, the settings and buildConfig, and Start to the actor of the
\* monitor.
Build(j) == /\ pc[j] = "show" /\ OnMain(j)
            /\ \/ Throws(j)
               \/ /\ Goto(j, "get") /\ monitored' = TRUE
                  /\ UNCHANGED <<looper, registered, startedByUser, kind, fields, opened,
                                 interfered>>

\* From Android 6 on the system says at once which network it has, if any.
\* Before, Get is answered at once if the actor has one, which it may gain and
\* lose at any time; without one the request waits in the actor.
GetNetwork(j) == /\ pc[j] = "get" /\ monitored
                 /\ Throws(j) \/ Passes(j, "create") \/ Passes(j, "network")

\* Another job has stopped the monitor in between: from Android 6 on the system
\* is asked all the same ...
AskSystem(j) == /\ pc[j] = "get" /\ ~monitored
                /\ Throws(j) \/ Passes(j, "create")

\* ... but before, a check of the actor fails, and the process dies; the setting
\* outlives it.
GetUnheard(j) == /\ pc[j] = "get" /\ ~monitored
                 /\ status' = "Stopped" /\ pending' = None /\ posted' = {}
                 /\ registered' = FALSE
                 /\ kind' = [d \in Jobs |-> None] /\ pc' = [d \in Jobs |-> "idle"]
                 /\ box' = None /\ tun' = None /\ command' = None
                 /\ live' = {} /\ open' = {} /\ serving' = {}
                 /\ UNCHANGED <<startedByUser, monitored, interfered>>

\* pendingRequests, which outlive the listener.
Waits(j) == pc[j] = "network"

\* A network answers every request.
Put == /\ monitored /\ \E j \in Jobs : Waits(j)
       /\ pc' = [j \in Jobs |-> IF Waits(j) THEN "create" ELSE pc[j]]
       /\ UNCHANGED <<looper, registered, startedByUser, kind, fields, opened, monitored,
                      interfered>>

\* The resolver and newService.
NewService(j) == /\ pc[j] = "create"
                 /\ Throws(j) \/ Passes(j, "openTun")

\* newService.start() calls openTun, which assigns fileDescriptor.
OpenTun(j) == /\ pc[j] = "openTun"
              /\ \/ Throws(j)
                 \/ /\ Goto(j, "startCore")
                    /\ tun' = j /\ open' = open \cup {j}
                    /\ UNCHANGED <<looper, registered, startedByUser, kind, box,
                                   command, live, serving, monitored, interfered>>

\* A core that fails to start closes itself; the descriptor stays open.
StartCore(j) == /\ pc[j] = "startCore"
                /\ \/ Throws(j)
                   \/ /\ Goto(j, "adopt")
                      /\ live' = live \cup {j}
                      /\ UNCHANGED <<looper, registered, startedByUser, kind,
                                     fields, open, serving, monitored, interfered>>

\* Mutant: the core is started and never assigned.
AdoptNothing(j) == /\ pc[j] = "adopt"
                   /\ Post(j, "Started")
                   /\ Goto(j, "shown")
                   /\ UNCHANGED <<registered, startedByUser, kind, box, tun, command,
                                  opened, monitored, interfered>>

Adopt(j) == /\ pc[j] = "adopt"
            /\ box' = j
            /\ Post(j, "Started")
            /\ Goto(j, "shown")
            /\ UNCHANGED <<registered, startedByUser, kind, tun, command, opened, monitored,
                           interfered>>

ShowStarted(j) == /\ pc[j] = "shown" /\ OnMain(j)
                  /\ \/ Throws(j)
                     \/ /\ Return(j, "idle")
                        /\ UNCHANGED <<looper, registered, startedByUser, fields, opened,
                                       monitored, interfered>>

\* stopAndAlert closes nothing.  It may end a job whose work was done, whatever
\* has begun since.
StopAndAlert(j) == /\ pc[j] = "alert" /\ OnMain(j)
                   /\ startedByUser' = FALSE
                   /\ registered' = FALSE /\ status' = "Stopped"
                   /\ Return(j, "failed")
                   /\ Crosses(j)
                   /\ UNCHANGED <<pending, posted, fields, opened, monitored>>

-----------------------------------------------------------------------------
(* serviceReload and the coroutine of stopService.                         *)

\* The restart method: the app has seen the service started, perhaps long ago,
\* and asks the command server for a reload, if there still is one.
AskReload(j) == /\ status = "Started"
                /\ Begin(j, "reload", "asked")
                /\ UNCHANGED <<looper, registered, startedByUser, fields, opened, monitored,
                               interfered>>

ServiceReload(j) ==
    /\ pc[j] = "asked"
    /\ IF command = None
       THEN Return(j, "idle") /\ UNCHANGED <<looper, interfered>>
       ELSE /\ Post(j, "Starting") /\ Goto(j, "closeTun") /\ Meets("reload")
            /\ UNCHANGED kind
    /\ UNCHANGED <<registered, startedByUser, fields, opened, monitored>>

CloseTun(j) == /\ pc[j] = "closeTun"
               /\ tun' = None /\ open' = open \ {tun}
               /\ Goto(j, "closeBox")
               /\ UNCHANGED <<looper, registered, startedByUser, kind, box, command,
                              live, serving, monitored, interfered>>

\* Mutant: the reference is dropped, the core is not closed.
ForgetBox(j) == /\ pc[j] = "closeBox"
                /\ box' = None
                /\ Goto(j, IF kind[j] = "stop" THEN "closeServer" ELSE "show")
                /\ UNCHANGED <<looper, registered, startedByUser, kind, tun, command,
                               opened, monitored, interfered>>

CloseBox(j) == /\ pc[j] = "closeBox"
               /\ box' = None /\ live' = live \ {box}
               /\ Goto(j, IF kind[j] = "stop" THEN "closeServer" ELSE "show")
               /\ UNCHANGED <<looper, registered, startedByUser, kind, tun, command,
                              open, serving, monitored, interfered>>

\* Stop to the actor, which keeps the requests, and the end of the command server.
CloseServer(j) == /\ pc[j] = "closeServer"
                  /\ monitored' = FALSE
                  /\ command' = None /\ serving' = serving \ {command}
                  /\ startedByUser' = FALSE
                  /\ Goto(j, "stopped")
                  /\ UNCHANGED <<looper, registered, kind, box, tun, live, open,
                                 interfered>>

\* Mutant: the last status is left out.
StopSilently(j) == /\ pc[j] = "stopped" /\ OnMain(j)
                   /\ Return(j, "idle")
                   /\ UNCHANGED <<looper, registered, startedByUser,
                                  fields, opened, monitored, interfered>>

Stopped(j) == /\ pc[j] = "stopped" /\ OnMain(j)
              /\ status' = "Stopped"
              /\ Return(j, "idle")
              /\ UNCHANGED <<pending, posted, registered, startedByUser,
                             fields, opened, monitored, interfered>>

-----------------------------------------------------------------------------
Run(j) == \/ StartCommandServer(j) \/ Build(j) \/ GetNetwork(j)
          \/ AskSystem(j) \/ GetUnheard(j) \/ NewService(j) \/ OpenTun(j) \/ StartCore(j)
          \/ Adopt(j) \/ ShowStarted(j) \/ StopAndAlert(j) \/ ServiceReload(j)
          \/ CloseTun(j) \/ CloseBox(j) \/ CloseServer(j) \/ Stopped(j)

Next == \/ \E j \in Jobs : StartCommand(j) \/ StopService(j) \/ AskReload(j) \/ Run(j)
        \/ Deliver \/ Put

Spec == Init /\ [][Next]_vars

\* The dispatchers run every coroutine, and the main looper every message.
\* Nothing is assumed of the network.
Fairness == /\ \A j \in Jobs : WF_vars(Run(j))
            /\ WF_vars(Deliver)
FairSpec == Spec /\ Fairness

-----------------------------------------------------------------------------
\* Unless a reload or an alert met another job, a started service is whole: its core, its
\* descriptor and its command server are the ones the fields name, and the
\* broadcast that stops it is received.
RunsWhole == ~interfered /\ Quiet /\ status = "Started"
                => /\ box \in live /\ tun = box /\ tun \in open
                   /\ command \in serving /\ registered

\* Unless a reload or an alert met another job, a core runs on unreachable only if the job
\* that started it ended with an alert.
NoOrphan == ~interfered => live \subseteq {box} \cup Failed \cup {j \in Jobs : pc[j] = "adopt"}

\* Unless a reload or an alert met another job, a stopped service has left nothing open but
\* what a start that ended with an alert had opened.
StoppedClean == ~interfered /\ Quiet /\ status = "Stopped" => live \cup open \subseteq Failed

\* Unless a reload or an alert met another job, the service is started again after a boot
\* exactly if it was started.
BootFollows == ~interfered /\ Quiet /\ pending = None
                  => (startedByUser <=> status = "Started")

\* However starts, stops and reloads interleave, the status stays at starting
\* or stopping only if a job waits for ever for a network.
Settles == (\A j \in Jobs : []<>~Waits(j))
             => []<>(status \in {"Stopped", "Started"})
=============================================================================
