--------------------------- MODULE NetworkMonitor ---------------------------
(***************************************************************************)
(* How the Android service follows the default network: the actor of       *)
(* DefaultNetworkListener.kt, DefaultNetworkMonitor.kt, and those who use  *)
(* them, the jobs of BoxService.kt and the DNS queries of LocalResolver.kt.*)
(*                                                                         *)
(* The channel of the actor has no buffer: a sender is suspended until its *)
(* message is received, and may go on before it has been handled.  The     *)
(* system's callback runs on one thread, which waits for its send.  The    *)
(* only key a listener is registered under is the monitor.                 *)
(*                                                                         *)
(* Jobs follow each other here; BoxService has them meet.  An exception in *)
(* the actor ends the process.  What the core is told of the interface is  *)
(* left out.                                                               *)
(***************************************************************************)
EXTENDS Naturals, Sequences

CONSTANTS Networks,    \* the networks the system may have
          Queries,     \* the DNS queries that may be under way at once
          Versions,    \* the values of SDK_INT
          MaxChanges,  \* bound: how often the system changes its network
          MaxRounds,   \* bound: how often a service is started or reloaded
          Job, Null

ASSUME NamesAssumption == Job \notin Queries /\ Null \notin Networks
ASSUME BoundsAssumption == {MaxChanges, MaxRounds} \cup Versions \subseteq Nat

VARIABLES sdk,           \* SDK_INT of this device
          default,       \* the system's default network, or Null
          changes,       \* how often it has changed or been described anew
          callbackRegistered, \* is Callback registered?
          registration,  \* how often it has been
          notices,       \* the calls of Callback the system has posted
          callback,      \* the one that runs and has not sent yet, or Null
          fallback,      \* DefaultNetworkListener.fallback
          channel,       \* the messages whose senders are suspended
          current,       \* the message the actor has received, or Null
          listening,     \* is the monitor in listeners?
          network,       \* the actor's network
          pendingRequests, \* who waits for a network
          alive,         \* has no exception ended the process?
          defaultNetwork, \* DefaultNetworkMonitor.defaultNetwork
          job,           \* where the service's job is
          rounds,        \* how many have begun
          seen,          \* the network a start has read
          core,          \* does boxService run?
          leaked,        \* does a core run that boxService is not?
          transport,     \* is LocalResolver registered with the core?
          query,         \* query[q]: where query q is
          orphaned,      \* orphaned[q]: is its core not boxService? (history)
          stale          \* has a race left an old network behind? (history)

system == <<sdk, default, changes>>
registry == <<callbackRegistered, registration, notices>>
actor == <<current, listening, network, pendingRequests, alive>>
service == <<job, rounds, seen, core, leaked, transport>>
queries == <<query, orphaned>>
monitorVars == <<system, registry, callback, fallback, channel, actor,
                 defaultNetwork, service, queries, stale>>

Optional == Networks \cup {Null}
Requesters == Queries \cup {Job}
Types == {"Start", "Get", "Stop", "Put", "Update", "Lost"}

\* A message says who sent it, a notice of which registration it is.
Notice == [type : {"Put", "Update", "Lost"}, network : Networks, from : Nat]
Message == Notice \cup [type : {"Start", "Get", "Stop"}, network : {Null},
                        from : Requesters]

ASSUME NullAssumption == Null \notin Message

MonitorTypeOK ==
  /\ sdk \in Versions /\ default \in Optional
  /\ changes \in 0 .. MaxChanges /\ rounds \in 0 .. MaxRounds
  /\ callbackRegistered \in BOOLEAN /\ registration \in Nat
  /\ notices \in Seq(Notice) /\ callback \in Notice \cup {Null}
  /\ fallback \in BOOLEAN
  /\ channel \in Seq(Message) /\ current \in Message \cup {Null}
  /\ listening \in BOOLEAN /\ network \in Optional
  /\ pendingRequests \subseteq Requesters
  /\ alive \in BOOLEAN
  /\ defaultNetwork \in Optional
  /\ job \in {"down", "start", "started", "await", "seen", "boot", "up",
              "close", "unset", "stop", "stopping"}
  /\ seen \in Optional
  /\ core \in BOOLEAN /\ leaked \in BOOLEAN /\ transport \in BOOLEAN
  /\ query \in [Queries -> {"idle", "get", "wait"}]
  /\ orphaned \in [Queries -> BOOLEAN]
  /\ stale \in BOOLEAN

MonitorInit ==
  /\ sdk \in Versions /\ default \in Optional /\ changes = 0
  /\ callbackRegistered = FALSE /\ registration = 0 /\ notices = <<>>
  /\ callback = Null /\ fallback = FALSE
  /\ channel = <<>> /\ current = Null
  /\ listening = FALSE /\ network = Null /\ pendingRequests = {}
  /\ alive = TRUE
  /\ defaultNetwork = Null
  /\ job = "down" /\ rounds = 0 /\ seen = Null
  /\ core = FALSE /\ leaked = FALSE /\ transport = FALSE
  /\ query = [q \in Queries |-> "idle"]
  /\ orphaned = [q \in Queries |-> FALSE]
  /\ stale = FALSE

-----------------------------------------------------------------------------
(* The system.                                                             *)

Announce(type, n) ==
  notices' = IF callbackRegistered
             THEN Append(notices, [type |-> type, network |-> n,
                                   from |-> registration])
             ELSE notices

\* A network is announced when it becomes the default one, and its loss only
\* when no other takes its place.
ChangeDefault(n) ==
  /\ changes < MaxChanges /\ n # default
  /\ default' = n /\ changes' = changes + 1
  /\ IF n = Null THEN Announce("Lost", default) ELSE Announce("Put", n)
  /\ UNCHANGED <<sdk, callbackRegistered, registration, callback, fallback,
                 channel, actor, defaultNetwork, service, queries, stale>>

ChangeCapabilities ==
  /\ changes < MaxChanges /\ default # Null /\ callbackRegistered
  /\ changes' = changes + 1
  /\ Announce("Update", default)
  /\ UNCHANGED <<sdk, default, callbackRegistered, registration, callback,
                 fallback, channel, actor, defaultNetwork, service, queries,
                 stale>>

\* A message is with its sender until the actor receives it.
Sent(froms) == \A i \in DOMAIN channel : channel[i].from \notin froms

CallbackThread == {i : i \in 1 .. registration}

RunCallback ==
  /\ callback = Null /\ Sent(CallbackThread)
  /\ notices # <<>>
  /\ callback' = Head(notices) /\ notices' = Tail(notices)
  /\ UNCHANGED <<system, callbackRegistered, registration, fallback, channel,
                 actor, defaultNetwork, service, queries, stale>>

\* onAvailable, onCapabilitiesChanged and onLost
SendNotice ==
  /\ callback # Null
  /\ channel' = Append(channel, callback) /\ callback' = Null
  /\ UNCHANGED <<system, registry, fallback, actor, defaultNetwork, service,
                 queries, stale>>

-----------------------------------------------------------------------------
(* DefaultNetworkListener.                                                 *)

Send(type, from) ==
  channel' = Append(channel, [type |-> type, network |-> Null, from |-> from])

Receive ==
  /\ current = Null /\ channel # <<>>
  /\ current' = Head(channel) /\ channel' = Tail(channel)
  /\ UNCHANGED <<system, registry, callback, fallback, listening, network,
                 pendingRequests, alive, defaultNetwork, service, queries,
                 stale>>

Handling(type) == current # Null /\ current.type = type
Handled == current' = Null

\* The call of a listener, which sets defaultNetwork.
Tell(n) == defaultNetwork' = n

\* The response of a Get goes to a query or to a start that waits.
Complete(requesters, n) ==
  /\ query' = [q \in Queries |-> IF q \in requesters THEN "idle" ELSE query[q]]
  /\ orphaned' = [q \in Queries |-> orphaned[q] /\ q \notin requesters]
  /\ IF Job \in requesters THEN job' = "seen" /\ seen' = n
                           ELSE UNCHANGED <<job, seen>>
  /\ UNCHANGED <<rounds, core, leaked, transport>>

\* Android 6 may refuse the registration; the system announces the network it
\* has to a callback that is registered.
Register ==
  /\ fallback' \in IF sdk = 23 THEN BOOLEAN ELSE {FALSE}
  /\ callbackRegistered' = ~fallback'
  /\ registration' = registration + 1
  /\ notices' = IF fallback' \/ default = Null THEN <<>>
                ELSE <<[type |-> "Put", network |-> default,
                        from |-> registration + 1]>>

\* What a start has set may be old before the actor registers.
HandleStart ==
  /\ Handling("Start") /\ Handled
  /\ IF listening THEN UNCHANGED <<registry, fallback>> ELSE Register
  /\ listening' = TRUE
  /\ IF network # Null THEN Tell(network) ELSE UNCHANGED defaultNetwork
  /\ stale' = \/ stale
              \/ /\ ~listening /\ defaultNetwork # default
                 /\ job \notin {"started", "seen"}
  /\ UNCHANGED <<system, callback, channel, network, pendingRequests, alive,
                 service, queries>>

\* check fails where there is no listener.
HandleGet ==
  /\ Handling("Get")
  /\ IF ~listening
     THEN /\ alive' = FALSE
          /\ UNCHANGED <<current, pendingRequests, service, queries>>
     ELSE /\ Handled
          /\ IF network = Null
             THEN /\ pendingRequests' = pendingRequests \cup {current.from}
                  /\ UNCHANGED <<service, queries>>
             ELSE /\ Complete({current.from}, network)
                  /\ UNCHANGED pendingRequests
          /\ UNCHANGED alive
  /\ UNCHANGED <<system, registry, callback, fallback, channel, listening,
                 network, defaultNetwork, stale>>

\* unregister drops what has been posted.
HandleStop ==
  /\ Handling("Stop") /\ Handled
  /\ listening' = FALSE
  /\ IF listening
     THEN network' = Null /\ callbackRegistered' = FALSE /\ notices' = <<>>
     ELSE UNCHANGED <<network, callbackRegistered, notices>>
  /\ UNCHANGED <<system, registration, callback, fallback, channel,
                 pendingRequests, alive, defaultNetwork, service, queries,
                 stale>>

\* Mutant: the requests that wait are dropped.
PutUnanswered ==
  /\ Handling("Put") /\ Handled
  /\ network' = current.network
  /\ pendingRequests' = {}
  /\ IF listening THEN Tell(current.network) ELSE UNCHANGED defaultNetwork
  /\ stale' = (~listening \/ current.from # registration)
  /\ UNCHANGED <<system, registry, callback, fallback, channel, listening,
                 alive, service, queries>>

\* A late one, of a registration that is over, leaves a network behind that
\* nothing will report lost.
HandlePut ==
  /\ Handling("Put") /\ Handled
  /\ network' = current.network
  /\ Complete(pendingRequests, current.network)
  /\ pendingRequests' = {}
  /\ IF listening THEN Tell(current.network) ELSE UNCHANGED defaultNetwork
  /\ stale' = (~listening \/ current.from # registration)
  /\ UNCHANGED <<system, registry, callback, fallback, channel, listening,
                 alive>>

HandleUpdate ==
  /\ Handling("Update") /\ Handled
  /\ IF network = current.network /\ listening THEN Tell(network)
                                               ELSE UNCHANGED defaultNetwork
  /\ UNCHANGED <<system, registry, callback, fallback, channel, listening,
                 network, pendingRequests, alive, service, queries, stale>>

\* Mutant: the loss is not passed on.
LostQuietly ==
  /\ Handling("Lost") /\ Handled
  /\ network' = IF network = current.network THEN Null ELSE network
  /\ UNCHANGED <<system, registry, callback, fallback, channel, listening,
                 pendingRequests, alive, defaultNetwork, service, queries,
                 stale>>

HandleLost ==
  /\ Handling("Lost") /\ Handled
  /\ IF network = current.network
     THEN /\ network' = Null
          /\ IF listening THEN Tell(Null) ELSE UNCHANGED defaultNetwork
     ELSE UNCHANGED <<network, defaultNetwork>>
  /\ UNCHANGED <<system, registry, callback, fallback, channel, listening,
                 pendingRequests, alive, service, queries, stale>>

Actor == \/ Receive \/ HandleStart \/ HandleGet \/ HandleStop \/ HandlePut
         \/ HandleUpdate \/ HandleLost

-----------------------------------------------------------------------------
(* The jobs of the service, with DefaultNetworkMonitor.start and stop.     *)

At(place) == job' = place
Elsewhere == UNCHANGED <<system, registry, callback, fallback, actor>>

\* What is still under way once its core has been closed is an orphan.
Close == /\ core' = FALSE
         /\ orphaned' = [q \in Queries |-> query[q] # "idle"]
         /\ UNCHANGED query

BeginStart ==
  /\ job = "down" /\ rounds < MaxRounds
  /\ At("start") /\ rounds' = rounds + 1
  /\ Elsewhere
  /\ UNCHANGED <<channel, defaultNetwork, seen, core, leaked, transport,
                 queries, stale>>

\* serviceReload closes the core and starts the monitor once more.
Reload ==
  /\ job = "up" /\ rounds < MaxRounds
  /\ At("start") /\ rounds' = rounds + 1
  /\ Close
  /\ Elsewhere
  /\ UNCHANGED <<channel, defaultNetwork, seen, leaked, transport, stale>>

SendStart ==
  /\ job = "start"
  /\ Send("Start", Job) /\ At("started")
  /\ Elsewhere
  /\ UNCHANGED <<defaultNetwork, rounds, seen, core, leaked, transport,
                 queries, stale>>

\* From Android 6 on the system is asked for its network, before that the actor.
ReadActive ==
  /\ job = "started" /\ Sent({Job})
  /\ IF sdk >= 23
     THEN At("seen") /\ seen' = default /\ UNCHANGED channel
     ELSE At("await") /\ Send("Get", Job) /\ UNCHANGED seen
  /\ Elsewhere
  /\ UNCHANGED <<defaultNetwork, rounds, core, leaked, transport, queries,
                 stale>>

\* What it said replaces what a listener has been told meanwhile.
SetDefault ==
  /\ job = "seen" /\ At("boot")
  /\ defaultNetwork' = seen
  /\ stale' = (stale \/ seen # default)
  /\ Elsewhere
  /\ UNCHANGED <<channel, rounds, seen, core, leaked, transport, queries>>

\* The resolver is registered and the core started; a job that fails leaves
\* the monitor started, and after newService.start also the core.
Boot ==
  /\ job = "boot"
  /\ transport' = TRUE
  /\ \/ At("up") /\ core' = TRUE /\ UNCHANGED leaked
     \/ At("down") /\ leaked' \in {leaked, TRUE} /\ UNCHANGED core
  /\ Elsewhere
  /\ UNCHANGED <<channel, defaultNetwork, rounds, seen, queries, stale>>

BeginStop ==
  /\ job = "up" /\ At("close")
  /\ Elsewhere
  /\ UNCHANGED <<channel, defaultNetwork, rounds, seen, core, leaked,
                 transport, queries, stale>>

\* Mutant: the core is left running until the process ends.
LeaveCore ==
  /\ job = "close" /\ At("unset")
  /\ Elsewhere
  /\ UNCHANGED <<channel, defaultNetwork, rounds, seen, core, leaked,
                 transport, queries, stale>>

CloseCore ==
  /\ job = "close" /\ At("unset")
  /\ Close
  /\ Elsewhere
  /\ UNCHANGED <<channel, defaultNetwork, rounds, seen, leaked, transport,
                 stale>>

UnsetTransport ==
  /\ job = "unset" /\ At("stop")
  /\ transport' = FALSE
  /\ Elsewhere
  /\ UNCHANGED <<channel, defaultNetwork, rounds, seen, core, leaked, queries,
                 stale>>

SendStop ==
  /\ job = "stop"
  /\ Send("Stop", Job) /\ At("stopping")
  /\ Elsewhere
  /\ UNCHANGED <<defaultNetwork, rounds, seen, core, leaked, transport,
                 queries, stale>>

FinishStop ==
  /\ job = "stopping" /\ Sent({Job}) /\ At("down")
  /\ Elsewhere
  /\ UNCHANGED <<channel, defaultNetwork, rounds, seen, core, leaked,
                 transport, queries, stale>>

Continue == \/ SendStart \/ ReadActive \/ SetDefault \/ Boot \/ CloseCore
            \/ UnsetTransport \/ SendStop \/ FinishStop

-----------------------------------------------------------------------------
(* exchange and lookup of LocalResolver: require.                          *)

\* Where there is a default network, a query does not ask the actor.
Require(q) ==
  /\ query[q] = "idle" /\ transport
  /\ \/ core /\ orphaned' = orphaned
     \/ leaked /\ orphaned' = [orphaned EXCEPT ![q] = TRUE]
  /\ defaultNetwork = Null
  /\ query' = [query EXCEPT ![q] = "get"]
  /\ Elsewhere
  /\ UNCHANGED <<channel, defaultNetwork, service, stale>>

\* Where the registration was refused, the system is asked instead.
Get(q) ==
  /\ query[q] = "get"
  /\ IF fallback
     THEN /\ query' = [query EXCEPT ![q] = "idle"]
          /\ orphaned' = [orphaned EXCEPT ![q] = FALSE]
          /\ UNCHANGED channel
     ELSE /\ Send("Get", q)
          /\ query' = [query EXCEPT ![q] = "wait"]
          /\ UNCHANGED orphaned
  /\ Elsewhere
  /\ UNCHANGED <<defaultNetwork, service, stale>>

-----------------------------------------------------------------------------
System == ChangeCapabilities \/ \E n \in Optional : ChangeDefault(n)

MonitorNext ==
  /\ alive
  /\ \/ System \/ RunCallback \/ SendNotice \/ Actor
     \/ BeginStart \/ Reload \/ BeginStop \/ Continue
     \/ \E q \in Queries : Require(q) \/ Get(q)

\* The callback thread, the actor and the coroutines are scheduled.
MonitorFairness ==
  /\ WF_monitorVars(alive /\ RunCallback)
  /\ WF_monitorVars(alive /\ SendNotice)
  /\ WF_monitorVars(alive /\ Actor)
  /\ WF_monitorVars(alive /\ Continue)
  /\ \A q \in Queries : WF_monitorVars(alive /\ Get(q))

MonitorSpec == MonitorInit /\ [][MonitorNext]_monitorVars /\ MonitorFairness

-----------------------------------------------------------------------------
(* Properties                                                              *)

\* The actor, and the process with it, dies only of a query that has outlived
\* its core: a core that is boxService finds the monitor listening whenever
\* its queries ask, because the service closes it before it stops the monitor.
ActorLives == ~alive => /\ current.from \in Queries
                        /\ orphaned[current.from]

Settled == /\ channel = <<>> /\ current = Null
           /\ callback = Null /\ notices = <<>>
           /\ job \in {"down", "up"}

\* Once everything has been handled, the network queries are sent over is the
\* system's, unless a start read it before a change it was told of, or an
\* announcement of an earlier registration came late.
Fresh == Settled /\ listening /\ ~fallback /\ ~stale
           => defaultNetwork = default /\ network = default

\* A query that waits gets the network that comes, though it comes after the
\* monitor was stopped and started again.
GetsAnswered ==
  \A q \in Queries :
    query[q] = "wait" ~> \/ query[q] # "wait"
                         \/ default = Null \/ ~listening \/ fallback
                         \/ ~alive
==============================================================================
