---------------------------- MODULE MessagePort ----------------------------
(***************************************************************************)
(* The way from the Go core to Dart: the function table of the Dart VM     *)
(* (dart_api_dl.c), the message port (clashcore/lib.go) and what travels   *)
(* over it, the answers of actions and the log (hub.go).                   *)
(*                                                                         *)
(* An action runs on a goroutine of its own, so startLog and stopLog may   *)
(* overlap; handleStartLog and handleStopLog share logSubscriber and take  *)
(* no lock.  A start call, the subscription it makes and the goroutine it  *)
(* spawns have one identity, the element of Starters.                      *)
(*                                                                         *)
(* The log source is the core's observable, which is not under src/: it    *)
(* hands an event to the buffer of every subscription, one after another,  *)
(* with its mutex held, and waits where a buffer is full.                  *)
(***************************************************************************)
EXTENDS Naturals, Sequences

CONSTANTS Starters,      \* the calls of startLog
          Stoppers,      \* the calls of stopLog
          Ports,         \* the ports Dart ever opens
          Symbols,       \* DART_API_ALL_DL_SYMBOLS
          PostCObject,   \* the one of them the core calls
          MajorVersion,  \* DART_API_DL_MAJOR_VERSION
          VMs,           \* the Dart VMs to check
          MaxEvents,     \* bound: how many events are logged
          Capacity,      \* the size of a subscription's buffer
          None

Calls == Starters \cup Stoppers
Events == 1 .. MaxEvents

\* What a Dart VM hands over: its version and the functions it has.
DartApi == [major : Nat, functions : SUBSET Symbols]

ASSUME CallsAssumption == /\ Starters \cap Stoppers = {} /\ None \notin Calls
                          /\ Calls \cap Events = {}
ASSUME PortsAssumption == None \notin Ports
ASSUME SymbolsAssumption == PostCObject \in Symbols
ASSUME VMsAssumption == VMs \subseteq DartApi
ASSUME BoundsAssumption == MaxEvents \in Nat /\ Capacity \in Nat \ {0}

VARIABLES vm,            \* the Dart VM the core is loaded into
          pointers,      \* pointers[s]: is name##_DL set?
          crashed,       \* has the process gone down?
          initialised,   \* has initNativeApiBridge returned?
          messagePort,   \* the port of messages, or None for -1
          open,          \* the ports that are open in Dart
          logSubscriber, \* the global subscription, or None for nil
          listeners,     \* the subscriptions the source knows
          buffer,        \* buffer[s]: events in the channel of s
          logged,        \* how many events have been logged
          pending,       \* the subscriptions an event has still to reach
          emitting,      \* does the source hold its mutex, handing one out?
          pc,            \* pc[c]: where call c is
          reader,        \* reader[s]: where the goroutine of start s is
          channel,       \* channel[s]: the subscription it ranges over
          item,          \* item[s]: the event it has in hand
          received,      \* received[m]: how often Dart has received m
          overlapped     \* has a log call met another one? (history)

bridge == <<vm, pointers, crashed, initialised>>
ports == <<messagePort, open>>
source == <<listeners, buffer, logged, pending, emitting>>
readers == <<reader, channel, item>>
vars == <<bridge, ports, logSubscriber, source, pc, readers, received,
          overlapped>>

\* What travels: a log event or the answer of a call, each as a string.
Dart_CObject == Events \cup Calls

TypeOK ==
  /\ vm \in VMs
  /\ pointers \in [Symbols -> BOOLEAN]
  /\ crashed \in BOOLEAN /\ initialised \in BOOLEAN
  /\ messagePort \in Ports \cup {None}
  /\ open \subseteq Ports
  /\ logSubscriber \in Starters \cup {None}
  /\ listeners \subseteq Starters /\ pending \subseteq Starters
  /\ buffer \in [Starters -> Seq(Events)]
  /\ logged \in 0 .. MaxEvents
  /\ emitting \in BOOLEAN
  /\ pc \in [Calls -> {"idle", "test", "unsubscribe", "clear", "subscribe",
                       "assign", "answer", "done"}]
  /\ reader \in [Starters -> {"none", "spawned", "ranging", "check", "post",
                              "ended"}]
  /\ channel \in [Starters -> Starters \cup {None}]
  /\ item \in [Starters -> 0 .. MaxEvents]
  /\ received \in [Dart_CObject -> Nat]
  /\ overlapped \in BOOLEAN

Init == /\ vm \in VMs
        /\ pointers = [s \in Symbols |-> FALSE]
        /\ crashed = FALSE
        /\ initialised = FALSE
        /\ messagePort = None
        /\ open = Ports
        /\ logSubscriber = None
        /\ listeners = {}
        /\ buffer = [s \in Starters |-> <<>>]
        /\ logged = 0
        /\ pending = {}
        /\ emitting = FALSE
        /\ pc = [c \in Calls |-> "idle"]
        /\ reader = [s \in Starters |-> "none"]
        /\ channel = [s \in Starters |-> None]
        /\ item = [s \in Starters |-> 0]
        /\ received = [m \in Dart_CObject |-> 0]
        /\ overlapped = FALSE

Goto(c, p) == pc' = [pc EXCEPT ![c] = p]

-----------------------------------------------------------------------------
(* The function table of the VM.                                           *)

\* Mutant: the last name of the table is missed.
FindButLast(functions, name) == name \in functions /\ functions # {name}

FindFunctionPointer(functions, name) == name \in functions

\* A VM of another major version is refused, and InitDartApi panics; names
\* that a VM does not have leave their pointers NULL.
Dart_InitializeApiDL ==
  /\ IF vm.major = MajorVersion
     THEN /\ pointers' = [s \in Symbols |-> FindFunctionPointer(vm.functions, s)]
          /\ initialised' = TRUE
          /\ UNCHANGED crashed
     ELSE /\ crashed' = TRUE
          /\ UNCHANGED <<pointers, initialised>>
  /\ UNCHANGED <<vm, ports, logSubscriber, source, pc, readers,
                 received, overlapped>>

\* SendToPort calls through the pointer, NULL or not.  A port that has been
\* closed takes nothing, and nobody looks at the result.
SendToPort(port, msg) ==
  /\ IF pointers[PostCObject]
     THEN /\ received' = [received EXCEPT ![msg] =
                            IF port \in open THEN @ + 1 ELSE @]
          /\ UNCHANGED crashed
     ELSE /\ crashed' = TRUE
          /\ UNCHANGED received
  /\ UNCHANGED <<vm, pointers, initialised>>

-----------------------------------------------------------------------------
(* Dart.                                                                   *)

AttachMessagePort == /\ \E p \in Ports : messagePort' = p
                     /\ UNCHANGED <<bridge, open, logSubscriber, source, pc,
                                    readers, received, overlapped>>

ClosePort == /\ \E p \in open : open' = open \ {p}
             /\ UNCHANGED <<bridge, messagePort, logSubscriber, source, pc,
                            readers, received, overlapped>>

InFlight(c) == pc[c] \notin {"idle", "done"}

\* invokeAction parses the parameters and spawns handleAction; parameters that
\* do not parse are answered at once.
InvokeAction(c) ==
  /\ pc[c] = "idle"
  /\ \/ /\ Goto(c, "test")
        /\ overlapped' = \/ overlapped
                         \/ \E d \in Calls : InFlight(d)
        /\ UNCHANGED <<bridge, received>>
     \/ /\ Goto(c, "done")
        /\ \E p \in Ports : SendToPort(p, c)
        /\ UNCHANGED overlapped
  /\ UNCHANGED <<ports, logSubscriber, source, readers>>

-----------------------------------------------------------------------------
(* handleStartLog and handleStopLog.                                       *)

\* The first thing both do is look at logSubscriber ...
TestSubscriber(c) ==
  /\ pc[c] = "test"
  /\ Goto(c, IF logSubscriber # None THEN "unsubscribe"
             ELSE IF c \in Starters THEN "subscribe" ELSE "answer")
  /\ UNCHANGED <<bridge, ports, logSubscriber, source, readers, received,
                 overlapped>>

\* Mutant: a subscription is forgotten and not given back.
ForgetSubscriber(c) ==
  /\ pc[c] = "unsubscribe"
  /\ Goto(c, "clear")
  /\ UNCHANGED <<bridge, ports, logSubscriber, source, readers, received,
                 overlapped>>

\* ... which they read again to unsubscribe: the source closes the channel.
UnSubscribe(c) ==
  /\ pc[c] = "unsubscribe"
  /\ ~emitting
  /\ listeners' = listeners \ {logSubscriber}
  /\ Goto(c, "clear")
  /\ UNCHANGED <<bridge, ports, logSubscriber, buffer, logged, pending,
                 emitting, readers, received, overlapped>>

ClearSubscriber(c) ==
  /\ pc[c] = "clear"
  /\ logSubscriber' = None
  /\ Goto(c, IF c \in Starters THEN "subscribe" ELSE "answer")
  /\ UNCHANGED <<bridge, ports, source, readers, received, overlapped>>

Subscribe(s) ==
  /\ pc[s] = "subscribe"
  /\ ~emitting
  /\ listeners' = listeners \cup {s}
  /\ Goto(s, "assign")
  /\ UNCHANGED <<bridge, ports, logSubscriber, buffer, logged, pending,
                 emitting, readers, received, overlapped>>

\* logSubscriber is set and the goroutine spawned.
Assign(s) ==
  /\ pc[s] = "assign"
  /\ logSubscriber' = s
  /\ reader' = [reader EXCEPT ![s] = "spawned"]
  /\ Goto(s, "answer")
  /\ UNCHANGED <<bridge, ports, source, channel, item, received, overlapped>>

\* result.success
Answer(c) == /\ pc[c] = "answer"
             /\ \E p \in Ports : SendToPort(p, c)
             /\ Goto(c, "done")
             /\ UNCHANGED <<ports, logSubscriber, source, readers, overlapped>>

-----------------------------------------------------------------------------
(* The goroutine of handleStartLog.                                        *)

\* The range expression is the global, read when the goroutine gets to it: a
\* nil channel blocks for ever.
BeginRange(s) ==
  /\ reader[s] = "spawned"
  /\ reader' = [reader EXCEPT ![s] = "ranging"]
  /\ channel' = [channel EXCEPT ![s] = logSubscriber]
  /\ UNCHANGED <<bridge, ports, logSubscriber, source, pc, item, received,
                 overlapped>>

\* An event below the log level goes no further.
Receive(s) ==
  /\ reader[s] = "ranging" /\ channel[s] # None
  /\ buffer[channel[s]] # <<>>
  /\ buffer' = [buffer EXCEPT ![channel[s]] = Tail(@)]
  /\ \/ /\ reader' = [reader EXCEPT ![s] = "check"]
        /\ item' = [item EXCEPT ![s] = Head(buffer[channel[s]])]
     \/ UNCHANGED <<reader, item>>
  /\ UNCHANGED <<bridge, ports, logSubscriber, listeners, logged, pending,
                 emitting, pc, channel, received, overlapped>>

\* A closed channel ends the range once it has been read empty.
RangeEnds(s) ==
  /\ reader[s] = "ranging" /\ channel[s] # None
  /\ buffer[channel[s]] = <<>> /\ channel[s] \notin listeners
  /\ reader' = [reader EXCEPT ![s] = "ended"]
  /\ UNCHANGED <<bridge, ports, logSubscriber, source, pc, channel, item,
                 received, overlapped>>

NextRound(s) == /\ reader' = [reader EXCEPT ![s] = "ranging"]
                /\ item' = [item EXCEPT ![s] = 0]

\* sendMessage drops what comes before a port is attached.
CheckPort(s) ==
  /\ reader[s] = "check"
  /\ \/ /\ messagePort # None
        /\ reader' = [reader EXCEPT ![s] = "post"]
        /\ UNCHANGED item
     \/ /\ messagePort = None
        /\ NextRound(s)
  /\ UNCHANGED <<bridge, ports, logSubscriber, source, pc, channel, received,
                 overlapped>>

PostMessage(s) ==
  /\ reader[s] = "post"
  /\ SendToPort(messagePort, item[s])
  /\ NextRound(s)
  /\ UNCHANGED <<ports, logSubscriber, source, pc, channel, overlapped>>

-----------------------------------------------------------------------------
(* The log source.                                                         *)

Log == /\ ~emitting /\ logged < MaxEvents
       /\ logged' = logged + 1
       /\ pending' = listeners
       /\ emitting' = TRUE
       /\ UNCHANGED <<bridge, ports, logSubscriber, listeners, buffer, pc,
                      readers, received, overlapped>>

Emit(s) == /\ s \in pending
           /\ Len(buffer[s]) < Capacity
           /\ buffer' = [buffer EXCEPT ![s] = Append(@, logged)]
           /\ pending' = pending \ {s}
           /\ UNCHANGED <<bridge, ports, logSubscriber, listeners, logged,
                          emitting, pc, readers, received, overlapped>>

Emitted == /\ emitting /\ pending = {}
           /\ emitting' = FALSE
           /\ UNCHANGED <<bridge, ports, logSubscriber, listeners, buffer,
                          logged, pending, pc, readers, received, overlapped>>

-----------------------------------------------------------------------------
Handler(c) == \/ TestSubscriber(c) \/ UnSubscribe(c) \/ ClearSubscriber(c)
              \/ Answer(c)
Start(s) == Subscribe(s) \/ Assign(s)
Reader(s) == \/ BeginRange(s) \/ Receive(s) \/ RangeEnds(s) \/ CheckPort(s)
             \/ PostMessage(s)
Hand == Emitted \/ \E s \in Starters : Emit(s)

Next == /\ ~crashed
        /\ \/ Dart_InitializeApiDL \/ AttachMessagePort \/ ClosePort
           \/ \E c \in Calls : InvokeAction(c) \/ Handler(c)
           \/ \E s \in Starters : Start(s) \/ Reader(s)
           \/ Log \/ Hand

\* Goroutines are scheduled, and the source goes on when it can.
Fairness == /\ \A c \in Calls : WF_vars(~crashed /\ Handler(c))
            /\ \A s \in Starters : /\ WF_vars(~crashed /\ Start(s))
                                   /\ WF_vars(~crashed /\ Reader(s))
            /\ WF_vars(~crashed /\ Hand)

Spec == Init /\ [][Next]_vars /\ Fairness

-----------------------------------------------------------------------------
(* Properties                                                              *)

\* As long as log calls wait for each other, the source has exactly the
\* subscription logSubscriber names whenever none is under way: nothing stays
\* subscribed after a stop, and a restart leaves the old subscription.
SubscriptionTracked ==
  ~overlapped /\ (\A c \in Calls : ~InFlight(c))
    => listeners = {logSubscriber} \ {None}

\* Nor does an event reach Dart twice, though a goroutine that comes late
\* ranges over the subscription of a later start together with that one's.
DeliveredOnce == ~overlapped => \A e \in Events : received[e] <= 1

\* Nor does the log ever stop: every open subscription is read, whenever its
\* goroutine comes to read the global, whether or not Dart listens.  A full
\* buffer would hold up whoever logs in the whole core.
LogFlows == emitting ~> ~emitting \/ overlapped \/ crashed

\* What brings the process down is a Dart VM of another version, one without
\* Dart_PostCObject, or a message before initNativeApiBridge, nothing else.
BridgeSafe ==
  crashed => \/ vm.major # MajorVersion
             \/ PostCObject \notin vm.functions
             \/ ~initialised
==============================================================================
