------------------------- MODULE MessagePortProofs -------------------------
(***************************************************************************)
(* MessagePort proved for every number of log calls, ports and events, and *)
(* every Dart VM.  While log calls wait for each other the one under way   *)
(* is the only one, and its place says how the source's subscriptions and  *)
(* logSubscriber are apart.  From it follow where each event is and, last, *)
(* who empties the buffer the source waits for.                            *)
(***************************************************************************)
EXTENDS MessagePort, SequenceTheorems, TLAPS

\* The source and the global agree.
Tracked == listeners = {logSubscriber} \ {None}

\* Where a call is says what has become of the subscription.
PlaceInv(c) ==
  /\ pc[c] \in {"test", "unsubscribe", "answer"} => Tracked
  /\ pc[c] = "unsubscribe" => logSubscriber # None
  /\ pc[c] \in {"clear", "subscribe"} => listeners = {}
  /\ pc[c] = "assign" => listeners = {c}
  /\ pc[c] \in {"subscribe", "assign"} => logSubscriber = None

\* Without an overlap at most one call is under way.
CallsInv ==
  ~overlapped => /\ \A c, d \in Calls : InFlight(c) /\ InFlight(d) => c = d
                 /\ \A c \in Calls : InFlight(c) => PlaceInv(c)
                 /\ (\A c \in Calls : ~InFlight(c)) => Tracked

\* Once initialised, the pointer the core uses is set if the VM has it.
PointersInv ==
  /\ initialised => /\ vm.major = MajorVersion
                    /\ PostCObject \in vm.functions => pointers[PostCObject]
  /\ BridgeSafe

\* A subscription belongs to a start, an item is an event, a goroutine that
\* posts has seen a port.
ReaderInv ==
  /\ \A s \in Starters : reader[s] \in {"check", "post"} => item[s] \in Events
  /\ \A s \in Starters : reader[s] = "post" => messagePort \in Ports
  /\ \A s \in Calls : pc[s] \in {"subscribe", "assign"} => s \in Starters
  /\ emitting => logged \in Events
  /\ pending # {} => emitting

IInv == TypeOK /\ CallsInv /\ PointersInv /\ ReaderInv

USE CallsAssumption, PortsAssumption, SymbolsAssumption, BoundsAssumption
    DEF IInv, vars, bridge, ports, source, readers, Calls, Goto, InFlight

-----------------------------------------------------------------------------
(* Each action preserves the invariant.                                    *)

\* SendToPort counts a message or brings the process down.
LEMMA SendFact ==
  ASSUME IInv, NEW port, NEW msg \in Dart_CObject, SendToPort(port, msg)
  PROVE  /\ received' \in [Dart_CObject -> Nat]
         /\ crashed' \in BOOLEAN
         /\ UNCHANGED <<vm, pointers, initialised>>
         /\ PointersInv'
<1> USE DEF SendToPort, TypeOK
<1>1. received' \in [Dart_CObject -> Nat] /\ crashed' \in BOOLEAN
  <2>1. received \in [Dart_CObject -> Nat] /\ crashed \in BOOLEAN
    OBVIOUS
  <2>2. /\ crashed' \in {crashed, TRUE}
        /\ \/ received' = received
           \/ received' = [received EXCEPT ![msg] = received[msg] + 1]
           \/ received' = [received EXCEPT ![msg] = received[msg]]
    OBVIOUS
  <2>3. received[msg] + 1 \in Nat /\ received[msg] \in Nat
    BY <2>1
  <2> HIDE DEF IInv, TypeOK, SendToPort
  <2>4. received' \in [Dart_CObject -> Nat]
    BY <2>1, <2>2, <2>3
  <2>5. crashed' \in BOOLEAN
    BY <2>1, <2>2
  <2> QED
    BY <2>4, <2>5
<1>2. PointersInv'
  BY DEF PointersInv, BridgeSafe
<1> QED
  BY <1>1, <1>2

\* The table of the VM is read into the pointers.
LEMMA InitializeInv == ASSUME IInv, ~crashed, Dart_InitializeApiDL PROVE IInv'
<1> USE DEF Dart_InitializeApiDL
<1>1. TypeOK'
  <2>1. \A s \in Symbols : FindFunctionPointer(vm.functions, s) \in BOOLEAN
    <3> TAKE s \in Symbols
    <3>1. (s \in vm.functions) \in BOOLEAN
      OBVIOUS
    <3> QED
      BY <3>1 DEF FindFunctionPointer
  <2>2. pointers' \in [Symbols -> BOOLEAN]
    BY <2>1 DEF TypeOK
  <2> QED
    BY <2>2 DEF TypeOK
<1>2. CallsInv'
  BY DEF CallsInv, PlaceInv, Tracked
<1>3. PointersInv'
  <2>1. initialised' => vm.major = MajorVersion
    BY DEF PointersInv
  <2>2. initialised' /\ PostCObject \in vm.functions => pointers'[PostCObject]
    <3>1. PostCObject \in vm.functions
            => FindFunctionPointer(vm.functions, PostCObject)
      BY DEF FindFunctionPointer
    <3> QED
      BY <3>1 DEF PointersInv
  <2>3. BridgeSafe'
    BY DEF PointersInv, BridgeSafe
  <2> QED
    BY <2>1, <2>2, <2>3 DEF PointersInv
<1>4. ReaderInv'
  BY DEF ReaderInv
<1> QED
  BY <1>1, <1>2, <1>3, <1>4

\* Dart's ports are not the source's business.
LEMMA PortInv == ASSUME IInv, AttachMessagePort \/ ClosePort PROVE IInv'
<1> USE DEF AttachMessagePort, ClosePort
<1>1. TypeOK'
  BY DEF TypeOK
<1>2. CallsInv'
  BY DEF CallsInv, PlaceInv, Tracked
<1>3. PointersInv'
  BY DEF PointersInv, BridgeSafe
<1>4. ReaderInv'
  BY DEF ReaderInv, TypeOK
<1> QED
  BY <1>1, <1>2, <1>3, <1>4

\* A call that meets no other one begins with the subscription tracked.
LEMMA InvokeInv ==
  ASSUME NEW c \in Calls, IInv, InvokeAction(c) PROVE IInv'
<1>1. CASE UNCHANGED <<bridge, received>> /\ Goto(c, "test")
           /\ overlapped' = (overlapped \/ \E d \in Calls : InFlight(d))
  <2> USE <1>1 DEF InvokeAction
  <2>1. TypeOK'
    BY DEF TypeOK
  <2>2. CallsInv'
    BY DEF CallsInv, PlaceInv, Tracked, TypeOK
  <2>3. PointersInv' /\ ReaderInv'
    BY DEF PointersInv, BridgeSafe, ReaderInv, TypeOK
  <2> QED
    BY <2>1, <2>2, <2>3
<1>2. ASSUME NEW p \in Ports, SendToPort(p, c), Goto(c, "done"),
             UNCHANGED overlapped
      PROVE  IInv'
  <2> USE <1>2 DEF InvokeAction
  <2>1. /\ received' \in [Dart_CObject -> Nat] /\ crashed' \in BOOLEAN
        /\ UNCHANGED <<vm, pointers, initialised>> /\ PointersInv'
    BY SendFact DEF Dart_CObject
  <2>2. TypeOK'
    BY <2>1 DEF TypeOK
  <2>3. CallsInv' /\ ReaderInv'
    BY DEF CallsInv, PlaceInv, Tracked, TypeOK, ReaderInv
  <2> QED
    BY <2>1, <2>2, <2>3
<1> QED
  BY <1>1, <1>2 DEF InvokeAction

\* What a handler does to the subscription its next place says.
LEMMA HandlerInv ==
  ASSUME NEW c \in Calls, IInv,
         TestSubscriber(c) \/ UnSubscribe(c) \/ ClearSubscriber(c)
  PROVE  IInv'
<1> USE DEF TestSubscriber, UnSubscribe, ClearSubscriber
<1>1. TypeOK'
  BY DEF TypeOK
<1>2. CallsInv'
  <2>1. CASE TestSubscriber(c)
    BY <2>1 DEF CallsInv, PlaceInv, Tracked, TypeOK
  <2>2. CASE UnSubscribe(c)
    BY <2>2 DEF CallsInv, PlaceInv, Tracked, TypeOK
  <2>3. CASE ClearSubscriber(c)
    BY <2>3 DEF CallsInv, PlaceInv, Tracked, TypeOK
  <2> QED
    BY <2>1, <2>2, <2>3
<1>3. PointersInv'
  BY DEF PointersInv, BridgeSafe
<1>4. ReaderInv'
  BY DEF ReaderInv, TypeOK
<1> QED
  BY <1>1, <1>2, <1>3, <1>4

\* A start subscribes and then names its subscription.
LEMMA StartInv ==
  ASSUME NEW s \in Starters, IInv, Start(s) PROVE IInv'
<1> USE DEF Start, Subscribe, Assign
<1>1. TypeOK'
  BY DEF TypeOK
<1>2. CallsInv'
  <2>1. CASE Subscribe(s)
    BY <2>1 DEF CallsInv, PlaceInv, Tracked, TypeOK
  <2>2. CASE Assign(s)
    BY <2>2 DEF CallsInv, PlaceInv, Tracked, TypeOK
  <2> QED
    BY <2>1, <2>2
<1>3. PointersInv'
  BY DEF PointersInv, BridgeSafe
<1>4. ReaderInv'
  BY DEF ReaderInv, TypeOK
<1> QED
  BY <1>1, <1>2, <1>3, <1>4

\* An answered call is no longer under way.
LEMMA AnswerInv == ASSUME NEW c \in Calls, IInv, Answer(c) PROVE IInv'
<1> USE DEF Answer
<1>1. PICK p \in Ports : SendToPort(p, c)
  OBVIOUS
<1>2. /\ received' \in [Dart_CObject -> Nat] /\ crashed' \in BOOLEAN
      /\ UNCHANGED <<vm, pointers, initialised>> /\ PointersInv'
  BY <1>1, SendFact DEF Dart_CObject
<1>3. TypeOK'
  BY <1>2 DEF TypeOK
<1>4. CallsInv'
  BY DEF CallsInv, PlaceInv, Tracked, TypeOK
<1>5. ReaderInv'
  BY DEF ReaderInv, TypeOK
<1> QED
  BY <1>2, <1>3, <1>4, <1>5

\* A goroutine reads and never subscribes.
LEMMA ReadInv ==
  ASSUME NEW s \in Starters, IInv,
         BeginRange(s) \/ Receive(s) \/ RangeEnds(s) \/ CheckPort(s)
  PROVE  IInv'
<1> USE DEF BeginRange, Receive, RangeEnds, CheckPort, NextRound
<1>1. TypeOK' /\ ReaderInv'
  <2>1. CASE Receive(s)
    <3>1. channel[s] \in Starters /\ buffer[channel[s]] \in Seq(Events)
          /\ buffer[channel[s]] # <<>>
      BY <2>1 DEF TypeOK
    <3>2. /\ Head(buffer[channel[s]]) \in Events
          /\ Tail(buffer[channel[s]]) \in Seq(Events)
      BY <3>1, HeadTailProperties
    <3>3. buffer' \in [Starters -> Seq(Events)]
      BY <2>1, <3>1, <3>2 DEF TypeOK
    <3>4. /\ item' \in [Starters -> 0 .. MaxEvents]
          /\ reader' \in [Starters -> {"none", "spawned", "ranging", "check",
                                       "post", "ended"}]
      <4>1. CASE UNCHANGED <<reader, item>>
        BY <4>1 DEF TypeOK
      <4>2. CASE /\ reader' = [reader EXCEPT ![s] = "check"]
                 /\ item' = [item EXCEPT ![s] = Head(buffer[channel[s]])]
        <5>1. Head(buffer[channel[s]]) \in 0 .. MaxEvents
          BY <3>2 DEF Events
        <5> QED
          BY <4>2, <5>1 DEF TypeOK
      <4> QED
        BY <2>1, <4>1, <4>2
    <3>5. TypeOK'
      BY <2>1, <3>3, <3>4 DEF TypeOK
    <3>6. ReaderInv'
      BY <2>1, <3>2 DEF TypeOK, ReaderInv
    <3> QED
      BY <3>5, <3>6
  <2>2. CASE BeginRange(s)
    BY <2>2 DEF TypeOK, ReaderInv
  <2>3. CASE RangeEnds(s)
    BY <2>3 DEF TypeOK, ReaderInv
  <2>4. CASE CheckPort(s)
    <3>1. CASE messagePort # None
      <4>1. UNCHANGED item /\ reader' = [reader EXCEPT ![s] = "post"]
        BY <2>4, <3>1
      <4> QED
        BY <2>4, <4>1 DEF TypeOK, ReaderInv
    <3>2. CASE messagePort = None
      <4>1. item' = [item EXCEPT ![s] = 0]
            /\ reader' = [reader EXCEPT ![s] = "ranging"]
        BY <2>4, <3>2
      <4> QED
        BY <2>4, <4>1 DEF TypeOK, ReaderInv
    <3> QED
      BY <3>1, <3>2
  <2> QED
    BY <2>1, <2>2, <2>3, <2>4
<1>2. CallsInv'
  BY DEF CallsInv, PlaceInv, Tracked
<1>3. PointersInv'
  BY DEF PointersInv, BridgeSafe
<1> QED
  BY <1>1, <1>2, <1>3

\* Nor does it when it posts.
LEMMA PostMessageInv ==
  ASSUME NEW s \in Starters, IInv, PostMessage(s) PROVE IInv'
<1> USE DEF PostMessage, NextRound
<1>1. item[s] \in Dart_CObject
  BY DEF ReaderInv, Dart_CObject
<1>2. /\ received' \in [Dart_CObject -> Nat] /\ crashed' \in BOOLEAN
      /\ UNCHANGED <<vm, pointers, initialised>> /\ PointersInv'
  BY <1>1, SendFact
<1>3. TypeOK'
  BY <1>2 DEF TypeOK
<1>4. CallsInv'
  BY DEF CallsInv, PlaceInv, Tracked
<1>5. ReaderInv'
  BY DEF ReaderInv, TypeOK
<1> QED
  BY <1>2, <1>3, <1>4, <1>5

\* The source hands events out and leaves its subscriptions alone.
LEMMA SourceInv == ASSUME IInv, Log \/ Hand PROVE IInv'
<1> USE DEF Log, Hand, Emit, Emitted
<1>1. TypeOK' /\ ReaderInv'
  <2>1. ASSUME NEW s \in Starters, Emit(s) PROVE TypeOK' /\ ReaderInv'
    <3>1. emitting => logged \in Events
      BY DEF ReaderInv
    <3>2. emitting
      BY <2>1 DEF ReaderInv
    <3>3. Append(buffer[s], logged) \in Seq(Events)
      BY <2>1, <3>1, <3>2 DEF TypeOK
    <3> QED
      BY <2>1, <3>3 DEF TypeOK, ReaderInv
  <2>2. CASE Log
    BY <2>2 DEF TypeOK, ReaderInv, Events
  <2>3. CASE Emitted
    BY <2>3 DEF TypeOK, ReaderInv
  <2> QED
    BY <2>1, <2>2, <2>3
<1>2. CallsInv'
  BY DEF CallsInv, PlaceInv, Tracked
<1>3. PointersInv'
  BY DEF PointersInv, BridgeSafe
<1> QED
  BY <1>1, <1>2, <1>3

-----------------------------------------------------------------------------
LEMMA InitInv == Init => IInv
<1> SUFFICES ASSUME Init PROVE IInv
  OBVIOUS
<1> USE DEF Init
<1>1. TypeOK
  <2>1. <<>> \in Seq(Events)
    OBVIOUS
  <2>2. buffer \in [Starters -> Seq(Events)]
    BY <2>1
  <2>3. /\ pointers \in [Symbols -> BOOLEAN]
        /\ received \in [Dart_CObject -> Nat]
    OBVIOUS
  <2>4. open \subseteq Ports /\ vm \in VMs
    OBVIOUS
  <2>5. /\ pc \in [Calls -> {"idle", "test", "unsubscribe", "clear",
                            "subscribe", "assign", "answer", "done"}]
        /\ reader \in [Starters -> {"none", "spawned", "ranging", "check",
                                    "post", "ended"}]
    OBVIOUS
  <2>6. /\ channel \in [Starters -> Starters \cup {None}]
        /\ item \in [Starters -> 0 .. MaxEvents]
        /\ logged \in 0 .. MaxEvents
    OBVIOUS
  <2> QED
    BY <2>2, <2>3, <2>4, <2>5, <2>6 DEF TypeOK
<1>2. CallsInv /\ PointersInv /\ ReaderInv
  BY DEF CallsInv, Tracked, PointersInv, BridgeSafe, ReaderInv
<1> QED
  BY <1>1, <1>2

LEMMA NextInv == IInv /\ [Next]_vars => IInv'
<1> SUFFICES ASSUME IInv, [Next]_vars PROVE IInv'
  OBVIOUS
<1>1. ASSUME NEW c \in Calls, InvokeAction(c) \/ Handler(c) PROVE IInv'
  BY <1>1, InvokeInv, HandlerInv, AnswerInv DEF Handler
<1>2. ASSUME NEW s \in Starters, Start(s) \/ Reader(s) PROVE IInv'
  BY <1>2, StartInv, ReadInv, PostMessageInv DEF Reader
<1>3. CASE UNCHANGED vars
  BY <1>3 DEF TypeOK, CallsInv, PlaceInv, Tracked, PointersInv, BridgeSafe,
              ReaderInv
<1> QED
  BY <1>1, <1>2, <1>3, InitializeInv, PortInv, SourceInv DEF Next

LEMMA Invariant == Spec => []IInv
  BY InitInv, NextInv, PTL DEF Spec

-----------------------------------------------------------------------------
(* Where an event is.                                                      *)

\* An event that has been logged and does not wait to be put into a buffer.
HandedOut(e) == e <= logged /\ (pending # {} => e # logged)

InBuffer(e) == \E s \in Starters : \E i \in DOMAIN buffer[s] : buffer[s][i] = e

Holds(s, e) == reader[s] \in {"check", "post"} /\ item[s] = e

\* An event in a buffer has been handed out and is there once.
BufferInv ==
  /\ \A s, t \in Starters : \A i \in DOMAIN buffer[s], j \in DOMAIN buffer[t] :
       buffer[s][i] = buffer[t][j] => s = t /\ i = j
  /\ \A e \in Events : InBuffer(e) => HandedOut(e)

\* One that a goroutine has in hand is in no buffer and in no other hand.
HandInv ==
  \A e \in Events, s \in Starters :
    Holds(s, e) => /\ HandedOut(e) /\ ~InBuffer(e)
                   /\ \A t \in Starters : Holds(t, e) => s = t

\* One that Dart has received is nowhere else.
ReceivedInv ==
  \A e \in Events :
    received[e] # 0 => /\ received[e] = 1 /\ HandedOut(e) /\ ~InBuffer(e)
                       /\ \A s \in Starters : ~Holds(s, e)

EventInv ==
  ~overlapped =>
    pending \subseteq listeners /\ BufferInv /\ HandInv /\ ReceivedInv

\* There is one subscription, so the source puts an event into one buffer.
LEMMA OneListener ==
  ASSUME IInv, ~overlapped PROVE \A s, t \in listeners : s = t
<1>1. CASE \A c \in Calls : ~InFlight(c)
  BY <1>1 DEF CallsInv, Tracked
<1>2. ASSUME NEW c \in Calls, InFlight(c)
      PROVE  \A s, t \in listeners : s = t
  <2>1. PlaceInv(c) /\ pc[c] \in {"test", "unsubscribe", "clear", "subscribe",
                                  "assign", "answer"}
    BY <1>2 DEF CallsInv, TypeOK
  <2> QED
    BY <2>1 DEF PlaceInv, Tracked
<1> QED
  BY <1>1, <1>2

\* A step that leaves events where they are, or takes one out of a hand.
LEMMA EventsStay ==
  ASSUME IInv, EventInv, overlapped => overlapped',
         UNCHANGED <<buffer, logged>>, pending' = pending,
         pending' \subseteq listeners' \/ overlapped',
         ~overlapped' => \A e \in Events : received'[e] = received[e],
         \A s \in Starters, e \in Events : Holds(s, e)' => Holds(s, e)
  PROVE  EventInv'
<1> SUFFICES ASSUME ~overlapped' PROVE EventInv'
  BY DEF EventInv
<1>1. ~overlapped
  OBVIOUS
<1>2. BufferInv'
  BY <1>1 DEF EventInv, BufferInv, InBuffer, HandedOut
<1>3. HandInv'
  BY <1>1 DEF EventInv, HandInv, InBuffer, HandedOut
<1>4. ReceivedInv'
  BY <1>1 DEF EventInv, ReceivedInv, InBuffer, HandedOut
<1> QED
  BY <1>2, <1>3, <1>4 DEF EventInv

\* A message counted for a call is no event.
LEMMA AnswerCounts ==
  ASSUME IInv, NEW port, NEW c \in Calls, SendToPort(port, c)
  PROVE  \A e \in Events : received'[e] = received[e]
<1>1. received \in [Dart_CObject -> Nat]
  BY DEF TypeOK
<1> QED
  BY <1>1 DEF SendToPort, Dart_CObject

\* What the table, the ports and the handlers do is not about events.
LEMMA OthersEvent ==
  ASSUME IInv, EventInv,
         \/ Dart_InitializeApiDL \/ AttachMessagePort \/ ClosePort \/ Emitted
         \/ \E c \in Calls : InvokeAction(c) \/ Handler(c)
         \/ \E s \in Starters : \/ Start(s) \/ BeginRange(s) \/ RangeEnds(s)
                                \/ CheckPort(s)
         \/ UNCHANGED vars
  PROVE  EventInv'
<1>1. CASE Dart_InitializeApiDL \/ AttachMessagePort \/ ClosePort \/ Emitted
           \/ UNCHANGED vars
  BY <1>1, EventsStay DEF Dart_InitializeApiDL, AttachMessagePort, ClosePort,
     Emitted, EventInv, Holds
<1>2. ASSUME NEW c \in Calls, InvokeAction(c) PROVE EventInv'
  <2>1. \A e \in Events : received'[e] = received[e]
    BY <1>2, AnswerCounts DEF InvokeAction
  <2>2. overlapped => overlapped'
    <3>1. CASE UNCHANGED overlapped
      BY <3>1
    <3>2. CASE overlapped' = (overlapped \/ \E d \in Calls : InFlight(d))
      BY <3>2
    <3> QED
      BY <1>2, <3>1, <3>2 DEF InvokeAction
  <2>3. UNCHANGED <<source, readers>>
    BY <1>2 DEF InvokeAction
  <2>4. /\ UNCHANGED <<buffer, logged>> /\ pending' = pending
        /\ pending' \subseteq listeners' \/ overlapped'
        /\ \A s \in Starters, e \in Events : Holds(s, e)' => Holds(s, e)
    BY <2>2, <2>3 DEF EventInv, Holds
  <2> QED
    BY <2>1, <2>2, <2>4, EventsStay
<1>3. ASSUME NEW c \in Calls, Answer(c) PROVE EventInv'
  <2>1. \A e \in Events : received'[e] = received[e]
    BY <1>3, AnswerCounts DEF Answer
  <2> QED
    BY <1>3, <2>1, EventsStay DEF Answer, EventInv, Holds
<1>4. ASSUME NEW c \in Calls, UnSubscribe(c) PROVE EventInv'
  <2>1. pending = {}
    BY <1>4 DEF UnSubscribe, ReaderInv
  <2> QED
    BY <1>4, <2>1, EventsStay DEF UnSubscribe, Holds
<1>5. ASSUME NEW c \in Calls, TestSubscriber(c) \/ ClearSubscriber(c)
      PROVE  EventInv'
  BY <1>5, EventsStay DEF TestSubscriber, ClearSubscriber, EventInv, Holds
<1>6. ASSUME NEW s \in Starters, Start(s) PROVE EventInv'
  <2>1. \A t \in Starters, e \in Events : Holds(t, e)' => Holds(t, e)
    BY <1>6 DEF Start, Subscribe, Assign, Holds, TypeOK
  <2> QED
    BY <1>6, <2>1, EventsStay DEF Start, Subscribe, Assign, EventInv
<1>7. ASSUME NEW s \in Starters,
             BeginRange(s) \/ RangeEnds(s) \/ CheckPort(s)
      PROVE  EventInv'
  <2>1. \A t \in Starters, e \in Events : Holds(t, e)' => Holds(t, e)
    BY <1>7 DEF BeginRange, RangeEnds, CheckPort, NextRound, Holds, TypeOK
  <2> QED
    BY <1>7, <2>1, EventsStay DEF BeginRange, RangeEnds, CheckPort, EventInv
<1> QED
  BY <1>1, <1>2, <1>3, <1>4, <1>5, <1>6, <1>7 DEF Handler

\* Receiving takes an event out of its buffer, into a hand or away.
LEMMA ReceiveEvent ==
  ASSUME NEW s \in Starters, IInv, EventInv, Receive(s) PROVE EventInv'
<1> SUFFICES ASSUME ~overlapped' PROVE EventInv'
  BY DEF EventInv
<1> DEFINE b == buffer[channel[s]]
           h == Head(buffer[channel[s]])
<1>1. ~overlapped /\ UNCHANGED <<pending, listeners, logged, received>>
  BY DEF Receive
<1>2. channel[s] \in Starters /\ b \in Seq(Events) /\ b # <<>>
  BY DEF Receive, TypeOK
<1>3. /\ h \in Events /\ h = b[1] /\ 1 \in DOMAIN b
      /\ Tail(b) \in Seq(Events)
      /\ \A i \in DOMAIN Tail(b) : i + 1 \in DOMAIN b /\ Tail(b)[i] = b[i + 1]
                                   /\ i \in Nat \ {0}
  BY <1>2
<1>4. /\ buffer'[channel[s]] = Tail(b)
      /\ \A t \in Starters : t # channel[s] => buffer'[t] = buffer[t]
  BY <1>2 DEF Receive, TypeOK
<1>5. /\ \A t \in Starters \ {s}, e \in Events : Holds(t, e)' <=> Holds(t, e)
      /\ \A e \in Events : ~Holds(s, e)
      /\ \A e \in Events : Holds(s, e)' => e = h
  BY DEF Receive, Holds, TypeOK
<1> DEFINE old(t, i) == IF t = channel[s] THEN i + 1 ELSE i
<1>6. \A t \in Starters : \A i \in DOMAIN buffer'[t] :
        /\ i \in Nat \ {0} /\ old(t, i) \in DOMAIN buffer[t]
        /\ buffer'[t][i] = buffer[t][old(t, i)]
  <2> SUFFICES ASSUME NEW t \in Starters, NEW i \in DOMAIN buffer'[t]
               PROVE  /\ i \in Nat \ {0} /\ old(t, i) \in DOMAIN buffer[t]
                      /\ buffer'[t][i] = buffer[t][old(t, i)]
    OBVIOUS
  <2>1. CASE t = channel[s]
    BY <1>3, <1>4, <2>1
  <2>2. CASE t # channel[s]
    BY <1>4, <2>2 DEF TypeOK
  <2> QED
    BY <2>1, <2>2
<1>7. \A e \in Events : InBuffer(e)' => InBuffer(e)
  BY <1>6 DEF InBuffer
<1>8. InBuffer(h)
  BY <1>2, <1>3 DEF InBuffer
<1>9. \A e \in Events : e = h => ~InBuffer(e)'
  <2> SUFFICES ASSUME NEW t \in Starters, NEW i \in DOMAIN buffer'[t],
                      buffer'[t][i] = h
               PROVE  FALSE
    BY DEF InBuffer
  <2>1. buffer[t][old(t, i)] = buffer[channel[s]][1]
    BY <1>3, <1>6
  <2>2. t = channel[s] /\ old(t, i) = 1
    BY <1>1, <1>2, <1>3, <1>6, <2>1 DEF EventInv, BufferInv
  <2> QED
    BY <1>6, <2>2
<1>10. \A e \in Events : HandedOut(e)' <=> HandedOut(e)
  BY <1>1 DEF HandedOut
<1>11. BufferInv'
  <2>1. ASSUME NEW t \in Starters, NEW u \in Starters,
               NEW i \in DOMAIN buffer'[t], NEW j \in DOMAIN buffer'[u],
               buffer'[t][i] = buffer'[u][j]
        PROVE  t = u /\ i = j
    <3>1. t = u /\ old(t, i) = old(u, j)
      BY <1>1, <1>6, <2>1 DEF EventInv, BufferInv
    <3> QED
      BY <1>6, <3>1
  <2>2. \A e \in Events : InBuffer(e)' => HandedOut(e)'
    BY <1>1, <1>7, <1>10 DEF EventInv, BufferInv
  <2> HIDE DEF old, b, h
  <2> QED
    BY <2>1, <2>2 DEF BufferInv
<1> HIDE DEF old, b, h, IInv
<1>12. HandInv'
  BY <1>1, <1>3, <1>5, <1>7, <1>8, <1>9, <1>10 DEF EventInv, HandInv, BufferInv
<1>13. ReceivedInv'
  BY <1>1, <1>3, <1>5, <1>7, <1>8, <1>10 DEF EventInv, ReceivedInv
<1> QED
  BY <1>1, <1>11, <1>12, <1>13 DEF EventInv

\* Posting moves an event from a hand to Dart.
LEMMA PostEvent ==
  ASSUME NEW s \in Starters, IInv, EventInv, PostMessage(s) PROVE EventInv'
<1> SUFFICES ASSUME ~overlapped' PROVE EventInv'
  BY DEF EventInv
<1>1. /\ ~overlapped
      /\ UNCHANGED <<pending, listeners, logged, buffer>>
  BY DEF PostMessage
<1>2. item[s] \in Events /\ Holds(s, item[s])
  BY DEF PostMessage, ReaderInv, Holds
<1>3. \A t \in Starters, e \in Events : Holds(t, e)' <=> Holds(t, e) /\ t # s
  BY DEF PostMessage, NextRound, Holds, TypeOK
<1>4. \A e \in Events : /\ e # item[s] => received'[e] = received[e]
                        /\ received'[e] \in {received[e], received[e] + 1}
  <2>1. received \in [Dart_CObject -> Nat] /\ Events \subseteq Dart_CObject
    BY DEF TypeOK, Dart_CObject
  <2> QED
    BY <1>2, <2>1 DEF PostMessage, SendToPort
<1>5. \A e \in Events : /\ HandedOut(e)' <=> HandedOut(e)
                        /\ InBuffer(e)' <=> InBuffer(e)
  BY <1>1 DEF HandedOut, InBuffer
<1>6. received[item[s]] = 0
  BY <1>1, <1>2 DEF EventInv, ReceivedInv
<1> HIDE DEF IInv
<1>7. BufferInv'
  BY <1>1, <1>5 DEF EventInv, BufferInv
<1>8. HandInv'
  BY <1>1, <1>3, <1>5 DEF EventInv, HandInv
<1>9. ReceivedInv'
  <2> SUFFICES ASSUME NEW e \in Events, received'[e] # 0
               PROVE  /\ received'[e] = 1 /\ HandedOut(e)' /\ ~InBuffer(e)'
                      /\ \A t \in Starters : ~Holds(t, e)'
    BY DEF ReceivedInv
  <2>1. CASE e = item[s]
    BY <1>1, <1>2, <1>3, <1>4, <1>5, <1>6, <2>1 DEF EventInv, HandInv
  <2>2. CASE e # item[s]
    BY <1>1, <1>3, <1>4, <1>5, <2>2 DEF EventInv, ReceivedInv
  <2> QED
    BY <2>1, <2>2
<1> QED
  BY <1>1, <1>7, <1>8, <1>9 DEF EventInv

\* What is logged anew is nowhere yet.
LEMMA LogEvent == ASSUME IInv, EventInv, Log PROVE EventInv'
<1> SUFFICES ASSUME ~overlapped' PROVE EventInv'
  BY DEF EventInv
<1>1. /\ ~overlapped /\ pending' = listeners /\ pending = {}
      /\ UNCHANGED <<listeners, buffer, reader, item, received>>
      /\ logged \in Nat /\ logged' = logged + 1
  BY DEF Log, ReaderInv, TypeOK
<1>2. \A e \in Events : HandedOut(e) => HandedOut(e)'
  BY <1>1 DEF HandedOut, Events
<1>3. BufferInv' /\ HandInv' /\ ReceivedInv'
  BY <1>1, <1>2 DEF EventInv, BufferInv, HandInv, ReceivedInv, InBuffer, Holds
<1> QED
  BY <1>1, <1>3 DEF EventInv

\* The one subscription gets the event that waits.
LEMMA EmitEvent ==
  ASSUME NEW s \in Starters, IInv, EventInv, Emit(s) PROVE EventInv'
<1> SUFFICES ASSUME ~overlapped' PROVE EventInv'
  BY DEF EventInv
<1>1. /\ ~overlapped /\ s \in pending /\ pending' = pending \ {s}
      /\ UNCHANGED <<listeners, reader, item, received, logged>>
  BY DEF Emit
<1>2. pending \subseteq listeners /\ pending' = {}
  BY <1>1, OneListener DEF EventInv
<1>3. logged \in Events /\ buffer[s] \in Seq(Events)
  BY <1>1 DEF ReaderInv, TypeOK
<1>4. /\ buffer'[s] = Append(buffer[s], logged)
      /\ \A t \in Starters : t # s => buffer'[t] = buffer[t]
  BY DEF Emit, TypeOK
<1> DEFINE n == Len(buffer[s]) + 1
<1>5. /\ DOMAIN buffer'[s] = DOMAIN buffer[s] \cup {n}
      /\ n \notin DOMAIN buffer[s]
      /\ buffer'[s][n] = logged
      /\ \A i \in DOMAIN buffer[s] : buffer'[s][i] = buffer[s][i]
  BY <1>3, <1>4
<1>6. \A t \in Starters : \A i \in DOMAIN buffer'[t] :
        \/ i \in DOMAIN buffer[t] /\ buffer'[t][i] = buffer[t][i]
        \/ t = s /\ i = n /\ buffer'[t][i] = logged
  BY <1>4, <1>5
<1>7. ~HandedOut(logged)
  BY <1>1 DEF HandedOut
<1>8. /\ ~InBuffer(logged) /\ received[logged] = 0
      /\ \A t \in Starters : ~Holds(t, logged)
  BY <1>1, <1>3, <1>7 DEF EventInv, BufferInv, HandInv, ReceivedInv
<1>9. /\ \A e \in Events : HandedOut(e) => HandedOut(e)'
      /\ HandedOut(logged)'
  BY <1>1, <1>2, <1>3 DEF HandedOut, Events
<1>10. \A e \in Events : InBuffer(e)' => InBuffer(e) \/ e = logged
  BY <1>6 DEF InBuffer
<1>11. \A t \in Starters : \A i \in DOMAIN buffer[t] : buffer[t][i] # logged
  BY <1>8 DEF InBuffer
<1> HIDE DEF n, IInv
<1>12. BufferInv'
  <2>1. ASSUME NEW t \in Starters, NEW u \in Starters,
               NEW i \in DOMAIN buffer'[t], NEW j \in DOMAIN buffer'[u],
               buffer'[t][i] = buffer'[u][j]
        PROVE  t = u /\ i = j
    BY <1>1, <1>6, <1>11, <2>1 DEF EventInv, BufferInv
  <2>2. \A e \in Events : InBuffer(e)' => HandedOut(e)'
    BY <1>1, <1>9, <1>10 DEF EventInv, BufferInv
  <2> QED
    BY <2>1, <2>2 DEF BufferInv
<1>13. \A t \in Starters : \A e \in Events : Holds(t, e)' <=> Holds(t, e)
  BY <1>1 DEF Holds
<1>14. HandInv'
  BY <1>1, <1>8, <1>9, <1>10, <1>13 DEF EventInv, HandInv
<1>15. ReceivedInv'
  BY <1>1, <1>8, <1>9, <1>10, <1>13 DEF EventInv, ReceivedInv
<1> QED
  BY <1>2, <1>12, <1>14, <1>15 DEF EventInv

LEMMA EventInvariant == Spec => []EventInv
<1>1. Init => EventInv
  BY DEF Init, EventInv, BufferInv, HandInv, ReceivedInv, InBuffer, Holds,
         Dart_CObject
<1>2. IInv /\ EventInv /\ [Next]_vars => EventInv'
  <2> SUFFICES ASSUME IInv, EventInv, [Next]_vars PROVE EventInv'
    OBVIOUS
  <2> HIDE DEF IInv, vars
  <2> QED
    BY OthersEvent, ReceiveEvent, PostEvent, LogEvent, EmitEvent
       DEF Next, Hand, Reader
<1> QED
  BY <1>1, <1>2, Invariant, PTL DEF Spec

-----------------------------------------------------------------------------
(* The theorems.                                                           *)

\* Every variable of the bridge and of the log keeps its type.
THEOREM TypeCorrect == Spec => []TypeOK
<1>1. IInv => TypeOK
  OBVIOUS
<1> QED
  BY <1>1, Invariant, PTL

\* However starts and stops follow each other, the source has the one
\* subscription the core will give back.
THEOREM SubscriptionKept == Spec => []SubscriptionTracked
<1>1. IInv => SubscriptionTracked
  BY DEF CallsInv, Tracked, SubscriptionTracked
<1> QED
  BY <1>1, Invariant, PTL

\* A process goes down only of a VM it does not match or a message sent
\* before the bridge was initialised.
THEOREM BridgeHolds == Spec => []BridgeSafe
<1>1. IInv => BridgeSafe
  BY DEF PointersInv
<1> QED
  BY <1>1, Invariant, PTL

\* However goroutines share a channel, Dart gets an event at most once.
THEOREM EventsOnce == Spec => []DeliveredOnce
<1>1. EventInv => DeliveredOnce
  BY DEF EventInv, ReceivedInv, DeliveredOnce
<1> QED
  BY <1>1, EventInvariant, PTL

-----------------------------------------------------------------------------
(* What LogFlows rests on besides fairness: every subscription has its     *)
(* reader, so a full buffer never holds up the source for good.            *)

\* The goroutine of start s ranges over the subscription of s, or will.
Reads(s) == \/ pc[s] = "assign" \/ reader[s] = "spawned"
            \/ reader[s] \in {"ranging", "check", "post"} /\ channel[s] = s

\* The source hands out only to its subscriptions, and each of them is read.
ServedInv == /\ pending \subseteq listeners
             /\ ~overlapped => \A s \in listeners : Reads(s)

\* Goroutine s has a step: Reader(s) is enabled.
CanRead(s) == \/ reader[s] \in {"spawned", "check", "post"}
              \/ /\ reader[s] = "ranging" /\ channel[s] # None
                 /\ buffer[channel[s]] # <<>> \/ channel[s] \notin listeners

\* The source can hand its event to every subscription that still lacks it, or
\* the subscription's start has a step, or its goroutine.
SourceServed ==
  ~overlapped /\ emitting =>
    \A s \in pending : Len(buffer[s]) < Capacity \/ pc[s] = "assign" \/ CanRead(s)

\* While a subscription has a goroutine, the global names it.
LEMMA NamedWhileRead ==
  ASSUME IInv, ~overlapped, NEW s \in listeners, pc[s] # "assign"
  PROVE  logSubscriber = s
<1>1. CASE \A c \in Calls : ~InFlight(c)
  BY <1>1 DEF CallsInv, Tracked
<1>2. ASSUME NEW c \in Calls, InFlight(c) PROVE logSubscriber = s
  <2>1. PlaceInv(c)
    BY <1>2 DEF CallsInv
  <2>2. pc[c] \in {"test", "unsubscribe", "clear", "subscribe", "assign", "answer"}
    BY <1>2 DEF TypeOK
  <2> QED
    BY <2>1, <2>2 DEF PlaceInv, Tracked
<1> QED
  BY <1>1, <1>2

\* A log call keeps every subscription served.
LEMMA CallServed ==
  ASSUME IInv, ServedInv, NEW c \in Calls, InvokeAction(c) \/ Handler(c) PROVE ServedInv'
<1>1. CASE InvokeAction(c)
  <2>1. /\ \A s \in Starters : pc[s] = "assign" => pc'[s] = "assign"
        /\ overlapped => overlapped'
        /\ UNCHANGED <<source, readers>>
    BY <1>1 DEF InvokeAction, TypeOK
  <2> QED
    BY <2>1 DEF ServedInv, Reads, TypeOK
<1>2. CASE TestSubscriber(c)
  BY <1>2 DEF TestSubscriber, ServedInv, Reads, TypeOK
<1>3. CASE UnSubscribe(c)
  BY <1>3 DEF UnSubscribe, ServedInv, Reads, ReaderInv, TypeOK
<1>4. CASE ClearSubscriber(c)
  BY <1>4 DEF ClearSubscriber, ServedInv, Reads, TypeOK
<1>5. CASE Answer(c)
  BY <1>5 DEF Answer, ServedInv, Reads, TypeOK
<1> QED
  BY <1>1, <1>2, <1>3, <1>4, <1>5 DEF Handler

\* So does a start: there is no other subscription, and its own goroutine is
\* spawned in the step that names it.
LEMMA StartServed ==
  ASSUME IInv, ServedInv, NEW s \in Starters, Start(s) PROVE ServedInv'
<1>1. CASE Subscribe(s)
  BY <1>1 DEF Subscribe, ServedInv, Reads, TypeOK
<1>2. CASE Assign(s)
  <2>1. ~overlapped => listeners = {s}
    BY <1>2 DEF Assign, CallsInv, PlaceInv
  <2> QED
    BY <1>2, <2>1 DEF Assign, ServedInv, Reads, TypeOK
<1> QED
  BY <1>1, <1>2 DEF Start

\* A goroutine that comes to its range finds its own subscription, if that is
\* still open, and leaves it only when it is closed.
LEMMA ReaderServed ==
  ASSUME IInv, ServedInv, NEW d \in Starters, Reader(d) PROVE ServedInv'
<1>1. CASE BeginRange(d)
  <2>1. ~overlapped /\ d \in listeners /\ pc[d] # "assign" => logSubscriber = d
    BY NamedWhileRead
  <2> QED
    BY <1>1, <2>1 DEF BeginRange, ServedInv, Reads, TypeOK
<1>2. CASE Receive(d)
  BY <1>2 DEF Receive, ServedInv, Reads, TypeOK
<1>3. CASE RangeEnds(d)
  BY <1>3 DEF RangeEnds, ServedInv, Reads, TypeOK
<1>4. CASE CheckPort(d)
  BY <1>4 DEF CheckPort, NextRound, ServedInv, Reads, TypeOK
<1>5. CASE PostMessage(d)
  BY <1>5 DEF PostMessage, NextRound, ServedInv, Reads, TypeOK
<1> QED
  BY <1>1, <1>2, <1>3, <1>4, <1>5 DEF Reader

LEMMA ServedInvariant == Spec => []ServedInv
<1>1. Init => ServedInv
  BY DEF Init, ServedInv
<1>2. ASSUME IInv, ServedInv, [Next]_vars PROVE ServedInv'
  <2>1. CASE Dart_InitializeApiDL \/ AttachMessagePort \/ ClosePort
    BY <1>2, <2>1 DEF Dart_InitializeApiDL, AttachMessagePort, ClosePort, ServedInv, Reads
  <2>2. CASE Log
    BY <1>2, <2>2 DEF Log, ServedInv, Reads
  <2>3. CASE Hand
    BY <1>2, <2>3 DEF Hand, Emit, Emitted, ServedInv, Reads
  <2>4. CASE UNCHANGED vars
    BY <1>2, <2>4 DEF ServedInv, Reads
  <2> HIDE DEF IInv, vars
  <2> QED
    BY <1>2, <2>1, <2>2, <2>3, <2>4, CallServed, StartServed, ReaderServed DEF Next
<1> QED
  BY <1>1, <1>2, Invariant, PTL DEF Spec

\* However starts and stops follow each other, the goroutine of a start ranges
\* over that start's subscription as long as it is open, though it reads the
\* global to find it.
THEOREM SubscriptionsRead ==
  Spec => [](~overlapped => \A s \in listeners : Reads(s))
<1>1. ServedInv => (~overlapped => \A s \in listeners : Reads(s))
  BY DEF ServedInv
<1> QED
  BY <1>1, ServedInvariant, PTL

\* A full buffer never holds up the source for good: who is to empty it can.
THEOREM SourceNeverStuck == Spec => []SourceServed
<1>1. ASSUME IInv, ServedInv PROVE SourceServed
  <2> SUFFICES ASSUME ~overlapped, emitting, NEW s \in pending,
                      ~(Len(buffer[s]) < Capacity), pc[s] # "assign"
               PROVE  CanRead(s)
    BY DEF SourceServed
  <2>1. s \in Starters /\ buffer[s] \in Seq(Events)
    BY <1>1 DEF TypeOK
  <2>2. buffer[s] # <<>>
    <3>1. Len(buffer[s]) \in Nat /\ Len(buffer[s]) >= Capacity
      BY <2>1, LenProperties
    <3> QED
      BY <3>1
  <2>3. Reads(s)
    BY <1>1 DEF ServedInv
  <2>4. s # None
    BY <2>1
  <2> QED
    BY <2>2, <2>3, <2>4 DEF Reads, CanRead
<1> QED
  BY <1>1, Invariant, ServedInvariant, PTL
==============================================================================
