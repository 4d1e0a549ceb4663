------------------------ MODULE PanelPurchaseProofs ------------------------
(***************************************************************************)
(* Proofs about PanelPurchase, for any number of taps, orders and polls.   *)
(*                                                                         *)
(* That nothing found unpaid is left rests on what the server's orders     *)
(* can become (an order never gets unpaid again, and a new one is none     *)
(* that was listed) and on which of them a purchase has yet to cancel      *)
(* (CancelInv).  That a success is true and told once rests on which       *)
(* purchase has a dialog (DialogInv) and which a monitor and how many      *)
(* polls (MonitorInv).  That a purchase ends, on which of its orders it is *)
(* cancelling (TargetInv).                                                 *)
(***************************************************************************)
EXTENDS PanelPurchase, FiniteSetTheorems, SequenceTheorems, TLAPS

\* The server numbers its orders one after the other.
MadeInv == \E n \in 0 .. MaxOrders : Made = 1 .. n

\* Whatever was found unpaid is an order, and is settled or left to cancel.
Cancels(f) ==
  /\ reply[f] # None => pc[f] \in Asking /\ reply[f].orders \subseteq Made
  /\ unpaid[f] \subseteq Made /\ left[f] \subseteq Made
  /\ pc[f] = "cancel" =>
       /\ target[f] \in Made
       /\ reply[f] # None => reply[f].type \notin {"balance", "url"}
       /\ reply[f] # None /\ reply[f].type = "ok" => order[target[f]] # "unpaid"
       /\ \A o \in unpaid[f] : o \in left[f] \/ order[o] # "unpaid"
  /\ pc[f] \in {"create", "methods", "choose"} =>
       \A o \in unpaid[f] : order[o] # "unpaid"

CancelInv == \A f \in Flows : Cancels(f)

\* A dialog belongs to a purchase that waits for the user's choice.
DialogInv ==
  /\ \A i \in 1 .. Len(dialogs) : pc[dialogs[i]] = "choose"
  /\ \A i, j \in 1 .. Len(dialogs) : dialogs[i] = dialogs[j] => i = j

\* A payment is for the order of its dialog; a success has been told for an
\* order that is paid, and a poll still under way then began beside another.
Monitors(f) ==
  /\ pc[f] \in {"choose", "checkout", "watch"} => trade[f] \in Orders
  /\ pc[f] = "checkout" => target[f] = trade[f]
  /\ pc[f] = "checkout" /\ reply[f] # None /\ reply[f].type = "balance"
       => order[trade[f]] = "paid"
  /\ polls[f] > 0 => pc[f] \in {"watch", "done"} /\ trade[f] \in Orders
  /\ polls[f] <= ticks[f]
  /\ polls[f] > 1 => piled[f]
  /\ told[f] > 0 => /\ pc[f] \in {"watch", "done"}
                    /\ trade[f] \in Orders /\ order[trade[f]] = "paid"
                    /\ pc[f] = "watch" => complete[f]
                    /\ polls[f] > 0 => piled[f]
  /\ told[f] = 2 => piled[f]

MonitorInv == \A f \in Flows : Monitors(f)

\* The types in parts, as a step changes few of them.
RequestType == /\ attempt \in [Flows -> {1, 2}]
               /\ target \in [Flows -> Orders \cup {None}]
               /\ reply \in [Flows -> Answer \cup {None}]
PlaceType == pc \in [Flows -> Asking \cup {"idle", "choose", "watch", "done"}]
FoundType == /\ unpaid \in [Flows -> SUBSET Orders]
             /\ left \in [Flows -> SUBSET Orders]
ServerType == /\ order \in [Orders -> Statuses \cup {"none"}]
              /\ late \in Nat
              /\ signedIn \in BOOLEAN
              /\ tradeNo \in Orders \cup {None}
DialogType == /\ dialogs \in Seq(Flows)
              /\ trade \in [Flows -> Orders \cup {None}]
MonitorType == /\ ticks \in [Flows -> 0 .. MaxPolls]
               /\ complete \in [Flows -> BOOLEAN]
               /\ polls \in [Flows -> 0 .. MaxPolls]
               /\ told \in [Flows -> 0 .. 2]
               /\ piled \in [Flows -> BOOLEAN]

IInv == TypeOK /\ MadeInv /\ CancelInv /\ DialogInv /\ MonitorInv

Places == Asking \cup {"idle", "choose", "watch", "done"}

USE BoundsAssumption
    DEF IInv, server, request, monitor, found, Set, Send, Ask, Finish, Asking, Answers

-----------------------------------------------------------------------------
(* Facts several actions rest on.                                          *)

\* Before anything was bought.
LEMMA InitInv == Init => IInv
<1> SUFFICES ASSUME Init PROVE IInv
  OBVIOUS
<1> USE DEF Init
<1>1. TypeOK
  BY DEF TypeOK, Statuses
<1>2. MadeInv
  <2>1. Made = 1 .. 0
    BY DEF Made
  <2> QED
    BY <2>1 DEF MadeInv
<1>3. CancelInv
  BY DEF CancelInv, Cancels
<1>4. DialogInv
  BY DEF DialogInv
<1>5. MonitorInv
  BY DEF MonitorInv, Monitors
<1> QED
  BY <1>1, <1>2, <1>3, <1>4, <1>5

\* A request is sent, or a flow goes on without one: the types that concerns.
LEMMA SendTypes ==
  ASSUME TypeOK, NEW f, NEW place \in Places, NEW o \in Orders \cup {None},
         NEW number \in {1, 2}, Send(f, place, o, number)
  PROVE  RequestType' /\ PlaceType'
<1>1. RequestType'
  BY DEF RequestType, TypeOK
<1>2. PlaceType'
  BY DEF PlaceType, Places, TypeOK
<1> QED
  BY <1>1, <1>2

\* The dialogs stay, and so do the flows that wait for one.
LEMMA DialogsStay ==
  ASSUME TypeOK, DialogInv, NEW f \in Flows, pc[f] # "choose", UNCHANGED dialogs,
         \A g \in Flows : g # f => pc'[g] = pc[g]
  PROVE  DialogInv'
<1>1. \A i \in 1 .. Len(dialogs) : dialogs[i] \in Flows /\ dialogs[i] # f
  BY DEF DialogInv, TypeOK
<1> QED
  BY <1>1 DEF DialogInv

\* The topmost dialog is gone, and with it the flow that waited for it.
LEMMA DialogsPop ==
  ASSUME TypeOK, DialogInv, NEW f \in Flows, Top(f), Pop, pc' = [pc EXCEPT ![f] = pc'[f]]
  PROVE  DialogInv' /\ dialogs' \in Seq(Flows)
<1> DEFINE n == Len(dialogs)
<1>1. /\ n \in Nat /\ n > 0 /\ dialogs[n] = f
      /\ dialogs \in Seq(Flows)
  BY DEF TypeOK, Top
<1>2. n - 1 \in Nat /\ n - 1 <= Len(dialogs)
  BY <1>1
<1>3. dialogs' = SubSeq(dialogs, 1, n - 1)
  BY DEF Pop
<1>4. /\ dialogs' \in Seq(Flows) /\ Len(dialogs') = n - 1
      /\ \A i \in 1 .. n - 1 : dialogs'[i] = dialogs[i] /\ dialogs[i] \in Flows
  <2> HIDE DEF n
  <2>1. \A i \in 1 .. n - 1 : i \in 1 .. Len(dialogs)
    BY <1>2, <1>1
  <2>2. \A i \in 1 .. n - 1 : dialogs[i] \in Flows
    BY <2>1, <1>1
  <2> QED
    BY <1>1, <1>2, <1>3, <2>1, <2>2
<1>5. \A i \in 1 .. n - 1 : dialogs[i] # f /\ pc[dialogs[i]] = "choose"
  BY <1>1 DEF DialogInv
<1>6. \A g \in Flows : g # f => pc'[g] = pc[g]
  BY DEF TypeOK
<1>7. DialogInv'
  <2> SUFFICES /\ \A i \in 1 .. n - 1 : pc'[dialogs'[i]] = "choose"
               /\ \A i, j \in 1 .. n - 1 : dialogs'[i] = dialogs'[j] => i = j
    BY <1>4 DEF DialogInv
  <2>1. \A i \in 1 .. n - 1 : pc'[dialogs'[i]] = "choose"
    BY <1>4, <1>5, <1>6
  <2>2. \A i, j \in 1 .. n - 1 : dialogs'[i] = dialogs'[j] => i = j
    BY <1>1, <1>4 DEF DialogInv
  <2> QED
    BY <2>1, <2>2
<1> QED
  BY <1>4, <1>7

-----------------------------------------------------------------------------
(* The steps of a purchase.                                                *)

\* A request is given up, or sent once more.
LEMMA TimeoutInv == ASSUME IInv, NEW f \in Flows, Timeout(f) PROVE IInv'
<1> USE DEF Timeout, Retry
<1>1. TypeOK'
  <2> USE DEF TypeOK
  <2>1. RequestType' /\ PlaceType'
    <3> HIDE DEF Send
    <3>1. \E place \in Places, o \in Orders \cup {None}, number \in {1, 2} :
            Send(f, place, o, number)
      BY DEF Places, CancelInv, Cancels, Answer, MonitorInv, Monitors, DialogInv
    <3> QED
      BY <3>1, SendTypes
  <2>2. FoundType'
    BY DEF FoundType, Answer
  <2>3. ServerType'
    BY DEF ServerType, Answer
  <2>4. DialogType'
    BY DEF DialogType
  <2>5. MonitorType'
    BY DEF MonitorType
  <2> HIDE DEF TypeOK
  <2> QED
    BY <2>1, <2>2, <2>3, <2>4, <2>5
       DEF TypeOK, RequestType, PlaceType, FoundType, ServerType, DialogType, MonitorType
<1>2. MadeInv'
  BY DEF MadeInv, Made
<1>3. CancelInv'
  <2> SUFFICES ASSUME NEW g \in Flows PROVE Cancels(g)'
    BY DEF CancelInv
  <2>1. Cancels(g)
    BY DEF CancelInv
  <2>2. CASE g # f
    BY <2>1, <2>2 DEF Cancels, TypeOK, Answer, Made
  <2>3. CASE g = f
    BY <2>1, <2>3 DEF Cancels, TypeOK, Answer, Made
  <2> QED
    BY <2>2, <2>3
<1>4. DialogInv'
  <2>1. pc[f] # "choose" /\ \A g \in Flows : g # f => pc'[g] = pc[g]
    BY DEF CancelInv, Cancels, TypeOK
  <2> QED
    BY <2>1, DialogsStay
<1>5. MonitorInv'
  <2> SUFFICES ASSUME NEW g \in Flows PROVE Monitors(g)'
    BY DEF MonitorInv
  <2>1. Monitors(g)
    BY DEF MonitorInv
  <2>2. CASE g # f
    BY <2>1, <2>2 DEF Monitors, TypeOK, Answer
  <2>3. CASE g = f
    BY <2>1, <2>3 DEF Monitors, TypeOK, Answer
  <2> QED
    BY <2>2, <2>3
<1> QED
  BY <1>1, <1>2, <1>3, <1>4, <1>5

\* A request fails, or is sent once more.
LEMMA FailedInv == ASSUME IInv, NEW f \in Flows, Failed(f) PROVE IInv'
<1> USE DEF Failed, Retry
<1>1. TypeOK'
  <2> USE DEF TypeOK
  <2>1. RequestType' /\ PlaceType'
    <3> HIDE DEF Send
    <3>1. \E place \in Places, o \in Orders \cup {None}, number \in {1, 2} :
            Send(f, place, o, number)
      BY DEF Places, CancelInv, Cancels, Answer, MonitorInv, Monitors, DialogInv
    <3> QED
      BY <3>1, SendTypes
  <2>2. FoundType'
    BY DEF FoundType, Answer
  <2>3. ServerType'
    BY DEF ServerType, Answer
  <2>4. DialogType'
    BY DEF DialogType
  <2>5. MonitorType'
    BY DEF MonitorType
  <2> HIDE DEF TypeOK
  <2> QED
    BY <2>1, <2>2, <2>3, <2>4, <2>5
       DEF TypeOK, RequestType, PlaceType, FoundType, ServerType, DialogType, MonitorType
<1>2. MadeInv'
  BY DEF MadeInv, Made
<1>3. CancelInv'
  <2> SUFFICES ASSUME NEW g \in Flows PROVE Cancels(g)'
    BY DEF CancelInv
  <2>1. Cancels(g)
    BY DEF CancelInv
  <2>2. CASE g # f
    BY <2>1, <2>2 DEF Cancels, TypeOK, Answer, Made
  <2>3. CASE g = f
    BY <2>1, <2>3 DEF Cancels, TypeOK, Answer, Made
  <2> QED
    BY <2>2, <2>3
<1>4. DialogInv'
  <2>1. pc[f] # "choose" /\ \A g \in Flows : g # f => pc'[g] = pc[g]
    BY DEF CancelInv, Cancels, TypeOK
  <2> QED
    BY <2>1, DialogsStay
<1>5. MonitorInv'
  <2> SUFFICES ASSUME NEW g \in Flows PROVE Monitors(g)'
    BY DEF MonitorInv
  <2>1. Monitors(g)
    BY DEF MonitorInv
  <2>2. CASE g # f
    BY <2>1, <2>2 DEF Monitors, TypeOK, Answer
  <2>3. CASE g = f
    BY <2>1, <2>3 DEF Monitors, TypeOK, Answer
  <2> QED
    BY <2>2, <2>3
<1> QED
  BY <1>1, <1>2, <1>3, <1>4, <1>5

\* The button.
LEMMA SubscribeInv == ASSUME IInv, NEW f \in Flows, Subscribe(f) PROVE IInv'
<1> USE DEF Subscribe
<1>1. TypeOK'
  <2> USE DEF TypeOK
  <2>1. RequestType' /\ PlaceType'
    <3> HIDE DEF Send
    <3>1. \E place \in Places, o \in Orders \cup {None}, number \in {1, 2} :
            Send(f, place, o, number)
      BY DEF Places, CancelInv, Cancels, Answer, MonitorInv, Monitors, DialogInv
    <3> QED
      BY <3>1, SendTypes
  <2>2. FoundType'
    BY DEF FoundType, Answer
  <2>3. ServerType'
    BY DEF ServerType, Answer
  <2>4. DialogType'
    BY DEF DialogType
  <2>5. MonitorType'
    BY DEF MonitorType
  <2> HIDE DEF TypeOK
  <2> QED
    BY <2>1, <2>2, <2>3, <2>4, <2>5
       DEF TypeOK, RequestType, PlaceType, FoundType, ServerType, DialogType, MonitorType
<1>2. MadeInv'
  BY DEF MadeInv, Made
<1>3. CancelInv'
  <2> SUFFICES ASSUME NEW g \in Flows PROVE Cancels(g)'
    BY DEF CancelInv
  <2>1. Cancels(g)
    BY DEF CancelInv
  <2>2. CASE g # f
    BY <2>1, <2>2 DEF Cancels, TypeOK, Answer, Made
  <2>3. CASE g = f
    BY <2>1, <2>3 DEF Cancels, TypeOK, Answer, Made
  <2> QED
    BY <2>2, <2>3
<1>4. DialogInv'
  <2>1. pc[f] # "choose" /\ \A g \in Flows : g # f => pc'[g] = pc[g]
    BY DEF CancelInv, Cancels, TypeOK
  <2> QED
    BY <2>1, DialogsStay
<1>5. MonitorInv'
  <2> SUFFICES ASSUME NEW g \in Flows PROVE Monitors(g)'
    BY DEF MonitorInv
  <2>1. Monitors(g)
    BY DEF MonitorInv
  <2>2. CASE g # f
    BY <2>1, <2>2 DEF Monitors, TypeOK, Answer
  <2>3. CASE g = f
    BY <2>1, <2>3 DEF Monitors, TypeOK, Answer
  <2> QED
    BY <2>2, <2>3
<1> QED
  BY <1>1, <1>2, <1>3, <1>4, <1>5

\* The unpaid orders are there.
LEMMA FetchedInv == ASSUME IInv, NEW f \in Flows, Fetched(f) PROVE IInv'
<1> USE DEF Fetched, Proceed, Succeeded, Answered
<1>1. TypeOK'
  <2> USE DEF TypeOK
  <2>1. RequestType' /\ PlaceType'
    <3> HIDE DEF Send
    <3>1. \E place \in Places, o \in Orders \cup {None}, number \in {1, 2} :
            Send(f, place, o, number)
      BY DEF Places, CancelInv, Cancels, Answer, MonitorInv, Monitors, DialogInv
    <3> QED
      BY <3>1, SendTypes
  <2>2. FoundType'
    BY DEF FoundType, Answer
  <2>3. ServerType'
    BY DEF ServerType, Answer
  <2>4. DialogType'
    BY DEF DialogType
  <2>5. MonitorType'
    BY DEF MonitorType
  <2> HIDE DEF TypeOK
  <2> QED
    BY <2>1, <2>2, <2>3, <2>4, <2>5
       DEF TypeOK, RequestType, PlaceType, FoundType, ServerType, DialogType, MonitorType
<1>2. MadeInv'
  BY DEF MadeInv, Made
<1>3. CancelInv'
  <2> SUFFICES ASSUME NEW g \in Flows PROVE Cancels(g)'
    BY DEF CancelInv
  <2>1. Cancels(g)
    BY DEF CancelInv
  <2>2. CASE g # f
    BY <2>1, <2>2 DEF Cancels, TypeOK, Answer, Made
  <2>3. CASE g = f
    BY <2>1, <2>3 DEF Cancels, TypeOK, Answer, Made
  <2> QED
    BY <2>2, <2>3
<1>4. DialogInv'
  <2>1. pc[f] # "choose" /\ \A g \in Flows : g # f => pc'[g] = pc[g]
    BY DEF CancelInv, Cancels, TypeOK
  <2> QED
    BY <2>1, DialogsStay
<1>5. MonitorInv'
  <2> SUFFICES ASSUME NEW g \in Flows PROVE Monitors(g)'
    BY DEF MonitorInv
  <2>1. Monitors(g)
    BY DEF MonitorInv
  <2>2. CASE g # f
    BY <2>1, <2>2 DEF Monitors, TypeOK, Answer
  <2>3. CASE g = f
    BY <2>1, <2>3 DEF Monitors, TypeOK, Answer
  <2> QED
    BY <2>2, <2>3
<1> QED
  BY <1>1, <1>2, <1>3, <1>4, <1>5

\* An order has been cancelled, or not.
LEMMA CancelledInv == ASSUME IInv, NEW f \in Flows, Cancelled(f) PROVE IInv'
<1> USE DEF Cancelled, Proceed, Note, Succeeded, Answered
<1>1. TypeOK'
  <2> USE DEF TypeOK
  <2>1. RequestType' /\ PlaceType'
    <3> HIDE DEF Send
    <3>1. \E place \in Places, o \in Orders \cup {None}, number \in {1, 2} :
            Send(f, place, o, number)
      BY DEF Places, CancelInv, Cancels, Answer, MonitorInv, Monitors, DialogInv
    <3> QED
      BY <3>1, SendTypes
  <2>2. FoundType'
    BY DEF FoundType, Answer
  <2>3. ServerType'
    BY DEF ServerType, Answer
  <2>4. DialogType'
    BY DEF DialogType
  <2>5. MonitorType'
    BY DEF MonitorType
  <2> HIDE DEF TypeOK
  <2> QED
    BY <2>1, <2>2, <2>3, <2>4, <2>5
       DEF TypeOK, RequestType, PlaceType, FoundType, ServerType, DialogType, MonitorType
<1>2. MadeInv'
  BY DEF MadeInv, Made
<1>3. CancelInv'
  <2> SUFFICES ASSUME NEW g \in Flows PROVE Cancels(g)'
    BY DEF CancelInv
  <2>1. Cancels(g)
    BY DEF CancelInv
  <2>2. CASE g # f
    BY <2>1, <2>2 DEF Cancels, TypeOK, Answer, Made
  <2>3. CASE g = f
    BY <2>1, <2>3 DEF Cancels, TypeOK, Answer, Made
  <2> QED
    BY <2>2, <2>3
<1>4. DialogInv'
  <2>1. pc[f] # "choose" /\ \A g \in Flows : g # f => pc'[g] = pc[g]
    BY DEF CancelInv, Cancels, TypeOK
  <2> QED
    BY <2>1, DialogsStay
<1>5. MonitorInv'
  <2> SUFFICES ASSUME NEW g \in Flows PROVE Monitors(g)'
    BY DEF MonitorInv
  <2>1. Monitors(g)
    BY DEF MonitorInv
  <2>2. CASE g # f
    BY <2>1, <2>2 DEF Monitors, TypeOK, Answer
  <2>3. CASE g = f
    BY <2>1, <2>3 DEF Monitors, TypeOK, Answer
  <2> QED
    BY <2>2, <2>3
<1> QED
  BY <1>1, <1>2, <1>3, <1>4, <1>5

\* The order is there.
LEMMA CreatedInv == ASSUME IInv, NEW f \in Flows, Created(f) PROVE IInv'
<1> USE DEF Created, Succeeded, Answered
<1>1. TypeOK'
  <2> USE DEF TypeOK
  <2>1. RequestType' /\ PlaceType'
    <3> HIDE DEF Send
    <3>1. \E place \in Places, o \in Orders \cup {None}, number \in {1, 2} :
            Send(f, place, o, number)
      BY DEF Places, CancelInv, Cancels, Answer, MonitorInv, Monitors, DialogInv
    <3> QED
      BY <3>1, SendTypes
  <2>2. FoundType'
    BY DEF FoundType, Answer
  <2>3. ServerType'
    BY DEF ServerType, Answer
  <2>4. DialogType'
    BY DEF DialogType
  <2>5. MonitorType'
    BY DEF MonitorType
  <2> HIDE DEF TypeOK
  <2> QED
    BY <2>1, <2>2, <2>3, <2>4, <2>5
       DEF TypeOK, RequestType, PlaceType, FoundType, ServerType, DialogType, MonitorType
<1>2. MadeInv'
  BY DEF MadeInv, Made
<1>3. CancelInv'
  <2> SUFFICES ASSUME NEW g \in Flows PROVE Cancels(g)'
    BY DEF CancelInv
  <2>1. Cancels(g)
    BY DEF CancelInv
  <2>2. CASE g # f
    BY <2>1, <2>2 DEF Cancels, TypeOK, Answer, Made
  <2>3. CASE g = f
    BY <2>1, <2>3 DEF Cancels, TypeOK, Answer, Made
  <2> QED
    BY <2>2, <2>3
<1>4. DialogInv'
  <2>1. pc[f] # "choose" /\ \A g \in Flows : g # f => pc'[g] = pc[g]
    BY DEF CancelInv, Cancels, TypeOK
  <2> QED
    BY <2>1, DialogsStay
<1>5. MonitorInv'
  <2> SUFFICES ASSUME NEW g \in Flows PROVE Monitors(g)'
    BY DEF MonitorInv
  <2>1. Monitors(g)
    BY DEF MonitorInv
  <2>2. CASE g # f
    BY <2>1, <2>2 DEF Monitors, TypeOK, Answer
  <2>3. CASE g = f
    BY <2>1, <2>3 DEF Monitors, TypeOK, Answer
  <2> QED
    BY <2>2, <2>3
<1> QED
  BY <1>1, <1>2, <1>3, <1>4, <1>5

\* The payment dialog opens.
LEMMA ShowMethodsInv == ASSUME IInv, NEW f \in Flows, ShowMethods(f) PROVE IInv'
<1> USE DEF ShowMethods, Succeeded, Answered
<1>1. TypeOK'
  <2> USE DEF TypeOK
  <2>1. RequestType' /\ PlaceType'
    <3> HIDE DEF Send
    <3>1. \E place \in Places, o \in Orders \cup {None}, number \in {1, 2} :
            Send(f, place, o, number)
      BY DEF Places, CancelInv, Cancels, Answer, MonitorInv, Monitors, DialogInv
    <3> QED
      BY <3>1, SendTypes
  <2>2. FoundType'
    BY DEF FoundType, Answer
  <2>3. ServerType'
    BY DEF ServerType, Answer
  <2>4. DialogType'
    <3>1. CASE dialogs' = Append(dialogs, f) /\ trade' = [trade EXCEPT ![f] = tradeNo]
      BY <3>1 DEF DialogType
    <3>2. CASE UNCHANGED <<dialogs, trade>>
      BY <3>2 DEF DialogType
    <3> QED
      BY <3>1, <3>2
  <2>5. MonitorType'
    BY DEF MonitorType
  <2> HIDE DEF TypeOK
  <2> QED
    BY <2>1, <2>2, <2>3, <2>4, <2>5
       DEF TypeOK, RequestType, PlaceType, FoundType, ServerType, DialogType, MonitorType
<1>2. MadeInv'
  BY DEF MadeInv, Made
<1>3. CancelInv'
  <2> SUFFICES ASSUME NEW g \in Flows PROVE Cancels(g)'
    BY DEF CancelInv
  <2>1. Cancels(g)
    BY DEF CancelInv
  <2>2. CASE g # f
    BY <2>1, <2>2 DEF Cancels, TypeOK, Answer, Made
  <2>3. CASE g = f
    BY <2>1, <2>3 DEF Cancels, TypeOK, Answer, Made
  <2> QED
    BY <2>2, <2>3
<1>4. DialogInv'
  <2>1. CASE dialogs' = Append(dialogs, f) /\ pc' = [pc EXCEPT ![f] = "choose"]
    <3>1. /\ Len(dialogs) \in Nat /\ Len(dialogs') = Len(dialogs) + 1
          /\ \A i \in 1 .. Len(dialogs) : dialogs'[i] = dialogs[i] /\ dialogs[i] \in Flows
          /\ dialogs'[Len(dialogs) + 1] = f
      BY <2>1 DEF TypeOK
    <3>2. \A i \in 1 .. Len(dialogs) : dialogs[i] # f /\ pc[dialogs[i]] = "choose"
      BY DEF DialogInv
    <3>3. pc'[f] = "choose" /\ \A g \in Flows : g # f => pc'[g] = pc[g]
      BY <2>1 DEF TypeOK
    <3>4. \A i \in 1 .. Len(dialogs) : pc'[dialogs'[i]] = "choose" /\ dialogs'[i] # f
      BY <3>1, <3>2, <3>3
    <3>5. \A i \in 1 .. Len(dialogs') : i \in 1 .. Len(dialogs) \/ i = Len(dialogs) + 1
      BY <3>1
    <3>6. \A i \in 1 .. Len(dialogs') : pc'[dialogs'[i]] = "choose"
      BY <3>1, <3>3, <3>4, <3>5
    <3>7. \A i, j \in 1 .. Len(dialogs') : dialogs'[i] = dialogs'[j] => i = j
      BY <3>1, <3>4, <3>5 DEF DialogInv
    <3> QED
      BY <3>6, <3>7 DEF DialogInv
  <2>2. CASE UNCHANGED dialogs /\ pc' = [pc EXCEPT ![f] = "done"]
    BY <2>2, DialogsStay DEF TypeOK
  <2> QED
    BY <2>1, <2>2
<1>5. MonitorInv'
  <2> SUFFICES ASSUME NEW g \in Flows PROVE Monitors(g)'
    BY DEF MonitorInv
  <2>1. Monitors(g)
    BY DEF MonitorInv
  <2>2. CASE g # f
    BY <2>1, <2>2 DEF Monitors, TypeOK, Answer
  <2>3. CASE g = f
    BY <2>1, <2>3 DEF Monitors, TypeOK, Answer
  <2> QED
    BY <2>2, <2>3
<1> QED
  BY <1>1, <1>2, <1>3, <1>4, <1>5

\* The user chooses a method.
LEMMA ChooseInv == ASSUME IInv, NEW f \in Flows, Choose(f) PROVE IInv'
<1> USE DEF Choose
<1>1. TypeOK'
  <2> USE DEF TypeOK
  <2>1. RequestType' /\ PlaceType'
    <3> HIDE DEF Send
    <3>1. \E place \in Places, o \in Orders \cup {None}, number \in {1, 2} :
            Send(f, place, o, number)
      BY DEF Places, CancelInv, Cancels, Answer, MonitorInv, Monitors, DialogInv
    <3> QED
      BY <3>1, SendTypes
  <2>2. FoundType'
    <3>1. CASE signedIn
      BY <3>1 DEF FoundType
    <3>2. CASE ~signedIn
      <4>1. unpaid' = [unpaid EXCEPT ![f] = {}] /\ left' = [left EXCEPT ![f] = {}]
        BY <3>2
      <4> QED
        BY <4>1 DEF FoundType
    <3> QED
      BY <3>1, <3>2
  <2>3. ServerType'
    BY DEF ServerType, Answer
  <2>4. DialogType'
    <3>1. pc' = [pc EXCEPT ![f] = pc'[f]]
      OBVIOUS
    <3> QED
      BY <3>1, DialogsPop DEF DialogType
  <2>5. MonitorType'
    BY DEF MonitorType
  <2> HIDE DEF TypeOK
  <2> QED
    BY <2>1, <2>2, <2>3, <2>4, <2>5
       DEF TypeOK, RequestType, PlaceType, FoundType, ServerType, DialogType, MonitorType
<1>2. MadeInv'
  BY DEF MadeInv, Made
<1>3. CancelInv'
  <2> SUFFICES ASSUME NEW g \in Flows PROVE Cancels(g)'
    BY DEF CancelInv
  <2>1. Cancels(g)
    BY DEF CancelInv
  <2>2. CASE g # f
    BY <2>1, <2>2 DEF Cancels, TypeOK, Answer, Made
  <2>3. CASE g = f
    BY <2>1, <2>3 DEF Cancels, TypeOK, Answer, Made
  <2> QED
    BY <2>2, <2>3
<1>4. DialogInv'
  <2>1. pc' = [pc EXCEPT ![f] = pc'[f]]
    BY DEF TypeOK
  <2> QED
    BY <2>1, DialogsPop
<1>5. MonitorInv'
  <2> SUFFICES ASSUME NEW g \in Flows PROVE Monitors(g)'
    BY DEF MonitorInv
  <2>1. Monitors(g)
    BY DEF MonitorInv
  <2>2. CASE g # f
    BY <2>1, <2>2 DEF Monitors, TypeOK, Answer
  <2>3. CASE g = f
    <3>1. pc[f] = "choose"
      <4>1. Len(dialogs) \in 1 .. Len(dialogs)
        BY DEF Top, TypeOK
      <4> QED
        BY <4>1 DEF DialogInv, Top
    <3> QED
      BY <2>1, <2>3, <3>1 DEF Monitors, TypeOK
  <2> QED
    BY <2>2, <2>3
<1> QED
  BY <1>1, <1>2, <1>3, <1>4, <1>5

\* The user closes the dialog.
LEMMA CloseInv == ASSUME IInv, NEW f \in Flows, Close(f) PROVE IInv'
<1> USE DEF Close
<1>1. TypeOK'
  <2> USE DEF TypeOK
  <2>1. RequestType' /\ PlaceType'
    <3> HIDE DEF Send
    <3>1. \E place \in Places, o \in Orders \cup {None}, number \in {1, 2} :
            Send(f, place, o, number)
      BY DEF Places, CancelInv, Cancels, Answer, MonitorInv, Monitors, DialogInv
    <3> QED
      BY <3>1, SendTypes
  <2>2. FoundType'
    BY DEF FoundType, Answer
  <2>3. ServerType'
    BY DEF ServerType, Answer
  <2>4. DialogType'
    <3>1. pc' = [pc EXCEPT ![f] = pc'[f]]
      OBVIOUS
    <3> QED
      BY <3>1, DialogsPop DEF DialogType
  <2>5. MonitorType'
    BY DEF MonitorType
  <2> HIDE DEF TypeOK
  <2> QED
    BY <2>1, <2>2, <2>3, <2>4, <2>5
       DEF TypeOK, RequestType, PlaceType, FoundType, ServerType, DialogType, MonitorType
<1>2. MadeInv'
  BY DEF MadeInv, Made
<1>3. CancelInv'
  <2> SUFFICES ASSUME NEW g \in Flows PROVE Cancels(g)'
    BY DEF CancelInv
  <2>1. Cancels(g)
    BY DEF CancelInv
  <2>2. CASE g # f
    BY <2>1, <2>2 DEF Cancels, TypeOK, Answer, Made
  <2>3. CASE g = f
    BY <2>1, <2>3 DEF Cancels, TypeOK, Answer, Made
  <2> QED
    BY <2>2, <2>3
<1>4. DialogInv'
  <2>1. pc' = [pc EXCEPT ![f] = pc'[f]]
    BY DEF TypeOK
  <2> QED
    BY <2>1, DialogsPop
<1>5. MonitorInv'
  <2> SUFFICES ASSUME NEW g \in Flows PROVE Monitors(g)'
    BY DEF MonitorInv
  <2>1. Monitors(g)
    BY DEF MonitorInv
  <2>2. CASE g # f
    BY <2>1, <2>2 DEF Monitors, TypeOK, Answer
  <2>3. CASE g = f
    <3>1. pc[f] = "choose"
      <4>1. Len(dialogs) \in 1 .. Len(dialogs)
        BY DEF Top, TypeOK
      <4> QED
        BY <4>1 DEF DialogInv, Top
    <3> QED
      BY <2>1, <2>3, <3>1 DEF Monitors, TypeOK
  <2> QED
    BY <2>2, <2>3
<1> QED
  BY <1>1, <1>2, <1>3, <1>4, <1>5

\* The checkout has been answered.
LEMMA CheckedOutInv == ASSUME IInv, NEW f \in Flows, CheckedOut(f) PROVE IInv'
<1> USE DEF CheckedOut, Tell, Succeeded, Answered
<1>1. TypeOK'
  <2> USE DEF TypeOK
  <2>1. RequestType' /\ PlaceType'
    <3> HIDE DEF Send
    <3>1. \E place \in Places, o \in Orders \cup {None}, number \in {1, 2} :
            Send(f, place, o, number)
      BY DEF Places, CancelInv, Cancels, Answer, MonitorInv, Monitors, DialogInv
    <3> QED
      BY <3>1, SendTypes
  <2>2. FoundType'
    BY DEF FoundType, Answer
  <2>3. ServerType'
    BY DEF ServerType, Answer
  <2>4. DialogType'
    BY DEF DialogType
  <2>5. MonitorType'
    <3>1. told' \in [Flows -> 0 .. 2]
      <4>1. CASE reply[f].type = "balance"
        <5>1. told' = [told EXCEPT ![f] = IF told[f] = 0 THEN 1 ELSE 2]
          BY <4>1
        <5> QED
          BY <5>1
      <4>2. CASE reply[f].type # "balance"
        BY <4>2
      <4> QED
        BY <4>1, <4>2
    <3> QED
      BY <3>1 DEF MonitorType
  <2> HIDE DEF TypeOK
  <2> QED
    BY <2>1, <2>2, <2>3, <2>4, <2>5
       DEF TypeOK, RequestType, PlaceType, FoundType, ServerType, DialogType, MonitorType
<1>2. MadeInv'
  BY DEF MadeInv, Made
<1>3. CancelInv'
  <2> SUFFICES ASSUME NEW g \in Flows PROVE Cancels(g)'
    BY DEF CancelInv
  <2>1. Cancels(g)
    BY DEF CancelInv
  <2>2. CASE g # f
    BY <2>1, <2>2 DEF Cancels, TypeOK, Answer, Made
  <2>3. CASE g = f
    BY <2>1, <2>3 DEF Cancels, TypeOK, Answer, Made
  <2> QED
    BY <2>2, <2>3
<1>4. DialogInv'
  <2>1. pc[f] # "choose" /\ \A g \in Flows : g # f => pc'[g] = pc[g]
    BY DEF CancelInv, Cancels, TypeOK
  <2> QED
    BY <2>1, DialogsStay
<1>5. MonitorInv'
  <2> SUFFICES ASSUME NEW g \in Flows PROVE Monitors(g)'
    BY DEF MonitorInv
  <2>1. Monitors(g)
    BY DEF MonitorInv
  <2>2. CASE g # f
    BY <2>1, <2>2 DEF Monitors, TypeOK, Answer
  <2>3. CASE g = f
    BY <2>1, <2>3 DEF Monitors, TypeOK, Answer
  <2> QED
    BY <2>2, <2>3
<1> QED
  BY <1>1, <1>2, <1>3, <1>4, <1>5

-----------------------------------------------------------------------------
(* The monitor.                                                            *)

\* The timer fires.
LEMMA TickInv == ASSUME IInv, NEW f \in Flows, Tick(f) PROVE IInv'
<1> USE DEF Tick, PollStarts, MonitorOver
<1>1. TypeOK'
  <2> USE DEF TypeOK
  <2>1. RequestType' /\ PlaceType'
    <3>1. RequestType'
      BY DEF RequestType
    <3>2. pc' = pc \/ pc' = [pc EXCEPT ![f] = "done"]
      OBVIOUS
    <3>3. PlaceType'
      BY <3>2 DEF PlaceType
    <3> QED
      BY <3>1, <3>3
  <2>2. FoundType'
    BY DEF FoundType, Answer
  <2>3. ServerType'
    BY DEF ServerType, Answer
  <2>4. DialogType'
    BY DEF DialogType
  <2>5. MonitorType'
    <3>1. CASE UNCHANGED <<ticks, polls, piled>>
      BY <3>1 DEF MonitorType
    <3>2. CASE /\ ~(complete[f] \/ ticks[f] = MaxPolls)
               /\ ticks' = [ticks EXCEPT ![f] = ticks[f] + 1] /\ PollStarts(f)
      <4>1. polls[f] <= ticks[f] /\ ticks[f] < MaxPolls
        BY <3>2 DEF MonitorInv, Monitors
      <4>2. ticks[f] + 1 \in 0 .. MaxPolls /\ polls[f] + 1 \in 0 .. MaxPolls
        BY <4>1
      <4> QED
        BY <3>2, <4>2 DEF MonitorType
    <3> QED
      BY <3>1, <3>2
  <2> HIDE DEF TypeOK
  <2> QED
    BY <2>1, <2>2, <2>3, <2>4, <2>5
       DEF TypeOK, RequestType, PlaceType, FoundType, ServerType, DialogType, MonitorType
<1>2. MadeInv'
  BY DEF MadeInv, Made
<1>3. CancelInv'
  <2> SUFFICES ASSUME NEW g \in Flows PROVE Cancels(g)'
    BY DEF CancelInv
  <2>1. Cancels(g)
    BY DEF CancelInv
  <2>2. CASE g # f
    BY <2>1, <2>2 DEF Cancels, TypeOK, Answer, Made
  <2>3. CASE g = f
    BY <2>1, <2>3 DEF Cancels, TypeOK, Answer, Made
  <2> QED
    BY <2>2, <2>3
<1>4. DialogInv'
  <2>1. UNCHANGED <<dialogs>> /\ \A g \in Flows : pc[g] = "choose" => pc'[g] = "choose"
    BY DEF TypeOK
  <2> QED
    BY <2>1 DEF DialogInv, TypeOK
<1>5. MonitorInv'
  <2> SUFFICES ASSUME NEW g \in Flows PROVE Monitors(g)'
    BY DEF MonitorInv
  <2>1. Monitors(g)
    BY DEF MonitorInv
  <2>2. CASE g # f
    BY <2>1, <2>2 DEF Monitors, TypeOK, Answer
  <2>3. CASE g = f
    <3>1. CASE UNCHANGED <<ticks, polls, piled>>
      BY <2>1, <2>3, <3>1 DEF Monitors, TypeOK
    <3>2. CASE /\ ~(complete[f] \/ ticks[f] = MaxPolls) /\ UNCHANGED pc
               /\ ticks' = [ticks EXCEPT ![f] = ticks[f] + 1] /\ PollStarts(f)
      <4>1. /\ ticks'[f] = ticks[f] + 1 /\ polls'[f] = polls[f] + 1
            /\ polls[f] > 0 => piled'[f] = TRUE
            /\ ~complete[f] /\ pc'[f] = "watch"
        BY <3>2 DEF TypeOK
      <4>2. told[f] = 0 /\ UNCHANGED <<order, trade, told, reply, target>>
        BY <2>1, <2>3, <3>2 DEF Monitors, TypeOK
      <4>3. polls[f] \in Nat /\ ticks[f] \in Nat /\ piled[f] \in BOOLEAN
        BY DEF TypeOK
      <4>4. polls'[f] > 1 => piled'[f]
        BY <4>1, <4>3
      <4>5. polls'[f] <= ticks'[f] /\ trade[f] \in Orders
        BY <2>1, <2>3, <4>1, <4>3 DEF Monitors
      <4> QED
        BY <2>3, <4>1, <4>2, <4>4, <4>5 DEF Monitors
    <3> QED
      BY <3>1, <3>2
  <2> QED
    BY <2>2, <2>3
<1> QED
  BY <1>1, <1>2, <1>3, <1>4, <1>5

\* A poll finds the order settled.
LEMMA PolledInv == ASSUME IInv, NEW f \in Flows, Polled(f) PROVE IInv'
<1> USE DEF Polled, PollOver, MonitorOver, Tell
<1>1. TypeOK'
  <2> USE DEF TypeOK
  <2>1. RequestType' /\ PlaceType'
    <3>1. RequestType'
      BY DEF RequestType
    <3>2. pc' = pc \/ pc' = [pc EXCEPT ![f] = "done"]
      OBVIOUS
    <3>3. PlaceType'
      BY <3>2 DEF PlaceType
    <3> QED
      BY <3>1, <3>3
  <2>2. FoundType'
    BY DEF FoundType, Answer
  <2>3. ServerType'
    BY DEF ServerType, Answer
  <2>4. DialogType'
    BY DEF DialogType
  <2>5. MonitorType'
    <3>1. told' \in [Flows -> 0 .. 2]
      <4>1. CASE order[trade[f]] = "paid"
        <5>1. told' = [told EXCEPT ![f] = IF told[f] = 0 THEN 1 ELSE 2]
          BY <4>1
        <5> QED
          BY <5>1
      <4>2. CASE order[trade[f]] # "paid"
        BY <4>2
      <4> QED
        BY <4>1, <4>2
    <3>2. polls[f] - 1 \in 0 .. MaxPolls
      OBVIOUS
    <3> QED
      BY <3>1, <3>2 DEF MonitorType
  <2> HIDE DEF TypeOK
  <2> QED
    BY <2>1, <2>2, <2>3, <2>4, <2>5
       DEF TypeOK, RequestType, PlaceType, FoundType, ServerType, DialogType, MonitorType
<1>2. MadeInv'
  BY DEF MadeInv, Made
<1>3. CancelInv'
  <2> SUFFICES ASSUME NEW g \in Flows PROVE Cancels(g)'
    BY DEF CancelInv
  <2>1. Cancels(g)
    BY DEF CancelInv
  <2>2. CASE g # f
    BY <2>1, <2>2 DEF Cancels, TypeOK, Answer, Made
  <2>3. CASE g = f
    BY <2>1, <2>3 DEF Cancels, TypeOK, Answer, Made
  <2> QED
    BY <2>2, <2>3
<1>4. DialogInv'
  <2>1. UNCHANGED <<dialogs>> /\ \A g \in Flows : pc[g] = "choose" => pc'[g] = "choose"
    BY DEF TypeOK
  <2> QED
    BY <2>1 DEF DialogInv, TypeOK
<1>5. MonitorInv'
  <2> SUFFICES ASSUME NEW g \in Flows PROVE Monitors(g)'
    BY DEF MonitorInv
  <2>1. Monitors(g)
    BY DEF MonitorInv
  <2>2. CASE g # f
    BY <2>1, <2>2 DEF Monitors, TypeOK, Answer
  <2>3. CASE g = f
    BY <2>1, <2>3 DEF Monitors, TypeOK, Answer
  <2> QED
    BY <2>2, <2>3
<1> QED
  BY <1>1, <1>2, <1>3, <1>4, <1>5

\* A poll changes nothing.
LEMMA PolledInVainInv == ASSUME IInv, NEW f \in Flows, PolledInVain(f) PROVE IInv'
<1> USE DEF PolledInVain, PollOver
<1>1. TypeOK'
  <2> USE DEF TypeOK
  <2>1. RequestType' /\ PlaceType'
    <3>1. RequestType'
      BY DEF RequestType
    <3>2. PlaceType'
      BY DEF PlaceType
    <3> QED
      BY <3>1, <3>2
  <2>2. FoundType'
    BY DEF FoundType, Answer
  <2>3. ServerType'
    BY DEF ServerType, Answer
  <2>4. DialogType'
    BY DEF DialogType
  <2>5. MonitorType'
    BY DEF MonitorType
  <2> HIDE DEF TypeOK
  <2> QED
    BY <2>1, <2>2, <2>3, <2>4, <2>5
       DEF TypeOK, RequestType, PlaceType, FoundType, ServerType, DialogType, MonitorType
<1>2. MadeInv'
  BY DEF MadeInv, Made
<1>3. CancelInv'
  <2> SUFFICES ASSUME NEW g \in Flows PROVE Cancels(g)'
    BY DEF CancelInv
  <2>1. Cancels(g)
    BY DEF CancelInv
  <2>2. CASE g # f
    BY <2>1, <2>2 DEF Cancels, TypeOK, Answer, Made
  <2>3. CASE g = f
    BY <2>1, <2>3 DEF Cancels, TypeOK, Answer, Made
  <2> QED
    BY <2>2, <2>3
<1>4. DialogInv'
  <2>1. UNCHANGED <<dialogs>> /\ \A g \in Flows : pc[g] = "choose" => pc'[g] = "choose"
    BY DEF TypeOK
  <2> QED
    BY <2>1 DEF DialogInv, TypeOK
<1>5. MonitorInv'
  <2> SUFFICES ASSUME NEW g \in Flows PROVE Monitors(g)'
    BY DEF MonitorInv
  <2>1. Monitors(g)
    BY DEF MonitorInv
  <2>2. CASE g # f
    BY <2>1, <2>2 DEF Monitors, TypeOK, Answer
  <2>3. CASE g = f
    BY <2>1, <2>3 DEF Monitors, TypeOK, Answer
  <2> QED
    BY <2>2, <2>3
<1> QED
  BY <1>1, <1>2, <1>3, <1>4, <1>5

-----------------------------------------------------------------------------
(* The server.                                                             *)

\* A new order is none that was made before.
LEMMA CreateFact ==
  ASSUME TypeOK, MadeInv, NEW o \in Orders, Create(o)
  PROVE  order[o] = "none" /\ MadeInv'
<1> USE DEF Create, Become
<1>1. PICK n \in 0 .. MaxOrders : Made = 1 .. n
  BY DEF MadeInv
<1>2. Cardinality(1 .. n) = n
  BY <1>1, FS_Interval
<1>3. o = n + 1
  BY <1>1, <1>2
<1>4. o \notin Made
  BY <1>1, <1>3
<1>5. Made' = Made \cup {o}
  BY DEF Made, TypeOK
<1>6. Made' = 1 .. n + 1 /\ n + 1 \in 0 .. MaxOrders
  BY <1>1, <1>3, <1>5 DEF Orders
<1> QED
  BY <1>4, <1>6 DEF Made, MadeInv

\* The orders change, and nothing else does: one is made, or an unpaid one is
\* settled.  No flow is worse off.
Settled(o) == order[o] = "unpaid" /\ \E status \in {"cancelled", "paid"} : Become(o, status)
OrderStep == UNCHANGED order \/ \E o \in Orders : Create(o) \/ Settled(o)

\* What an order may become: what is settled stays as it is, and no order that
\* was made gets unpaid.
LEMMA OrderFact ==
  ASSUME IInv, OrderStep
  PROVE  /\ order' \in [Orders -> Statuses \cup {"none"}]
         /\ MadeInv'
         /\ Made \subseteq Made'
         /\ \A o \in Made : order[o] # "unpaid" => order'[o] = order[o]
<1> USE DEF Become
<1>1. CASE UNCHANGED order
  BY <1>1 DEF TypeOK, MadeInv, Made
<1>2. CASE \E o \in Orders : Create(o)
  <2>1. PICK o \in Orders : Create(o)
    BY <1>2
  <2>2. order[o] = "none" /\ MadeInv'
    BY <2>1, CreateFact
  <2> QED
    BY <2>1, <2>2 DEF Create, TypeOK, Made, Statuses
<1>3. CASE \E o \in Orders : Settled(o)
  <2>1. PICK o \in Orders, status \in {"cancelled", "paid"} :
          order[o] = "unpaid" /\ order' = [order EXCEPT ![o] = status]
    BY <1>3 DEF Settled
  <2>2. Made' = Made
    BY <2>1 DEF Made, TypeOK
  <2> QED
    BY <2>1, <2>2 DEF TypeOK, MadeInv, Made, Statuses
<1> QED
  BY <1>1, <1>2, <1>3 DEF OrderStep

\* The orders change behind the back of the flows.
LEMMA OrderStepInv ==
  ASSUME IInv, OrderStep, late' \in Nat,
         UNCHANGED <<request, signedIn, tradeNo, pc, found, dialogs, trade,
                     monitor, told>>
  PROVE  IInv'
<1>1. /\ order' \in [Orders -> Statuses \cup {"none"}]
      /\ MadeInv'
      /\ Made \subseteq Made'
      /\ \A o \in Made : order[o] # "unpaid" => order'[o] = order[o]
  BY OrderFact
<1>2. TypeOK'
  BY <1>1 DEF TypeOK
<1>3. CancelInv'
  <2> SUFFICES ASSUME NEW g \in Flows PROVE Cancels(g)'
    BY DEF CancelInv
  <2>1. Cancels(g)
    BY DEF CancelInv
  <2> QED
    BY <1>1, <2>1 DEF Cancels
<1>4. DialogInv'
  BY DEF DialogInv
<1>5. MonitorInv'
  <2> SUFFICES ASSUME NEW g \in Flows PROVE Monitors(g)'
    BY DEF MonitorInv
  <2>1. Monitors(g)
    BY DEF MonitorInv
  <2>2. \A o \in Orders : order[o] = "paid" => o \in Made
    BY DEF Made
  <2> QED
    BY <1>1, <2>1, <2>2 DEF Monitors
<1> QED
  BY <1>1, <1>2, <1>3, <1>4, <1>5

\* The server makes of a request what its status allows.
LEMMA ServeFact ==
  ASSUME IInv, NEW f \in Flows, Serve(f)
  PROVE  /\ OrderStep
         /\ \E type \in Answers, os \in SUBSET Orders :
              /\ Says(f, type, os) /\ os \subseteq Made'
              /\ type \in {"balance", "url"} => pc[f] = "checkout"
              /\ type = "balance" => order'[target[f]] = "paid"
              /\ type = "ok" /\ pc[f] = "cancel" => order'[target[f]] # "unpaid"
<1> USE DEF Serve
<1> HIDE DEF server, request, monitor, found
<1>1. CASE Accept(f)
  <2> USE <1>1 DEF Accept
  <2>1. CASE pc[f] \in {"fetch", "methods"}
    <3>1. PICK os \in {Unpaid, {}} : Says(f, "ok", os) /\ UNCHANGED order
      BY <2>1
    <3>2. os \in SUBSET Orders /\ os \subseteq Made'
      BY <3>1 DEF Unpaid, Made
    <3> QED
      BY <2>1, <3>1, <3>2 DEF OrderStep
  <2>2. CASE pc[f] = "cancel"
    <3>1. /\ target[f] \in Unpaid /\ Become(target[f], "cancelled")
          /\ Says(f, "ok", {})
      BY <2>2
    <3>2. order'[target[f]] # "unpaid"
      BY <3>1 DEF Become, Unpaid, TypeOK
    <3>3. OrderStep
      BY <3>1 DEF OrderStep, Settled, Unpaid
    <3> QED
      BY <2>2, <3>1, <3>2, <3>3
  <2>3. CASE pc[f] = "create"
    <3>1. PICK o \in Orders : Create(o) /\ Says(f, "ok", {o})
      BY <2>3
    <3>2. o \in Made'
      BY <3>1 DEF Create, Become, Made, TypeOK
    <3> QED
      BY <2>3, <3>1, <3>2 DEF OrderStep
  <2>4. CASE pc[f] = "checkout"
    <3>1. target[f] \in Unpaid
      BY <2>4
    <3>2. CASE Become(target[f], "paid") /\ Says(f, "balance", {})
      <4>1. order'[target[f]] = "paid"
        BY <3>1, <3>2 DEF Become, Unpaid, TypeOK
      <4> QED
        BY <2>4, <3>1, <3>2, <4>1 DEF OrderStep, Settled, Unpaid
    <3>3. CASE Says(f, "url", {}) /\ UNCHANGED order
      BY <2>4, <3>3 DEF OrderStep
    <3> QED
      BY <2>4, <3>2, <3>3
  <2> QED
    BY <2>1, <2>2, <2>3, <2>4
<1>2. CASE \E type \in {"failed", "refused", "denied"} : Says(f, type, {}) /\ UNCHANGED order
  BY <1>2 DEF OrderStep
<1> QED
  BY <1>1, <1>2

\* An answer is on its way.
LEMMA ServeInv == ASSUME IInv, NEW f \in Flows, Serve(f) PROVE IInv'
<1>1. PICK type \in Answers, os \in SUBSET Orders :
        /\ Says(f, type, os) /\ os \subseteq Made'
        /\ type \in {"balance", "url"} => pc[f] = "checkout"
        /\ type = "balance" => order'[target[f]] = "paid"
        /\ type = "ok" /\ pc[f] = "cancel" => order'[target[f]] # "unpaid"
  BY ServeFact
<1>2. /\ order' \in [Orders -> Statuses \cup {"none"}]
      /\ MadeInv'
      /\ Made \subseteq Made'
      /\ \A o \in Made : order[o] # "unpaid" => order'[o] = order[o]
  BY ServeFact, OrderFact
<1>3. /\ pc[f] \in Asking /\ reply[f] = None
      /\ UNCHANGED <<late, attempt, target, signedIn, tradeNo, pc, found, dialogs,
                     trade, monitor, told>>
  BY DEF Serve
<1>4. [type |-> type, orders |-> os] \in Answer
  BY DEF Answer
<1>5. TypeOK'
  BY <1>1, <1>2, <1>3, <1>4 DEF TypeOK, Says
<1>6. \A g \in Flows : g # f => reply'[g] = reply[g]
  BY <1>1 DEF TypeOK, Says
<1>7. reply'[f] = [type |-> type, orders |-> os]
  BY <1>1 DEF TypeOK, Says
<1>8. CancelInv'
  <2> SUFFICES ASSUME NEW g \in Flows PROVE Cancels(g)'
    BY DEF CancelInv
  <2>1. Cancels(g)
    BY DEF CancelInv
  <2>2. CASE g # f
    BY <1>2, <1>3, <1>6, <2>1, <2>2 DEF Cancels
  <2>3. CASE g = f
    BY <1>1, <1>2, <1>3, <1>7, <2>1, <2>3 DEF Cancels
  <2> QED
    BY <2>2, <2>3
<1>9. DialogInv'
  BY <1>3 DEF DialogInv
<1>10. MonitorInv'
  <2> SUFFICES ASSUME NEW g \in Flows PROVE Monitors(g)'
    BY DEF MonitorInv
  <2>1. Monitors(g)
    BY DEF MonitorInv
  <2>2. \A o \in Orders : order[o] = "paid" => o \in Made
    BY DEF Made
  <2>3. CASE g # f
    BY <1>2, <1>3, <1>6, <2>1, <2>2, <2>3 DEF Monitors
  <2>4. CASE g = f
    BY <1>1, <1>2, <1>3, <1>7, <2>1, <2>2, <2>4 DEF Monitors
  <2> QED
    BY <2>3, <2>4
<1> QED
  BY <1>2, <1>5, <1>8, <1>9, <1>10

\* An order is made late, paid in the browser or withdrawn.
LEMMA ElsewhereInv ==
  ASSUME IInv, ServeLate \/ \E o \in Orders : Pay(o) \/ Withdraw(o)
  PROVE  IInv'
<1>1. CASE ServeLate
  <2>1. late' \in Nat
    BY <1>1 DEF ServeLate, TypeOK
  <2> QED
    BY <1>1, <2>1, OrderStepInv DEF ServeLate, OrderStep
<1>2. ASSUME NEW o \in Orders, Pay(o) \/ Withdraw(o) PROVE IInv'
  <2>1. late' \in Nat /\ OrderStep
    BY <1>2 DEF Pay, Withdraw, Decide, OrderStep, Settled, TypeOK
  <2> QED
    BY <1>2, <2>1, OrderStepInv DEF Pay, Withdraw, Decide
<1> QED
  BY <1>1, <1>2

-----------------------------------------------------------------------------
\* Every step keeps the invariant.
LEMMA NextInv == ASSUME IInv, [Next]_vars PROVE IInv'
<1>1. CASE UNCHANGED vars
  <2>1. late' \in Nat
    BY <1>1 DEF vars, TypeOK
  <2> QED
    BY <1>1, <2>1, OrderStepInv DEF vars, OrderStep
<1>2. ASSUME NEW f \in Flows,
             \/ Subscribe(f) \/ Choose(f) \/ Close(f)
             \/ Serve(f) \/ Receive(f) \/ Timeout(f) \/ Tick(f)
             \/ Polled(f) \/ PolledInVain(f)
      PROVE  IInv'
  BY <1>2, SubscribeInv, ChooseInv, CloseInv, ServeInv, TimeoutInv, TickInv, PolledInv,
     PolledInVainInv, FetchedInv, CancelledInv, CreatedInv, ShowMethodsInv,
     CheckedOutInv, FailedInv DEF Receive
<1> QED
  BY <1>1, <1>2, ElsewhereInv DEF Next

\* The invariant holds in every state.
LEMMA Invariant == Spec => []IInv
  BY InitInv, NextInv, PTL DEF Spec

\* In every state of every run of the purchase the variables have their types;
\* no timer counts past its maximum and no more polls are under way than the
\* timer has started.
THEOREM TypeCorrect == Spec => []TypeOK
<1>1. IInv => TypeOK
  OBVIOUS
<1> QED
  BY <1>1, Invariant, PTL

\* Whoever is asked to pay has no order left to pay that the purchase found:
\* for any number of overlapping taps, orders and late answers.
THEOREM UnpaidSettled == Spec => []NothingLeftUnpaid
<1>1. IInv => NothingLeftUnpaid
  BY DEF CancelInv, Cancels, NothingLeftUnpaid, Unpaid
<1> QED
  BY <1>1, Invariant, PTL

\* A payment told to be a success is one, and is told twice only where polls
\* have piled up.
THEOREM SuccessIsPaid == Spec => []SuccessMeansPaid
<1>1. IInv => SuccessMeansPaid
  BY DEF MonitorInv, Monitors, SuccessMeansPaid, TypeOK
<1> QED
  BY <1>1, Invariant, PTL

-----------------------------------------------------------------------------
(* What FlowsEnd rests on besides fairness: no purchase goes in circles.   *)

\* The order a purchase awaits the cancelling of is one it has yet to cancel.
TargetInv == \A f \in Flows : pc[f] = "cancel" => target[f] \in left[f]

\* How far a purchase is from its end.
Stage == [idle |-> 8, fetch |-> 7, cancel |-> 6, create |-> 5, methods |-> 4,
          choose |-> 3, checkout |-> 2, watch |-> 1, done |-> 0]

Measure(f) == <<pc[f], left[f], attempt[f], ticks[f]>>

\* A purchase comes nearer to its end: it reaches a later place, or at the
\* same place it has fewer orders left to cancel, or has used up its first
\* attempt, or less of the monitor's time is left.  Each of them is bounded.
Nearer(f) ==
  \/ Stage[pc'[f]] < Stage[pc[f]]
  \/ /\ pc'[f] = pc[f]
     /\ \/ left'[f] \subseteq left[f] /\ left'[f] # left[f]
        \/ left'[f] = left[f] /\ attempt'[f] > attempt[f]
        \/ left'[f] = left[f] /\ attempt'[f] = attempt[f] /\ ticks'[f] > ticks[f]

\* Whatever happens, no purchase is thrown back, and every answer that is
\* received, every timeout and every tick takes its own one nearer.
Onward ==
  \A f \in Flows : /\ Nearer(f) \/ UNCHANGED Measure(f)
                   /\ Receive(f) \/ Timeout(f) \/ Tick(f) => Nearer(f)

LEMMA StageFact ==
  /\ Stage["idle"] = 8 /\ Stage["fetch"] = 7 /\ Stage["cancel"] = 6
  /\ Stage["create"] = 5 /\ Stage["methods"] = 4 /\ Stage["choose"] = 3
  /\ Stage["checkout"] = 2 /\ Stage["watch"] = 1 /\ Stage["done"] = 0
  BY DEF Stage

\* A step of one purchase changes the measure of no other.
Only(f) == /\ pc' = [pc EXCEPT ![f] = pc'[f]]
           /\ left' = [left EXCEPT ![f] = left'[f]]
           /\ attempt' = [attempt EXCEPT ![f] = attempt'[f]]
           /\ target' = [target EXCEPT ![f] = target'[f]]
           /\ ticks' = [ticks EXCEPT ![f] = ticks'[f]]

OwnStep(f) == /\ Only(f)
              /\ Nearer(f) \/ UNCHANGED Measure(f)
              /\ pc'[f] = "cancel" => target'[f] \in left'[f]

MeasureType == /\ PlaceType /\ FoundType /\ RequestType
               /\ ticks \in [Flows -> 0 .. MaxPolls]

\* Every answer received, every timeout and every tick.
LEMMA DueStep ==
  ASSUME IInv, MeasureType, TargetInv, NEW f \in Flows,
         Receive(f) \/ Timeout(f) \/ Tick(f)
  PROVE  OwnStep(f) /\ Nearer(f)
<1> USE StageFact DEF MeasureType, PlaceType, FoundType, RequestType, TargetInv, Only, OwnStep,
       Nearer
<1>1. CASE Timeout(f)
  BY <1>1 DEF Timeout, Retry
<1>2. CASE Failed(f)
  <2>1. pc[f] \in Asking
    BY <1>2 DEF Failed, CancelInv, Cancels
  <2> QED
    BY <1>2, <2>1 DEF Failed, Retry
<1>3. CASE Fetched(f)
  BY <1>3 DEF Fetched, Succeeded, Answered, Proceed, Answer
<1>4. CASE Cancelled(f)
  BY <1>4 DEF Cancelled, Succeeded, Answered, Proceed, Note
<1>5. CASE Created(f)
  BY <1>5 DEF Created, Succeeded, Answered
<1>6. CASE ShowMethods(f)
  BY <1>6 DEF ShowMethods, Succeeded, Answered
<1>7. CASE CheckedOut(f)
  BY <1>7 DEF CheckedOut, Succeeded, Answered, Tell
<1>8. CASE Tick(f)
  BY <1>8 DEF Tick, MonitorOver
<1> QED
  BY <1>1, <1>2, <1>3, <1>4, <1>5, <1>6, <1>7, <1>8 DEF Receive

\* What the user, the server and an answered poll do.
LEMMA OtherStep ==
  ASSUME IInv, MeasureType, TargetInv, NEW f \in Flows,
         \/ Subscribe(f) \/ Choose(f) \/ Close(f) \/ Serve(f)
         \/ Polled(f) \/ PolledInVain(f)
  PROVE  OwnStep(f)
<1> USE StageFact DEF MeasureType, PlaceType, FoundType, RequestType, TargetInv, Only, OwnStep,
       Nearer, Measure
<1>1. CASE Subscribe(f)
  BY <1>1 DEF Subscribe
<1>2. Top(f) => pc[f] = "choose"
  BY DEF TypeOK, DialogInv, Top
<1>3. CASE Choose(f)
  BY <1>2, <1>3 DEF Choose
<1>4. CASE Close(f)
  BY <1>2, <1>4 DEF Close
<1>5. CASE Serve(f)
  BY <1>5 DEF Serve
<1>6. CASE Polled(f)
  BY <1>6 DEF Polled, MonitorOver
<1>7. CASE PolledInVain(f)
  BY <1>7 DEF PolledInVain
<1> QED
  BY <1>1, <1>3, <1>4, <1>5, <1>6, <1>7

\* The types the measure needs.
LEMMA MeasureTyped == TypeOK => MeasureType
  BY DEF TypeOK, MeasureType, PlaceType, FoundType, RequestType

\* No purchase is thrown back.
LEMMA OnwardStep ==
  ASSUME IInv, TargetInv, [Next]_vars
  PROVE  TargetInv' /\ [Onward]_vars
<1> USE MeasureTyped
<1>1. ASSUME NEW f \in Flows, OwnStep(f)
      PROVE  TargetInv' /\ \A g \in Flows : Nearer(g) \/ UNCHANGED Measure(g)
  <2>1. \A g \in Flows : g # f => UNCHANGED Measure(g) /\ target'[g] = target[g]
    BY <1>1 DEF OwnStep, Only, Measure, MeasureType, PlaceType, FoundType, RequestType
  <2>2. TargetInv'
    BY <1>1, <2>1 DEF OwnStep, TargetInv, Measure
  <2> QED
    BY <1>1, <2>1, <2>2 DEF OwnStep
<1>2. \A f \in Flows : Receive(f) \/ Timeout(f) \/ Tick(f) => Nearer(f)
  BY DueStep
<1>3. ASSUME NEW f \in Flows,
             \/ Subscribe(f) \/ Choose(f) \/ Close(f)
             \/ Serve(f) \/ Receive(f) \/ Timeout(f) \/ Tick(f)
             \/ Polled(f) \/ PolledInVain(f)
      PROVE  OwnStep(f)
  BY <1>3, DueStep, OtherStep
<1>4. CASE ServeLate \/ \E o \in Orders : Pay(o) \/ Withdraw(o)
  <2>1. UNCHANGED <<pc, left, attempt, target, ticks>>
    BY <1>4 DEF ServeLate, Pay, Withdraw, Decide
  <2> QED
    BY <2>1, <1>2 DEF TargetInv, Measure, Onward
<1>5. CASE UNCHANGED vars
  BY <1>5 DEF vars, TargetInv
<1> QED
  BY <1>1, <1>2, <1>3, <1>4, <1>5 DEF Next, Onward

\* No purchase goes in circles: what it awaits ends with an answer or a
\* timeout, and each takes it nearer to its end, through retries, orders to
\* cancel and polls that are all bounded.
THEOREM FlowsAdvance == Spec => [][Onward]_vars
<1>1. Init => TargetInv
  BY DEF Init, TargetInv
<1> QED
  BY <1>1, OnwardStep, Invariant, PTL DEF Spec
=============================================================================
