---------------------------- MODULE PanelPurchase ----------------------------
(***************************************************************************)
(* Buying a plan from the panel: PurchaseDetailsViewModel, the payment     *)
(* methods dialog and its view model, MonitorPayStatus, and the requests   *)
(* of OrderService and PaymentService under them.                          *)
(*                                                                         *)
(* Nothing disables the subscribe button, so taps of it may overlap.  Each *)
(* request has a timeout, after which, or on any error but one of          *)
(* authentication, it is sent once more with the access token read before. *)
(* The server may handle a request that was given up later, or never.  It  *)
(* refuses as it likes: its rules are not in this repository.              *)
(***************************************************************************)
EXTENDS Naturals, FiniteSets, Sequences

CONSTANTS MaxTaps,  \* bound: taps of the subscribe button
          MaxOrders, \* bound: the orders the server may make
          MaxPolls, \* bound: maxPollingDuration over the period, 120
          None

ASSUME BoundsAssumption == {MaxTaps, MaxOrders, MaxPolls} \subseteq Nat \ {0}

Flows == 1 .. MaxTaps
Orders == 1 .. MaxOrders

VARIABLES order,    \* order[o]: the server's status of order o
          late,     \* how many requests to create were given up and may be
                    \* handled yet
          attempt,  \* attempt[f]: which attempt of its request flow f awaits
          target,   \* target[f]: the order the request is about, or None
          reply,    \* reply[f]: its answer, or None while there is none
          signedIn, \* does TokenStorage hold the credentials?
          tradeNo,  \* the tradeNo of the details' view model
          pc,       \* pc[f]: what flow f does
          unpaid,   \* unpaid[f]: the unpaid orders the server listed to f and
                    \* has not failed to cancel since
          left,     \* left[f]: those it has not tried to cancel yet
          dialogs,  \* the flows whose payment dialogs are open, as stacked
          trade,    \* trade[f]: the order its payment dialog is for
          ticks,    \* ticks[f]: elapsedTime of its monitor
          complete, \* complete[f]: isPaymentComplete
          polls,    \* polls[f]: how many of its polls are under way
          told,     \* told[f]: the calls of onPaymentSuccess, up to two
          piled     \* piled[f]: were two polls under way at once? (history)

server == <<order, late>>
request == <<attempt, target, reply>>
monitor == <<ticks, complete, polls, piled>>
found == <<unpaid, left>>
vars == <<server, request, signedIn, tradeNo, pc, found, dialogs,
          trade, monitor, told>>

Statuses == {"unpaid", "cancelled", "paid"}
Asking == {"fetch", "cancel", "create", "methods", "checkout"}
\* A failed answer has the status 200 and no data, a refused one another status.
Answers == {"ok", "balance", "url", "failed", "refused", "denied"}
Answer == [type : Answers, orders : SUBSET Orders]

TypeOK ==
  /\ order \in [Orders -> Statuses \cup {"none"}]
  /\ late \in Nat
  /\ attempt \in [Flows -> {1, 2}]
  /\ target \in [Flows -> Orders \cup {None}]
  /\ reply \in [Flows -> Answer \cup {None}]
  /\ signedIn \in BOOLEAN
  /\ tradeNo \in Orders \cup {None}
  /\ pc \in [Flows -> Asking \cup {"idle", "choose", "watch", "done"}]
  /\ unpaid \in [Flows -> SUBSET Orders]
  /\ left \in [Flows -> SUBSET Orders]
  /\ dialogs \in Seq(Flows)
  /\ trade \in [Flows -> Orders \cup {None}]
  /\ ticks \in [Flows -> 0 .. MaxPolls]
  /\ complete \in [Flows -> BOOLEAN]
  /\ polls \in [Flows -> 0 .. MaxPolls]
  /\ told \in [Flows -> 0 .. 2]
  /\ piled \in [Flows -> BOOLEAN]

Init ==
  /\ order = [o \in Orders |-> "none"]
  /\ late = 0
  /\ attempt = [f \in Flows |-> 1]
  /\ target = [f \in Flows |-> None]
  /\ reply = [f \in Flows |-> None]
  /\ signedIn = TRUE
  /\ tradeNo = None
  /\ pc = [f \in Flows |-> "idle"]
  /\ unpaid = [f \in Flows |-> {}]
  /\ left = [f \in Flows |-> {}]
  /\ dialogs = <<>>
  /\ trade = [f \in Flows |-> None]
  /\ ticks = [f \in Flows |-> 0]
  /\ complete = [f \in Flows |-> FALSE]
  /\ polls = [f \in Flows |-> 0]
  /\ told = [f \in Flows |-> 0]
  /\ piled = [f \in Flows |-> FALSE]

Set(fun, f, value) == [fun EXCEPT ![f] = value]
Made == {o \in Orders : order[o] # "none"}
Unpaid == {o \in Orders : order[o] = "unpaid"}

-----------------------------------------------------------------------------
(* The services' requests.                                                 *)

Send(f, step, o, number) == /\ pc' = Set(pc, f, step)
                            /\ attempt' = Set(attempt, f, number)
                            /\ target' = Set(target, f, o)
                            /\ reply' = Set(reply, f, None)

\* Without auth_data the first attempt fails before anything is sent.
Ask(f, step, o) == Send(f, step, o, IF signedIn THEN 1 ELSE 2)

Finish(f, place) == /\ Send(f, place, None, 1)
                    /\ left' = Set(left, f, {})
                    /\ unpaid' = IF place = "choose" THEN unpaid
                                 ELSE Set(unpaid, f, {})

Retry(f) == Send(f, pc[f], target[f], 2) /\ UNCHANGED <<signedIn, found>>

\* The timeout of a request, which the server may have handled, may handle yet
\* or never.  Late reads have no effect; late cancelling and paying are Decide.
Timeout(f) ==
  /\ pc[f] \in Asking
  /\ late' = IF pc[f] = "create" /\ reply[f] = None THEN late + 1 ELSE late
  /\ IF attempt[f] = 1 THEN Retry(f) ELSE Finish(f, "done") /\ UNCHANGED signedIn
  /\ UNCHANGED <<order, tradeNo, dialogs, trade, monitor, told>>

Says(f, type, os) == reply' = Set(reply, f, [type |-> type, orders |-> os])
Become(o, status) == order' = Set(order, o, status)
Create(o) == o = 1 + Cardinality(Made) /\ Become(o, "unpaid")

Accept(f) ==
  CASE pc[f] = "fetch" -> Says(f, "ok", Unpaid) /\ UNCHANGED order
    [] pc[f] = "methods" -> Says(f, "ok", {}) /\ UNCHANGED order
    [] pc[f] = "cancel" -> /\ target[f] \in Unpaid
                           /\ Become(target[f], "cancelled") /\ Says(f, "ok", {})
    [] pc[f] = "create" -> \E o \in Orders : Create(o) /\ Says(f, "ok", {o})
    [] pc[f] = "checkout" -> /\ target[f] \in Unpaid
                             /\ \/ /\ Become(target[f], "paid")
                                   /\ Says(f, "balance", {})
                                \/ Says(f, "url", {}) /\ UNCHANGED order

Serve(f) ==
  /\ pc[f] \in Asking /\ reply[f] = None
  /\ \/ Accept(f)
     \/ /\ pc[f] \in {"cancel", "create", "checkout"}
        /\ Says(f, "failed", {}) /\ UNCHANGED order
     \/ \E type \in {"refused", "denied"} : Says(f, type, {}) /\ UNCHANGED order
  /\ UNCHANGED <<late, attempt, target, signedIn, tradeNo, pc, found, dialogs,
                 trade, monitor, told>>

ServeLate ==
  /\ late > 0 /\ late' = late - 1
  /\ \E o \in Orders : Create(o)
  /\ UNCHANGED <<request, signedIn, tradeNo, pc, found, dialogs, trade, monitor,
                 told>>

Answered(f, step) == pc[f] = step /\ reply[f] # None
Succeeded(f, step) == Answered(f, step) /\ reply[f].type \notin {"refused", "denied"}

\* An authentication error of the first attempt, and only that, deletes the
\* credentials; authProvider is not told.  The second attempt has no handler.
Failed(f) ==
  /\ reply[f] # None /\ reply[f].type \in {"refused", "denied"}
  /\ IF attempt[f] = 1 /\ reply[f].type = "refused"
     THEN Retry(f)
     ELSE Finish(f, "done") /\ signedIn' = (signedIn /\ attempt[f] = 2)
  /\ UNCHANGED <<server, tradeNo, dialogs, trade, monitor, told>>

-----------------------------------------------------------------------------
(* PurchaseDetailsViewModel.handleSubscribe, one step per await.           *)

\* Without an access token there is nothing to do.
Subscribe(f) ==
  /\ pc[f] = "idle" /\ dialogs = <<>>
  /\ \A earlier \in 1 .. f - 1 : pc[earlier] # "idle"
  /\ IF signedIn THEN Ask(f, "fetch", None) /\ UNCHANGED found
     ELSE Finish(f, "done")
  /\ UNCHANGED <<server, signedIn, tradeNo, dialogs, trade, monitor, told>>

\* The unpaid orders are cancelled one after the other, before the new one is
\* asked for.
Proceed(f, todo) == /\ left' = Set(left, f, todo)
                    /\ IF todo = {} THEN Ask(f, "create", None)
                       ELSE \E o \in todo : Ask(f, "cancel", o)

Fetched(f) ==
  /\ Succeeded(f, "fetch")
  /\ unpaid' = Set(unpaid, f, reply[f].orders)
  /\ Proceed(f, reply[f].orders)
  /\ UNCHANGED <<server, signedIn, tradeNo, dialogs, trade, monitor, told>>

Note(f) == unpaid' = IF reply[f].type = "failed"
                     THEN Set(unpaid, f, unpaid[f] \ {target[f]}) ELSE unpaid

\* Mutant: one order is cancelled and the others are left.
CancelledOne(f) ==
  /\ Succeeded(f, "cancel")
  /\ Note(f)
  /\ Proceed(f, {})
  /\ UNCHANGED <<server, signedIn, tradeNo, dialogs, trade, monitor, told>>

\* The status in the answer is not looked at.
Cancelled(f) ==
  /\ Succeeded(f, "cancel")
  /\ Note(f)
  /\ Proceed(f, left[f] \ {target[f]})
  /\ UNCHANGED <<server, signedIn, tradeNo, dialogs, trade, monitor, told>>

Created(f) ==
  /\ Succeeded(f, "create")
  /\ IF reply[f].type = "ok" THEN tradeNo' \in reply[f].orders ELSE tradeNo' = None
  /\ Ask(f, "methods", None)
  /\ UNCHANGED <<server, signedIn, found, dialogs, trade, monitor, told>>

\* The dialog takes the tradeNo of the moment, and fails without one.  It is not
\* shown where there are no methods, or the details have been closed.
ShowMethods(f) ==
  /\ Succeeded(f, "methods")
  /\ \/ /\ tradeNo # None /\ Finish(f, "choose")
        /\ dialogs' = Append(dialogs, f) /\ trade' = Set(trade, f, tradeNo)
     \/ Finish(f, "done") /\ UNCHANGED <<dialogs, trade>>
  /\ UNCHANGED <<server, signedIn, tradeNo, monitor, told>>

-----------------------------------------------------------------------------
(* The payment methods dialog and PaymentMethodsViewModel.handlePayment.   *)

Top(f) == dialogs # <<>> /\ dialogs[Len(dialogs)] = f
Pop == dialogs' = SubSeq(dialogs, 1, Len(dialogs) - 1)

Choose(f) ==
  /\ Top(f) /\ Pop
  /\ IF signedIn THEN Ask(f, "checkout", trade[f]) /\ UNCHANGED found
     ELSE Finish(f, "done")
  /\ UNCHANGED <<server, signedIn, tradeNo, trade, monitor, told>>

Close(f) ==
  /\ Top(f) /\ Pop
  /\ Finish(f, "done")
  /\ UNCHANGED <<server, signedIn, tradeNo, trade, monitor, told>>

\* onPaymentSuccess: what it does to the dialogs and the subscription, where
\* its widget still exists, is left out.  Where it does not, it throws.
Tell(f) == told' = Set(told, f, IF told[f] = 0 THEN 1 ELSE 2)

\* The balance has paid, or the browser opens and the monitor starts, or neither.
CheckedOut(f) ==
  /\ Succeeded(f, "checkout")
  /\ IF reply[f].type = "balance" THEN Tell(f) ELSE UNCHANGED told
  /\ Finish(f, IF reply[f].type = "url" /\ signedIn THEN "watch" ELSE "done")
  /\ UNCHANGED <<server, signedIn, tradeNo, dialogs, trade, monitor>>

-----------------------------------------------------------------------------
(* MonitorPayStatus.  The timer does not wait for its callback.            *)

PollStarts(f) == /\ polls' = Set(polls, f, polls[f] + 1)
                 /\ piled' = Set(piled, f, piled[f] \/ polls[f] > 0)
PollOver(f) == polls[f] > 0 /\ polls' = Set(polls, f, polls[f] - 1)
MonitorOver(f) == IF pc[f] = "watch" THEN pc' = Set(pc, f, "done") ELSE UNCHANGED pc

\* Mutant: the time is not counted.
TickUncounted(f) ==
  /\ pc[f] = "watch"
  /\ IF complete[f] \/ ticks[f] = MaxPolls
     THEN MonitorOver(f) /\ UNCHANGED <<polls, piled>>
     ELSE polls[f] = 0 /\ PollStarts(f) /\ UNCHANGED pc
  /\ UNCHANGED <<server, request, signedIn, tradeNo, found, dialogs,
                 trade, ticks, complete, told>>

Tick(f) ==
  /\ pc[f] = "watch"
  /\ IF complete[f] \/ ticks[f] = MaxPolls
     THEN MonitorOver(f) /\ UNCHANGED <<ticks, polls, piled>>
     ELSE ticks' = Set(ticks, f, ticks[f] + 1) /\ PollStarts(f) /\ UNCHANGED pc
  /\ UNCHANGED <<server, request, signedIn, tradeNo, found, dialogs,
                 trade, complete, told>>

\* Mutant: any status but unpaid is a success.
PolledLoosely(f) ==
  /\ PollOver(f)
  /\ order[trade[f]] # "unpaid"
  /\ complete' = Set(complete, f, TRUE) /\ MonitorOver(f) /\ Tell(f)
  /\ UNCHANGED <<server, request, signedIn, tradeNo, found, dialogs,
                 trade, ticks, piled>>

\* isPaymentComplete is not looked at again after the await.  An order that
\* is paid or cancelled stays so: the answer cannot be old.  A callback that
\* throws leaves the timer to its next tick.
Polled(f) ==
  /\ PollOver(f)
  /\ order[trade[f]] # "unpaid"
  /\ complete' = Set(complete, f, TRUE)
  /\ IF order[trade[f]] = "paid" THEN Tell(f) /\ (MonitorOver(f) \/ UNCHANGED pc)
     ELSE MonitorOver(f) /\ UNCHANGED told
  /\ UNCHANGED <<server, request, signedIn, tradeNo, found, dialogs,
                 trade, ticks, piled>>

\* "Unpaid", and the error of both attempts, change nothing; an error of
\* authentication deletes the credentials.
PolledInVain(f) ==
  /\ PollOver(f)
  /\ signedIn' \in {signedIn, FALSE}
  /\ UNCHANGED <<server, request, tradeNo, pc, found, dialogs, trade,
                 ticks, complete, piled, told>>

-----------------------------------------------------------------------------
(* The user pays in the browser; the user or the server cancels an order.  *)

Decide(o, status) ==
  /\ order[o] = "unpaid"
  /\ Become(o, status)
  /\ UNCHANGED <<late, request, signedIn, tradeNo, pc, found,
                 dialogs, trade, monitor, told>>

Pay(o) == Decide(o, "paid") /\ \E f \in Flows : trade[f] = o
Withdraw(o) == Decide(o, "cancelled")

-----------------------------------------------------------------------------
Receive(f) == \/ Fetched(f) \/ Cancelled(f) \/ Created(f) \/ ShowMethods(f)
              \/ CheckedOut(f) \/ Failed(f)

Next == \/ \E f \in Flows :
             \/ Subscribe(f) \/ Choose(f) \/ Close(f)
             \/ Serve(f) \/ Receive(f) \/ Timeout(f) \/ Tick(f)
             \/ Polled(f) \/ PolledInVain(f)
        \/ ServeLate
        \/ \E o \in Orders : Pay(o) \/ Withdraw(o)

\* The one event loop runs something that is due; the server promises nothing.
Fairness == WF_vars(\E f \in Flows : Receive(f) \/ Timeout(f) \/ Tick(f))

Spec == Init /\ [][Next]_vars /\ Fairness

-----------------------------------------------------------------------------
(* Properties                                                              *)

\* The user is asked to pay only once every order that was found unpaid has
\* been settled, whatever is retried, given up or handled late: cancelling is
\* awaited, and a flow whose cancelling fails ends there, unless the server
\* reports the failure with the status 200.
NothingLeftUnpaid ==
  \A f \in Flows : pc[f] = "choose" => unpaid[f] \cap Unpaid = {}

\* The payment is reported as a success only for an order that is paid, and
\* once, unless polls have piled up behind a slow server.
SuccessMeansPaid ==
  \A f \in Flows : told[f] > 0 => /\ order[trade[f]] = "paid"
                                  /\ told[f] = 1 \/ piled[f]

\* No tap is left waiting for ever, however the server behaves, and every
\* monitor ends.
FlowsEnd == []<>(\A f \in Flows : pc[f] \notin Asking \cup {"watch"})
==============================================================================
