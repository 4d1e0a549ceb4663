-------------------------- MODULE BoxServiceProofs --------------------------
(***************************************************************************)
(* Proofs about BoxService, for every set of jobs: type correctness, and   *)
(* that unless a reload or an alert met another job a started service is   *)
(* whole, a stopped one clean, no core orphaned, and the setting read at   *)
(* boot the status.  The invariant says what each status and each place of *)
(* the one job at work mean for what is open.  However jobs interfere,     *)
(* none is stuck, none goes in circles and no status is abandoned.         *)
(*                                                                         *)
(* After them the proofs about the service's NetworkMonitor, for every set *)
(* of networks, queries and versions: its actor outlives all but the       *)
(* queries of a core that was closed under them, and what it tells the     *)
(* core is the system's network.                                           *)
(***************************************************************************)
EXTENDS BoxService, NetworkMonitor, SequenceTheorems, TLAPS

-----------------------------------------------------------------------------
(* The inductive invariant.                                                *)

\* The kinds of jobs found at each place.
KindOK == \A j \in Jobs :
   /\ Ended(j) <=> kind[j] = None
   /\ pc[j] = "command" => kind[j] = "start"
   /\ pc[j] \in {"show", "get", "network", "create", "openTun", "startCore", "adopt"}
         => kind[j] \in {"start", "reload"}
   /\ pc[j] \in {"closeTun", "closeBox"} => kind[j] \in {"stop", "reload"}
   /\ pc[j] \in {"closeServer", "stopped"} => kind[j] = "stop"
   /\ pc[j] = "asked" => kind[j] = "reload"

\* A job at work, other than one that only has its alert to give.
Active(j) == Busy(j) /\ pc[j] # "alert"
NoneActive == \A j \in Jobs : ~Active(j)

\* At most one job is at work and one at its alert, and no alert is due while
\* a reload is at work.
Alone == \A j, k \in Jobs :
   /\ Active(j) /\ Active(k) => j = k
   /\ pc[j] = "alert" /\ pc[k] = "alert" => j = k
   /\ Active(j) /\ kind[j] = "reload" => pc[k] # "alert"

\* Nothing is open but what failed jobs left.
Down == live \subseteq Failed /\ open \subseteq Failed

\* The fields name all that is open.
Whole == /\ box \in Jobs /\ box \in live /\ tun = box /\ box \in open
         /\ command \in serving /\ registered /\ startedByUser
         /\ live \subseteq {box} \cup Failed
         /\ open \subseteq {box} \cup Failed

\* What the status and the value still posted mean.
StatusMeans ==
   /\ pending = None <=> posted = {}
   /\ pending \in {None, "Starting", "Started"}
   /\ pending = "Starting" => /\ status = "Started"
                              /\ \E r \in Jobs : Active(r)
   /\ pending = "Started" => /\ status = "Starting" /\ NoneActive /\ Whole
                             /\ posted = {box} /\ pc[box] = "shown"
   /\ status = "Stopped" => NoneActive /\ pending = None /\ Down /\ ~startedByUser
   /\ status = "Starting" /\ NoneActive /\ pending = None
         => Down /\ \E a \in Jobs : pc[a] = "alert"
   /\ status = "Started" /\ NoneActive
         => pending = None /\ Whole /\ pc[box] \in {"shown", "idle", "alert"}
   /\ status = "Stopping" => pending = None /\ ~NoneActive

\* What the place of the job at work means.
PlaceMeans == \A j \in Jobs : Active(j) =>
   /\ kind[j] = "stop" => status = "Stopping" /\ pending = None
   /\ kind[j] = "start" => /\ status = "Starting" /\ pending = None /\ registered
                           /\ pc[j] # "command" => startedByUser /\ command \in serving
   /\ kind[j] = "reload" =>
        /\ registered /\ startedByUser /\ command \in serving
        /\ \/ status = "Starting" /\ pending = None
           \/ /\ status = "Started" /\ pending = "Starting" /\ posted = {j}
              /\ pc[j] \in {"closeTun", "closeBox", "show"}
   /\ pc[j] = "closeTun" => /\ tun = box
                            /\ live \subseteq {box} \cup Failed
                            /\ open \subseteq {box} \cup Failed
   /\ pc[j] = "closeBox" => live \subseteq {box} \cup Failed /\ open \subseteq Failed
   /\ pc[j] \in {"command", "show", "get", "network", "create", "openTun", "closeServer",
                 "stopped"} => Down
   /\ pc[j] \in {"get", "network"} => monitored
   /\ pc[j] \in {"startCore", "adopt"} => /\ tun = j /\ j \in open
                                         /\ open \subseteq {j} \cup Failed
   /\ pc[j] = "startCore" => live \subseteq Failed
   /\ pc[j] = "adopt" => j \in live /\ live \subseteq {j} \cup Failed
   /\ pc[j] = "stopped" => ~startedByUser

Orderly == Alone /\ StatusMeans /\ PlaceMeans

IInv == TypeOK /\ KindOK /\ (~interfered => Orderly)

-----------------------------------------------------------------------------
LEMMA InitIInv == Init => IInv
<1> SUFFICES ASSUME Init PROVE IInv OBVIOUS
<1>1. TypeOK BY DEF Init, TypeOK, Statuses, Kinds, Places
<1>2. KindOK BY DEF Init, KindOK, Ended
<1>3. NoneActive /\ ~(\E j \in Jobs : pc[j] = "alert")
  BY DEF Init, NoneActive, Active, Busy
<1>4. Orderly
  BY <1>3, NoneAssumption DEF Init, Orderly, Alone, StatusMeans, PlaceMeans, Down,
     NoneActive,
     Statuses
<1> QED BY <1>1, <1>2, <1>4 DEF IInv

LEMMA TypeStep == ASSUME TypeOK, [Next]_vars PROVE TypeOK'
<1> USE DEF TypeOK, Statuses, Kinds, Places, Goto, Return, Begin, Meets, Crosses, Post,
        Throws,
        Passes, looper, fields, opened
<1>1. ASSUME NEW j \in Jobs, StartCommand(j) PROVE TypeOK'
  BY <1>1 DEF StartCommand
<1>2. ASSUME NEW j \in Jobs, StopService(j) PROVE TypeOK'
  BY <1>2 DEF StopService
<1>3. ASSUME NEW j \in Jobs, AskReload(j) PROVE TypeOK'
  BY <1>3 DEF AskReload
<1>4. ASSUME NEW j \in Jobs, StartCommandServer(j) PROVE TypeOK'
  BY <1>4 DEF StartCommandServer
<1>5. ASSUME NEW j \in Jobs, Build(j) PROVE TypeOK'
  BY <1>5 DEF Build
<1>6. ASSUME NEW j \in Jobs, GetNetwork(j) \/ AskSystem(j) \/ NewService(j) PROVE TypeOK'
  BY <1>6 DEF GetNetwork, AskSystem, NewService
<1>7. ASSUME NEW j \in Jobs, OpenTun(j) PROVE TypeOK'
  BY <1>7 DEF OpenTun
<1>8. ASSUME NEW j \in Jobs, StartCore(j) PROVE TypeOK'
  BY <1>8 DEF StartCore
<1>9. ASSUME NEW j \in Jobs, Adopt(j) PROVE TypeOK'
  BY <1>9 DEF Adopt
<1>10. ASSUME NEW j \in Jobs, ShowStarted(j) PROVE TypeOK'
  BY <1>10 DEF ShowStarted
<1>11. ASSUME NEW j \in Jobs, StopAndAlert(j) PROVE TypeOK'
  BY <1>11 DEF StopAndAlert
<1>12. ASSUME NEW j \in Jobs, ServiceReload(j) PROVE TypeOK'
  BY <1>12 DEF ServiceReload
<1>13. ASSUME NEW j \in Jobs, CloseTun(j) PROVE TypeOK'
  BY <1>13 DEF CloseTun
<1>14. ASSUME NEW j \in Jobs, CloseBox(j) PROVE TypeOK'
  BY <1>14 DEF CloseBox
<1>15. ASSUME NEW j \in Jobs, CloseServer(j) PROVE TypeOK'
  BY <1>15 DEF CloseServer
<1>16. ASSUME NEW j \in Jobs, Stopped(j) PROVE TypeOK'
  BY <1>16 DEF Stopped
<1>17. ASSUME Deliver PROVE TypeOK'
  BY <1>17 DEF Deliver
<1>18. ASSUME NEW j \in Jobs, GetUnheard(j) PROVE TypeOK'
  BY <1>18 DEF GetUnheard
<1>19. ASSUME Put PROVE TypeOK'
  BY <1>19 DEF Put, Waits
<1>20. ASSUME UNCHANGED vars PROVE TypeOK'
  BY <1>20 DEF vars
<1> QED
  BY <1>1, <1>2, <1>3, <1>4, <1>5, <1>6, <1>7, <1>8, <1>9, <1>10, <1>11, <1>12, <1>13,
     <1>14, <1>15, <1>16, <1>17, <1>18, <1>19, <1>20 DEF Next, Run

LEMMA KindStep == ASSUME TypeOK, KindOK, [Next]_vars PROVE KindOK'
<1> USE NoneAssumption DEF TypeOK, KindOK, Kinds, Ended, Goto, Return, Begin, Free,
        Throws, Passes, looper,
        fields, opened
<1>1. ASSUME NEW j \in Jobs, StartCommand(j) PROVE KindOK'
  BY <1>1 DEF StartCommand
<1>2. ASSUME NEW j \in Jobs, StopService(j) PROVE KindOK'
  BY <1>2 DEF StopService
<1>3. ASSUME NEW j \in Jobs, AskReload(j) PROVE KindOK'
  BY <1>3 DEF AskReload
<1>4. ASSUME NEW j \in Jobs, StartCommandServer(j) PROVE KindOK'
  BY <1>4 DEF StartCommandServer
<1>5. ASSUME NEW j \in Jobs, Build(j) PROVE KindOK'
  BY <1>5 DEF Build
<1>6. ASSUME NEW j \in Jobs, GetNetwork(j) \/ AskSystem(j) \/ NewService(j) PROVE KindOK'
  BY <1>6 DEF GetNetwork, AskSystem, NewService
<1>7. ASSUME NEW j \in Jobs, OpenTun(j) PROVE KindOK'
  BY <1>7 DEF OpenTun
<1>8. ASSUME NEW j \in Jobs, StartCore(j) PROVE KindOK'
  BY <1>8 DEF StartCore
<1>9. ASSUME NEW j \in Jobs, Adopt(j) PROVE KindOK'
  BY <1>9 DEF Adopt
<1>10. ASSUME NEW j \in Jobs, ShowStarted(j) PROVE KindOK'
  BY <1>10 DEF ShowStarted
<1>11. ASSUME NEW j \in Jobs, StopAndAlert(j) PROVE KindOK'
  BY <1>11 DEF StopAndAlert
<1>12. ASSUME NEW j \in Jobs, ServiceReload(j) PROVE KindOK'
  <2>1. CASE command = None BY <1>12, <2>1 DEF ServiceReload
  <2>2. CASE command # None BY <1>12, <2>2 DEF ServiceReload
  <2> QED BY <2>1, <2>2
<1>13. ASSUME NEW j \in Jobs, CloseTun(j) PROVE KindOK'
  BY <1>13 DEF CloseTun
<1>14. ASSUME NEW j \in Jobs, CloseBox(j) PROVE KindOK'
  BY <1>14 DEF CloseBox
<1>15. ASSUME NEW j \in Jobs, CloseServer(j) PROVE KindOK'
  BY <1>15 DEF CloseServer
<1>16. ASSUME NEW j \in Jobs, Stopped(j) PROVE KindOK'
  BY <1>16 DEF Stopped
<1>17. ASSUME Deliver PROVE KindOK'
  BY <1>17 DEF Deliver
<1>18. ASSUME NEW j \in Jobs, GetUnheard(j) PROVE KindOK'
  BY <1>18 DEF GetUnheard
<1>19. ASSUME Put PROVE KindOK'
  BY <1>19 DEF Put, Waits
<1>20. ASSUME UNCHANGED vars PROVE KindOK'
  BY <1>20 DEF vars
<1> QED
  BY <1>1, <1>2, <1>3, <1>4, <1>5, <1>6, <1>7, <1>8, <1>9, <1>10, <1>11, <1>12, <1>13,
     <1>14, <1>15, <1>16, <1>17, <1>18, <1>19, <1>20 DEF Next, Run

\* An exception leaves an orderly service, unless it crosses another job.
LEMMA Thrown == ASSUME IInv, ~interfered', NEW j \in Jobs, Throws(j), OnMain(j),
                       pc[j] \in {"show", "get", "create", "openTun", "startCore", "shown"}
                PROVE  Orderly'
<1>1. Orderly /\ (\A d \in Jobs \ {j} : ~Busy(d)) /\ box \in Failed \cup {None, j}
  BY DEF IInv, Throws, Crosses
<1>2. /\ pc' = [pc EXCEPT ![j] = "alert"] /\ pc \in [Jobs -> Places]
      /\ UNCHANGED <<status, pending, posted, registered, startedByUser, kind>>
      /\ UNCHANGED <<box, tun, command, live, open, serving>>
  BY DEF IInv, TypeOK, Throws, Goto, looper, fields, opened
<1>3. /\ \A d \in Jobs \ {j} : pc'[d] = pc[d]
      /\ pc'[j] = "alert"
  BY <1>2
<1>4. NoneActive' /\ (\A d \in Jobs : pc'[d] = "alert" => d = j)
  BY <1>1, <1>3 DEF NoneActive, Active, Busy
<1>5. Failed' = Failed \cup {j} BY <1>3 DEF Failed
<1>6. Alone' BY <1>4 DEF Alone, NoneActive
<1>7. PlaceMeans' BY <1>4 DEF PlaceMeans, NoneActive
<1>8. StatusMeans'
  <2>1. CASE pc[j] = "shown"
    <3>1. NoneActive BY <1>1, <2>1 DEF NoneActive, Active, Busy
    <3>2. StatusMeans BY <1>1 DEF Orderly
    <3>3. pending # "Started"
      BY <1>1, <2>1, <3>2, NoneAssumption DEF StatusMeans, OnMain, Whole, Failed
    <3>4. pending = None BY <3>1, <3>2, <3>3 DEF StatusMeans, NoneActive
    <3>5. status = "Started" => pc'[box] \in {"shown", "idle", "alert"} /\ Whole
      BY <1>3, <3>1, <3>2, <3>4 DEF StatusMeans, Whole
    <3>6. Down => Down' BY <1>2, <1>5 DEF Down
    <3>7. Whole => Whole' BY <1>2, <1>5 DEF Whole
    <3> QED BY <1>2, <1>4, <3>1, <3>2, <3>4, <3>5, <3>6, <3>7, NoneAssumption
            DEF StatusMeans, Statuses
  <2>2. CASE pc[j] # "shown"
    <3>1. Active(j) BY <2>2 DEF Active, Busy
    <3>2. /\ status = "Starting" /\ pending = None
          /\ live \subseteq Failed /\ open \subseteq Failed \cup {j}
      BY <1>1, <2>2, <3>1, NoneAssumption
         DEF Orderly, PlaceMeans, StatusMeans, OnMain, IInv, KindOK, Down
    <3>3. Down' BY <1>2, <1>5, <3>2 DEF Down
    <3> QED BY <1>1, <1>2, <1>4, <3>2, <3>3, NoneAssumption
            DEF StatusMeans, Statuses, Orderly
  <2> QED BY <2>1, <2>2
<1> QED BY <1>6, <1>7, <1>8 DEF Orderly

LEMMA OrderlyStep == ASSUME IInv, [Next]_vars, ~interfered' PROVE Orderly'
<1> USE NoneAssumption DEF Statuses, Kinds, Places, Ended, Alone, StatusMeans,
        PlaceMeans, Down,
        Whole, NoneActive, Active, Busy, Failed, Orderly, IInv, TypeOK, KindOK
<1>1. ASSUME NEW j \in Jobs, StartCommand(j) PROVE Orderly'
  <2>1. /\ status = "Stopped"
        /\ Ended(j)
        /\ j \notin live \cup open \cup serving
        /\ j \notin {box, tun, command}
        /\ ~interfered
        /\ status' = "Starting"
        /\ registered' = TRUE
        /\ kind' = [kind EXCEPT ![j] = "start"]
        /\ pc' = [pc EXCEPT ![j] = "command"]
        /\ UNCHANGED <<pending, posted, startedByUser, box, tun, command, live, open,
                       serving>>
    BY <1>1 DEF StartCommand, Goto, Return, Begin, Free, Meets, Crosses, Post,
      OnMain, Throws, Passes, looper, fields, opened
  <2>2. Alone' BY <2>1
  <2>3. StatusMeans' BY <2>1
  <2>4. PlaceMeans' BY <2>1
  <2> QED BY <2>2, <2>3, <2>4
<1>2. ASSUME NEW j \in Jobs, StopService(j) PROVE Orderly'
  <2>1. /\ status = "Started"
        /\ \A d \in Jobs : Busy(d) => kind[d] # "reload"
        /\ Ended(j)
        /\ j \notin live \cup open \cup serving
        /\ j \notin {box, tun, command}
        /\ ~interfered
        /\ status' = "Stopping"
        /\ registered' = FALSE
        /\ kind' = [kind EXCEPT ![j] = "stop"]
        /\ pc' = [pc EXCEPT ![j] = "closeTun"]
        /\ UNCHANGED <<pending, posted, startedByUser, box, tun, command, live, open,
                       serving>>
    BY <1>2 DEF StopService, Goto, Return, Begin, Free, Meets, Crosses, Post,
      OnMain, Throws, Passes, looper, fields, opened
  <2>2. Alone' BY <2>1
  <2>3. StatusMeans' BY <2>1
  <2>4. PlaceMeans' BY <2>1
  <2> QED BY <2>2, <2>3, <2>4
<1>3. ASSUME NEW j \in Jobs, AskReload(j) PROVE Orderly'
  <2>1. /\ Ended(j)
        /\ j \notin live \cup open \cup serving
        /\ j \notin {box, tun, command}
        /\ ~interfered
        /\ kind' = [kind EXCEPT ![j] = "reload"]
        /\ pc' = [pc EXCEPT ![j] = "asked"]
        /\ UNCHANGED <<status, pending, posted, registered, startedByUser, box, tun,
                       command, live, open, serving, monitored>>
    BY <1>3 DEF AskReload, Goto, Return, Begin, Free, Meets, Crosses, Post,
      OnMain, Throws, Passes, looper, fields, opened
  <2>2. Alone' BY <2>1
  <2>3. StatusMeans' BY <2>1
  <2>4. PlaceMeans' BY <2>1
  <2> QED BY <2>2, <2>3, <2>4
<1>4. ASSUME NEW j \in Jobs, StartCommandServer(j) PROVE Orderly'
  <2>1. CASE Goto(j, "alert") /\ Crosses(j) /\ UNCHANGED <<command, serving>>
    <3>1. /\ pc[j] = "command"
          /\ \A d \in Jobs \ {j} : ~Busy(d)
          /\ ~interfered
          /\ startedByUser' = TRUE
          /\ pc' = [pc EXCEPT ![j] = "alert"]
          /\ UNCHANGED <<status, pending, posted, registered, kind, box, tun, command,
                         live, open, serving>>
      <4>1. /\ pc[j] = "command" /\ startedByUser' = TRUE
            /\ UNCHANGED <<looper, registered, kind, box, tun, live, open>>
        BY <1>4 DEF StartCommandServer
      <4> QED BY <2>1, <4>1 DEF Goto, Crosses, looper
    <3>2. Alone' BY <3>1
    <3>3. StatusMeans' BY <3>1
    <3>4. PlaceMeans' BY <3>1
    <3> QED BY <3>2, <3>3, <3>4
  <2>2. CASE /\ Goto(j, "show") /\ UNCHANGED interfered
             /\ command' = j /\ serving' = serving \cup {j}
    <3>1. /\ pc[j] = "command"
          /\ ~interfered
          /\ startedByUser' = TRUE
          /\ pc' = [pc EXCEPT ![j] = "show"]
          /\ command' = j
          /\ serving' = serving \cup {j}
          /\ UNCHANGED <<status, pending, posted, registered, kind, box, tun, live, open>>
      <4>1. /\ pc[j] = "command" /\ startedByUser' = TRUE
            /\ UNCHANGED <<looper, registered, kind, box, tun, live, open>>
        BY <1>4 DEF StartCommandServer
      <4> QED BY <2>2, <4>1 DEF Goto, looper
    <3>2. Alone' BY <3>1
    <3>3. StatusMeans' BY <3>1
    <3>4. PlaceMeans' BY <3>1
    <3> QED BY <3>2, <3>3, <3>4
  <2> QED BY <1>4, <2>1, <2>2 DEF StartCommandServer
<1>5. ASSUME NEW j \in Jobs, Build(j) PROVE Orderly'
  <2>1. CASE Throws(j) BY <1>5, <2>1, Thrown DEF Build
  <2>2. CASE ~Throws(j)
    <3>1. /\ pc[j] = "show"
          /\ j \notin posted
          /\ ~interfered
          /\ monitored' = TRUE
          /\ pc' = [pc EXCEPT ![j] = "get"]
          /\ UNCHANGED <<status, pending, posted, registered, startedByUser, kind, box,
                         tun, command, live, open, serving>>
      BY <1>5, <2>2 DEF Build, Goto, OnMain, looper, fields, opened
    <3>2. Alone' BY <3>1
    <3>3. StatusMeans' BY <3>1
    <3>4. PlaceMeans' BY <3>1
    <3> QED BY <3>2, <3>3, <3>4
  <2> QED BY <2>1, <2>2
<1>6. ASSUME NEW j \in Jobs, GetNetwork(j) \/ AskSystem(j) \/ NewService(j) PROVE Orderly'
  <2>1. pc[j] \in {"get", "create"} BY <1>6 DEF GetNetwork, AskSystem, NewService
  <2>2. CASE Throws(j)
    <3>1. ~interfered /\ Active(j) BY <2>1, <2>2 DEF Throws, Crosses
    <3>2. pending = None BY <2>1, <3>1
    <3>3. OnMain(j) BY <3>1, <3>2 DEF OnMain
    <3> QED BY <2>1, <2>2, <3>3, Thrown
  <2>3. ASSUME NEW place \in {"network", "create", "openTun"}, Passes(j, place),
               pc[j] = "get" => monitored, place = "network" => pc[j] = "get"
        PROVE  Orderly'
    <3>1. /\ ~interfered
          /\ pc' = [pc EXCEPT ![j] = place]
          /\ UNCHANGED <<status, pending, posted, registered, startedByUser, kind, box,
                         tun, command, live, open, serving, monitored>>
      BY <2>3 DEF Passes, Goto, looper, fields, opened
    <3>2. Alone' BY <2>1, <3>1
    <3>3. StatusMeans' BY <2>1, <3>1
    <3>4. PlaceMeans' BY <2>1, <2>3, <3>1
    <3> QED BY <3>2, <3>3, <3>4
  <2>4. ~Throws(j) => ~interfered BY <1>6 DEF GetNetwork, AskSystem, NewService, Passes
  <2>5. ~Throws(j) => (pc[j] = "get" => monitored) BY <2>4
  <2> QED BY <1>6, <2>2, <2>3, <2>5 DEF GetNetwork, AskSystem, NewService
<1>7. ASSUME NEW j \in Jobs, OpenTun(j) PROVE Orderly'
  <2>1. CASE Throws(j)
    <3>1. ~interfered /\ Active(j) BY <1>7, <2>1 DEF OpenTun, Throws, Crosses
    <3>2. kind[j] \in {"start", "reload"} BY <1>7 DEF OpenTun
    <3>3. pending = None BY <1>7, <3>1, <3>2 DEF OpenTun
    <3>4. OnMain(j) BY <3>1, <3>3 DEF OnMain
    <3> QED BY <1>7, <2>1, <3>4, Thrown DEF OpenTun
  <2>2. CASE ~Throws(j)
    <3>1. /\ pc[j] = "openTun"
          /\ ~interfered
          /\ pc' = [pc EXCEPT ![j] = "startCore"]
          /\ tun' = j
          /\ open' = open \cup {j}
          /\ UNCHANGED <<status, pending, posted, registered, startedByUser, kind, box,
                         command, live, serving>>
      BY <1>7, <2>2 DEF OpenTun, Goto, Return, Begin, Free, Meets, Crosses, Post,
        OnMain, Passes, looper, fields, opened
    <3>2. Alone' BY <3>1
    <3>3. StatusMeans' BY <3>1
    <3>4. PlaceMeans' BY <3>1
    <3> QED BY <3>2, <3>3, <3>4
  <2> QED BY <2>1, <2>2
<1>8. ASSUME NEW j \in Jobs, StartCore(j) PROVE Orderly'
  <2>1. CASE Throws(j)
    <3>1. ~interfered /\ Active(j) BY <1>8, <2>1 DEF StartCore, Throws, Crosses
    <3>2. kind[j] \in {"start", "reload"} BY <1>8 DEF StartCore
    <3>3. pending = None BY <1>8, <3>1, <3>2 DEF StartCore
    <3>4. OnMain(j) BY <3>1, <3>3 DEF OnMain
    <3> QED BY <1>8, <2>1, <3>4, Thrown DEF StartCore
  <2>2. CASE ~Throws(j)
    <3>1. /\ pc[j] = "startCore"
          /\ ~interfered
          /\ pc' = [pc EXCEPT ![j] = "adopt"]
          /\ live' = live \cup {j}
          /\ UNCHANGED <<status, pending, posted, registered, startedByUser, kind, box,
                         tun, command, open, serving>>
      BY <1>8, <2>2 DEF StartCore, Goto, Return, Begin, Free, Meets, Crosses, Post,
        OnMain, Passes, looper, fields, opened
    <3>2. Alone' BY <3>1
    <3>3. StatusMeans' BY <3>1
    <3>4. PlaceMeans' BY <3>1
    <3> QED BY <3>2, <3>3, <3>4
  <2> QED BY <2>1, <2>2
<1>9. ASSUME NEW j \in Jobs, Adopt(j) PROVE Orderly'
  <2>1. /\ pc[j] = "adopt"
        /\ ~interfered
        /\ box' = j
        /\ pending' = "Started"
        /\ posted' = posted \cup {j}
        /\ pc' = [pc EXCEPT ![j] = "shown"]
        /\ UNCHANGED <<status, registered, startedByUser, kind, tun, command, live,
                       open, serving>>
    BY <1>9 DEF Adopt, Goto, Return, Begin, Free, Meets, Crosses, Post,
      OnMain, Throws, Passes, looper, fields, opened
  <2>2. Alone' BY <2>1
  <2>3. StatusMeans' BY <2>1
  <2>4. PlaceMeans' BY <2>1
  <2> QED BY <2>2, <2>3, <2>4
<1>10. ASSUME NEW j \in Jobs, ShowStarted(j) PROVE Orderly'
  <2>1. CASE Throws(j) BY <1>10, <2>1, Thrown DEF ShowStarted
  <2>2. CASE ~Throws(j)
    <3>1. /\ pc[j] = "shown"
          /\ j \notin posted
          /\ ~interfered
          /\ kind' = [kind EXCEPT ![j] = None]
          /\ pc' = [pc EXCEPT ![j] = "idle"]
          /\ UNCHANGED <<status, pending, posted, registered, startedByUser, box, tun,
                         command, live, open, serving, monitored>>
      BY <1>10, <2>2 DEF ShowStarted, Goto, Return, Begin, Free, Meets, Crosses, Post,
        OnMain, Passes, looper, fields, opened
    <3>2. Alone' BY <3>1
    <3>3. StatusMeans' BY <3>1
    <3>4. PlaceMeans' BY <3>1
    <3> QED BY <3>2, <3>3, <3>4
  <2> QED BY <2>1, <2>2
<1>11. ASSUME NEW j \in Jobs, StopAndAlert(j) PROVE Orderly'
  <2>1. /\ pc[j] = "alert"
        /\ \A d \in Jobs \ {j} : ~Busy(d)
        /\ box \in Failed \cup {None, j}
        /\ ~interfered
        /\ startedByUser' = FALSE
        /\ registered' = FALSE
        /\ status' = "Stopped"
        /\ kind' = [kind EXCEPT ![j] = None]
        /\ pc' = [pc EXCEPT ![j] = "failed"]
        /\ UNCHANGED <<pending, posted, box, tun, command, live, open, serving>>
    BY <1>11 DEF StopAndAlert, Goto, Return, Begin, Free, Meets, Crosses, Post,
      OnMain, Throws, Passes, looper, fields, opened
  <2>2. Alone' BY <2>1
  <2>3. StatusMeans' BY <2>1
  <2>4. PlaceMeans' BY <2>1
  <2> QED BY <2>2, <2>3, <2>4
<1>12. ASSUME NEW j \in Jobs, ServiceReload(j) PROVE Orderly'
  <2>1. CASE command = None
    <3>1. /\ pc[j] = "asked"
          /\ ~interfered
          /\ kind' = [kind EXCEPT ![j] = None]
          /\ pc' = [pc EXCEPT ![j] = "idle"]
          /\ UNCHANGED <<status, pending, posted, registered, startedByUser, box, tun,
                         command, live, open, serving, monitored>>
      BY <1>12, <2>1 DEF ServiceReload, Goto, Return, Begin, Free, Meets, Crosses, Post,
        OnMain, Throws, Passes, looper, fields, opened
    <3>2. Alone' BY <3>1
    <3>3. StatusMeans' BY <3>1
    <3>4. PlaceMeans' BY <3>1
    <3> QED BY <3>2, <3>3, <3>4
  <2>2. CASE command # None
    <3>1. /\ pc[j] = "asked"
          /\ status = "Started"
          /\ \A d \in Jobs : ~Busy(d)
          /\ ~interfered
          /\ pending' = "Starting"
          /\ posted' = posted \cup {j}
          /\ pc' = [pc EXCEPT ![j] = "closeTun"]
          /\ UNCHANGED <<status, registered, startedByUser, kind, box, tun, command,
                         live, open, serving>>
      BY <1>12, <2>2 DEF ServiceReload, Goto, Return, Begin, Free, Meets, Crosses, Post,
        OnMain, Throws, Passes, looper, fields, opened
    <3>2. Alone' BY <3>1
    <3>3. StatusMeans' BY <3>1
    <3>4. PlaceMeans' BY <3>1
    <3> QED BY <3>2, <3>3, <3>4
  <2> QED BY <2>1, <2>2
<1>13. ASSUME NEW j \in Jobs, CloseTun(j) PROVE Orderly'
  <2>1. /\ pc[j] = "closeTun"
        /\ ~interfered
        /\ tun' = None
        /\ open' = open \ {tun}
        /\ pc' = [pc EXCEPT ![j] = "closeBox"]
        /\ UNCHANGED <<status, pending, posted, registered, startedByUser, kind, box,
                       command, live, serving>>
    BY <1>13 DEF CloseTun, Goto, Return, Begin, Free, Meets, Crosses, Post,
      OnMain, Throws, Passes, looper, fields, opened
  <2>2. Alone' BY <2>1
  <2>3. StatusMeans' BY <2>1
  <2>4. PlaceMeans' BY <2>1
  <2> QED BY <2>2, <2>3, <2>4
<1>14. ASSUME NEW j \in Jobs, CloseBox(j) PROVE Orderly'
  <2>1. /\ pc[j] = "closeBox"
        /\ ~interfered
        /\ box' = None
        /\ live' = live \ {box}
        /\ pc' = [pc EXCEPT ![j] = IF kind[j] = "stop" THEN "closeServer" ELSE "show"]
        /\ UNCHANGED <<status, pending, posted, registered, startedByUser, kind, tun,
                       command, open, serving>>
    BY <1>14 DEF CloseBox, Goto, Return, Begin, Free, Meets, Crosses, Post,
      OnMain, Throws, Passes, looper, fields, opened
  <2>2. Alone' BY <2>1
  <2>3. StatusMeans' BY <2>1
  <2>4. PlaceMeans' BY <2>1
  <2> QED BY <2>2, <2>3, <2>4
<1>15. ASSUME NEW j \in Jobs, CloseServer(j) PROVE Orderly'
  <2>1. /\ pc[j] = "closeServer"
        /\ ~interfered
        /\ command' = None
        /\ serving' = serving \ {command}
        /\ startedByUser' = FALSE
        /\ pc' = [pc EXCEPT ![j] = "stopped"]
        /\ UNCHANGED <<status, pending, posted, registered, kind, box, tun, live, open>>
    BY <1>15 DEF CloseServer, Goto, Return, Begin, Free, Meets, Crosses, Post,
      OnMain, Throws, Passes, looper, fields, opened
  <2>2. Alone' BY <2>1
  <2>3. StatusMeans' BY <2>1
  <2>4. PlaceMeans' BY <2>1
  <2> QED BY <2>2, <2>3, <2>4
<1>16. ASSUME NEW j \in Jobs, Stopped(j) PROVE Orderly'
  <2>1. /\ pc[j] = "stopped"
        /\ j \notin posted
        /\ ~interfered
        /\ status' = "Stopped"
        /\ kind' = [kind EXCEPT ![j] = None]
        /\ pc' = [pc EXCEPT ![j] = "idle"]
        /\ UNCHANGED <<pending, posted, registered, startedByUser, box, tun, command,
                       live, open, serving>>
    BY <1>16 DEF Stopped, Goto, Return, Begin, Free, Meets, Crosses, Post,
      OnMain, Throws, Passes, looper, fields, opened
  <2>2. Alone' BY <2>1
  <2>3. StatusMeans' BY <2>1
  <2>4. PlaceMeans' BY <2>1
  <2> QED BY <2>2, <2>3, <2>4
<1>17. ASSUME Deliver PROVE Orderly'
  BY <1>17 DEF Deliver, looper, fields, opened
<1>18. ASSUME NEW j \in Jobs, GetUnheard(j) PROVE Orderly'
  \* The place of an orderly job says that it is heard.
  <2>1. pc[j] = "get" /\ ~monitored /\ ~interfered BY <1>18 DEF GetUnheard
  <2> QED BY <2>1
<1>19. ASSUME Put PROVE Orderly'
  <2>1. /\ ~interfered
        /\ pc' = [j \in Jobs |-> IF pc[j] = "network" THEN "create" ELSE pc[j]]
        /\ UNCHANGED <<status, pending, posted, registered, startedByUser, kind, box,
                       tun, command, live, open, serving, monitored>>
    BY <1>19 DEF Put, Waits, looper, fields, opened
  <2>2. Alone' BY <2>1
  <2>3. StatusMeans' BY <2>1
  <2>4. PlaceMeans' BY <2>1
  <2> QED BY <2>2, <2>3, <2>4
<1>20. ASSUME UNCHANGED vars PROVE Orderly'
  BY <1>20 DEF vars, looper, fields, opened
<1> QED
  BY <1>1, <1>2, <1>3, <1>4, <1>5, <1>6, <1>7, <1>8, <1>9,
     <1>10, <1>11, <1>12, <1>13, <1>14, <1>15, <1>16, <1>17, <1>18, <1>19, <1>20
     DEF Next, Run

LEMMA Invariant == Spec => []IInv
<1>1. IInv /\ [Next]_vars => IInv'
  <2> SUFFICES ASSUME IInv, [Next]_vars PROVE IInv' OBVIOUS
  <2>1. TypeOK' /\ KindOK' BY TypeStep, KindStep DEF IInv
  <2>2. ~interfered' => Orderly' BY OrderlyStep
  <2> QED BY <2>1, <2>2 DEF IInv
<1> QED BY InitIInv, <1>1, PTL DEF Spec

-----------------------------------------------------------------------------
(* The theorems.                                                           *)

\* Every variable of the service keeps its type.
THEOREM TypeCorrect == Spec => []TypeOK
<1>1. IInv => TypeOK BY DEF IInv
<1> QED BY <1>1, Invariant, PTL

\* A started service has its core, descriptor, command server and receiver.
THEOREM StartedIsWhole == Spec => []RunsWhole
<1>1. IInv => RunsWhole
  BY DEF IInv, Orderly, StatusMeans, RunsWhole, Quiet, NoneActive, Active, Whole
<1> QED BY <1>1, Invariant, PTL

\* No core runs that neither boxService names nor a failed job left behind.
THEOREM NoCoreOrphaned == Spec => []NoOrphan
<1>1. IInv => NoOrphan
  <2> SUFFICES ASSUME IInv, ~interfered
               PROVE  live \subseteq {box} \cup Failed \cup {j \in Jobs : pc[j] = "adopt"}
    BY DEF NoOrphan
  <2>1. TypeOK /\ KindOK /\ StatusMeans /\ PlaceMeans BY DEF IInv, Orderly
  <2>2. CASE NoneActive
    BY <2>1, <2>2, NoneAssumption DEF StatusMeans, Whole, Down, TypeOK, Statuses
  <2>3. ASSUME NEW j \in Jobs, Active(j)
        PROVE  live \subseteq {box} \cup Failed \cup {d \in Jobs : pc[d] = "adopt"}
    <3>1. pc[j] \in {"command", "show", "get", "network", "create", "openTun", "startCore",
                     "adopt", "closeTun", "closeBox", "closeServer", "stopped"}
      <4>1. pc[j] \in Places BY <2>1 DEF TypeOK
      <4>2. pc[j] \notin {"idle", "failed", "shown", "asked", "alert"}
        BY <2>3 DEF Active, Busy
      <4> QED BY <4>1, <4>2 DEF Places
    <3>2. pc[j] # "adopt" => live \subseteq {box} \cup Failed
      BY <2>1, <2>3, <3>1 DEF PlaceMeans, Down
    <3>3. pc[j] = "adopt" => live \subseteq {j} \cup Failed
      BY <2>1, <2>3 DEF PlaceMeans
    <3> QED BY <3>2, <3>3
  <2> QED BY <2>2, <2>3 DEF NoneActive
<1> QED BY <1>1, Invariant, PTL

\* A stopped service has left nothing open but what failed starts had opened.
THEOREM StopsClean == Spec => []StoppedClean
<1>1. IInv => StoppedClean
  BY DEF IInv, Orderly, StatusMeans, StoppedClean, Down
<1> QED BY <1>1, Invariant, PTL

\* The setting read at boot says whether the service was started.
THEOREM BootRestarts == Spec => []BootFollows
<1>1. IInv => BootFollows
  <2> SUFFICES ASSUME IInv, ~interfered, Quiet, pending = None
               PROVE  startedByUser <=> status = "Started"
    BY DEF BootFollows
  <2>1. NoneActive /\ (\A j \in Jobs : pc[j] # "alert") BY DEF Quiet, NoneActive,
        Active, Busy
  <2>2. TypeOK /\ StatusMeans BY DEF IInv, Orderly
  <2>3. status = "Started" => startedByUser BY <2>1, <2>2 DEF StatusMeans, Whole
  <2>4. status = "Stopped" => ~startedByUser BY <2>2 DEF StatusMeans
  <2>5. status \notin {"Starting", "Stopping"} BY <2>1, <2>2 DEF StatusMeans
  <2> QED BY <2>2, <2>3, <2>4, <2>5 DEF TypeOK, Statuses
<1> QED BY <1>1, Invariant, PTL

-----------------------------------------------------------------------------
(* The order of the statuses the app is shown.                             *)

\* A step backward: started without starting, or a stop taken back.
Backward == {<<"Stopped", "Started">>, <<"Stopped", "Stopping">>, <<"Starting", "Stopping">>,
             <<"Stopping", "Starting">>, <<"Stopping", "Started">>}

\* Unless a reload or an alert met another job, the status never goes backward:
\* a stopped service shows started only after starting, and one that is
\* stopping is not shown up again by a value that was posted before.
THEOREM StatusInOrder ==
  Spec => [][~interfered' => <<status, status'>> \notin Backward]_vars
<1>1. ASSUME IInv, [Next]_vars, ~interfered' PROVE <<status, status'>> \notin Backward
  <2>1. CASE Deliver
    <3>1. StatusMeans /\ pending \in {"Starting", "Started"} /\ status' = pending
      BY <1>1, <2>1 DEF Deliver, IInv, Orderly, StatusMeans
    <3> QED BY <3>1 DEF StatusMeans, Backward
  <2>2. ASSUME NEW j \in Jobs, StartCommand(j) \/ StopService(j) \/ StopAndAlert(j) \/ Stopped(j)
        PROVE  <<status, status'>> \notin Backward
    BY <2>2 DEF StartCommand, StopService, StopAndAlert, Stopped, Backward
  <2>3. ASSUME NEW j \in Jobs,
               \/ AskReload(j) \/ StartCommandServer(j) \/ Build(j) \/ GetNetwork(j)
               \/ AskSystem(j) \/ NewService(j) \/ OpenTun(j) \/ StartCore(j) \/ Adopt(j)
               \/ ShowStarted(j) \/ ServiceReload(j) \/ CloseTun(j) \/ CloseBox(j)
               \/ CloseServer(j)
        PROVE  status' = status
    BY <2>3 DEF AskReload, StartCommandServer, Build, GetNetwork, AskSystem, NewService,
       OpenTun, StartCore, Adopt, ShowStarted, ServiceReload, CloseTun, CloseBox, CloseServer,
       Post, Throws, Passes, looper
  <2>4. UNCHANGED vars \/ Put => status' = status BY DEF vars, Put, looper
  <2>5. status' = status => <<status, status'>> \notin Backward BY DEF Backward
  <2>6. ASSUME NEW j \in Jobs, GetUnheard(j) PROVE <<status, status'>> \notin Backward
    BY <2>6 DEF GetUnheard, Backward
  <2> QED BY <1>1, <2>1, <2>2, <2>3, <2>4, <2>5, <2>6 DEF Next, Run
<1>2. IInv /\ [Next]_vars => [~interfered' => <<status, status'>> \notin Backward]_vars
  BY <1>1
<1> QED BY <1>2, Invariant, PTL DEF Spec

-----------------------------------------------------------------------------
(* What Settles rests on, however jobs interfere.                          *)

\* A status that is not final has somebody or something to follow it.
Followed == status \in {"Starting", "Stopping"}
              => pending # None \/ \E j \in Jobs : Busy(j)

\* Starting is posted only by a reload, which waits for it at its notification.
PostedInv == /\ pending \in {None, "Starting", "Started"}
             /\ pending = "Starting" => \E r \in posted :
                  kind[r] = "reload" /\ pc[r] \in {"closeTun", "closeBox", "show"}

\* The job that posted goes on and keeps waiting; another has no part in it.
LEMMA PostedStep ==
  ASSUME TypeOK, KindOK, PostedInv, [Next]_vars PROVE PostedInv'
<1> USE DEF TypeOK, PostedInv, Goto, Return, Begin, Free, Ended, Post, OnMain, looper
<1>1. CASE UNCHANGED vars BY <1>1 DEF vars
<1>2. CASE Deliver BY <1>2, NoneAssumption DEF Deliver, Statuses
<1>3. ASSUME NEW j \in Jobs, StartCommand(j) \/ StopService(j) \/ AskReload(j)
      PROVE  PostedInv'
  BY <1>3 DEF StartCommand, StopService, AskReload
<1>4. ASSUME NEW j \in Jobs, Adopt(j) \/ ServiceReload(j) PROVE PostedInv'
  BY <1>4, NoneAssumption DEF Adopt, ServiceReload, KindOK, Statuses
<1>5. ASSUME NEW j \in Jobs,
             \/ StartCommandServer(j) \/ Build(j) \/ GetNetwork(j) \/ AskSystem(j)
             \/ NewService(j) \/ OpenTun(j) \/ StartCore(j) \/ ShowStarted(j)
             \/ StopAndAlert(j) \/ CloseTun(j) \/ CloseBox(j) \/ CloseServer(j) \/ Stopped(j)
      PROVE  PostedInv'
  <2>1. UNCHANGED <<pending, posted>>
    BY <1>5 DEF StartCommandServer, Build, GetNetwork, AskSystem, NewService, OpenTun,
       StartCore, ShowStarted, StopAndAlert, CloseTun, CloseBox, CloseServer, Stopped,
       Throws, Passes
  <2>2. ASSUME NEW r \in posted, kind[r] = "reload",
               pc[r] \in {"closeTun", "closeBox", "show"}
        PROVE  kind'[r] = "reload" /\ pc'[r] \in {"closeTun", "closeBox", "show"}
    BY <1>5, <2>2 DEF StartCommandServer, Build, GetNetwork, AskSystem, NewService, OpenTun,
       StartCore, ShowStarted, StopAndAlert, CloseTun, CloseBox, CloseServer, Stopped,
       Throws, Passes
  <2> QED BY <2>1, <2>2
<1>6. ASSUME NEW j \in Jobs, GetUnheard(j) PROVE PostedInv'
  BY <1>6, NoneAssumption DEF GetUnheard, Statuses
<1>7. CASE Put BY <1>7 DEF Put, Waits
<1> QED BY <1>1, <1>2, <1>3, <1>4, <1>5, <1>6, <1>7 DEF Next, Run

\* A job ends with a final status set, or with Started posted.
LEMMA FollowedStep ==
  ASSUME TypeOK, PostedInv, Followed, [Next]_vars PROVE Followed'
<1> USE DEF TypeOK, Followed, Goto, Return, Begin, Free, Ended, Post, looper, Busy
<1>1. CASE UNCHANGED vars BY <1>1 DEF vars
<1>2. CASE Deliver BY <1>2 DEF Deliver, PostedInv
<1>3. ASSUME NEW j \in Jobs, StartCommand(j) \/ StopService(j) PROVE Followed'
  BY <1>3 DEF StartCommand, StopService
<1>4. ASSUME NEW j \in Jobs, Adopt(j) PROVE Followed'
  BY <1>4, NoneAssumption DEF Adopt, Statuses
<1>5. ASSUME NEW j \in Jobs, StopAndAlert(j) \/ Stopped(j) PROVE Followed'
  BY <1>5 DEF StopAndAlert, Stopped
<1>6. ASSUME NEW j \in Jobs, AskReload(j) \/ ServiceReload(j) \/ ShowStarted(j)
      PROVE  Followed'
  <2>1. /\ UNCHANGED status /\ (pending # None => pending' # None)
        /\ \A d \in Jobs : Busy(d) => Busy(d)'
    BY <1>6, NoneAssumption DEF AskReload, ServiceReload, ShowStarted, Throws, Statuses
  <2> QED BY <2>1
<1>7. ASSUME NEW j \in Jobs,
             \/ StartCommandServer(j) \/ Build(j) \/ GetNetwork(j) \/ AskSystem(j)
             \/ NewService(j) \/ OpenTun(j) \/ StartCore(j) \/ CloseTun(j) \/ CloseBox(j)
             \/ CloseServer(j)
      PROVE  Followed'
  <2>1. Busy(j)'
    BY <1>7 DEF StartCommandServer, Build, GetNetwork, AskSystem, NewService, OpenTun,
       StartCore, CloseTun, CloseBox, CloseServer, Throws, Passes
  <2> QED BY <2>1
<1>8. ASSUME NEW j \in Jobs, GetUnheard(j) PROVE Followed' BY <1>8 DEF GetUnheard
<1>9. CASE Put
  <2>1. UNCHANGED <<status, pending>> /\ \A d \in Jobs : Busy(d) => Busy(d)'
    BY <1>9 DEF Put, Waits
  <2> QED BY <2>1
<1> QED BY <1>1, <1>2, <1>3, <1>4, <1>5, <1>6, <1>7, <1>8, <1>9 DEF Next, Run

\* However starts, stops and reloads interleave, while the status is starting
\* or stopping a job is at work that will set another, or one has been posted.
THEOREM NeverAbandoned == Spec => []Followed
<1>1. Init => PostedInv /\ Followed
  BY NoneAssumption DEF Init, PostedInv, Followed, Statuses
<1>2. TypeOK /\ KindOK /\ PostedInv /\ Followed /\ [Next]_vars
        => PostedInv' /\ Followed'
  BY PostedStep, FollowedStep
<1>3. IInv => TypeOK /\ KindOK BY DEF IInv
<1> QED BY <1>1, <1>2, <1>3, Invariant, PTL DEF Spec

\* How far a job is from its end.
JobRank == [asked |-> 14, closeTun |-> 13, closeBox |-> 12, closeServer |-> 2, stopped |-> 1,
            command |-> 12, show |-> 11, get |-> 10, network |-> 9, create |-> 8,
            openTun |-> 7, startCore |-> 6, adopt |-> 5, shown |-> 4, alert |-> 3,
            failed |-> 0, idle |-> 0]

\* A step brings a job under way nearer to its end or leaves it where it is.
JobsOnward == \A j \in Jobs :
   Ended(j) \/ pc'[j] = pc[j] \/ JobRank[pc'[j]] < JobRank[pc[j]]

\* Job j has a step: Run(j) is enabled.  At one place it waits for a network, at
\* four for the main thread to set what it has posted.
CanRun(j) == /\ ~Ended(j) /\ ~Waits(j)
             /\ pc[j] \in {"show", "shown", "alert", "stopped"} => OnMain(j)

LEMMA JobRankFact ==
  /\ JobRank["asked"] = 14 /\ JobRank["closeTun"] = 13 /\ JobRank["closeBox"] = 12
  /\ JobRank["closeServer"] = 2 /\ JobRank["stopped"] = 1 /\ JobRank["command"] = 12
  /\ JobRank["show"] = 11 /\ JobRank["get"] = 10 /\ JobRank["network"] = 9
  /\ JobRank["create"] = 8 /\ JobRank["openTun"] = 7
  /\ JobRank["startCore"] = 6 /\ JobRank["adopt"] = 5 /\ JobRank["shown"] = 4
  /\ JobRank["alert"] = 3 /\ JobRank["failed"] = 0 /\ JobRank["idle"] = 0
BY DEF JobRank

LEMMA JobsOnwardStep == ASSUME TypeOK, [Next]_vars PROVE [JobsOnward]_vars
<1> USE JobRankFact DEF TypeOK, JobsOnward, Goto, Return, Begin, Free, Ended
<1>1. CASE UNCHANGED vars BY <1>1
<1>2. CASE Deliver BY <1>2 DEF Deliver
<1>3. ASSUME NEW j \in Jobs, StartCommand(j) \/ StopService(j) \/ AskReload(j)
      PROVE  JobsOnward
  BY <1>3 DEF StartCommand, StopService, AskReload
<1>4. ASSUME NEW j \in Jobs, StartCommandServer(j) \/ Build(j) PROVE JobsOnward
  BY <1>4 DEF StartCommandServer, Build, Throws
<1>5. ASSUME NEW j \in Jobs, GetNetwork(j) \/ AskSystem(j) \/ NewService(j)
      PROVE  JobsOnward
  BY <1>5 DEF GetNetwork, AskSystem, NewService, Throws, Passes
<1>6. ASSUME NEW j \in Jobs, OpenTun(j) \/ StartCore(j) \/ Adopt(j) PROVE JobsOnward
  BY <1>6 DEF OpenTun, StartCore, Adopt, Throws
<1>7. ASSUME NEW j \in Jobs, ShowStarted(j) \/ StopAndAlert(j) \/ ServiceReload(j)
      PROVE  JobsOnward
  BY <1>7 DEF ShowStarted, StopAndAlert, ServiceReload, Throws
<1>8. ASSUME NEW j \in Jobs, CloseTun(j) \/ CloseBox(j) \/ CloseServer(j) \/ Stopped(j)
      PROVE  JobsOnward
  BY <1>8 DEF CloseTun, CloseBox, CloseServer, Stopped
<1>9. ASSUME NEW j \in Jobs, GetUnheard(j) PROVE JobsOnward
  <2>1. ASSUME NEW d \in Jobs, ~Ended(d) PROVE JobRank["idle"] < JobRank[pc[d]]
    BY <2>1 DEF Places
  <2> QED BY <1>9, <2>1 DEF GetUnheard
<1>10. CASE Put BY <1>10 DEF Put, Waits
<1> QED BY <1>1, <1>2, <1>3, <1>4, <1>5, <1>6, <1>7, <1>8, <1>9, <1>10 DEF Next, Run

\* No job goes in circles: a step takes it nearer to its end, and steps of
\* other jobs, however they interfere, do not throw it back.
THEOREM JobsAdvance == Spec => [][JobsOnward]_vars
BY JobsOnwardStep, TypeCorrect, PTL DEF Spec

\* Unless a reload or an alert met another job, the actor that a start asks for
\* a network has a listener: its check does not fail, which would end the
\* process, and the first network is told to the job that waits for one.
THEOREM RequestsHeard ==
  Spec => [](~interfered => \A j \in Jobs : pc[j] \in {"get", "network"} => monitored)
<1>1. IInv => (~interfered => \A j \in Jobs : pc[j] \in {"get", "network"} => monitored)
  BY DEF IInv, Orderly, PlaceMeans, Active, Busy
<1> QED BY <1>1, Invariant, PTL

\* What a job that has not ended and has no step waits for: a value that the
\* main thread has still to set, or a network, which unless a reload or an
\* alert met another job is told to it.
Awaits(j) == pending # None \/ (Waits(j) /\ (~interfered => monitored))

\* Nor is one stuck but for a network: a job that has not ended has a step, or
\* waits for what is to come.
THEOREM JobsGoOn == Spec => [](\A j \in Jobs : Ended(j) \/ CanRun(j) \/ Awaits(j))
<1>1. Init => (posted # {} => pending # None)
  BY DEF Init
<1>2. (posted # {} => pending # None) /\ [Next]_vars => (posted # {} => pending # None)'
  <2> SUFFICES ASSUME posted # {} => pending # None, [Next]_vars
               PROVE  posted' # {} => pending' # None
    OBVIOUS
  <2>1. CASE UNCHANGED vars \/ Put BY <2>1 DEF vars, Put, looper
  <2>2. CASE Deliver BY <2>2 DEF Deliver
  <2>3. ASSUME NEW j \in Jobs, Adopt(j) \/ ServiceReload(j)
        PROVE  posted' # {} => pending' # None
    BY <2>3, NoneAssumption DEF Adopt, ServiceReload, Post, Return, looper, Statuses
  <2>4. ASSUME NEW j \in Jobs,
               \/ StartCommand(j) \/ StopService(j) \/ AskReload(j) \/ StartCommandServer(j)
               \/ Build(j) \/ GetNetwork(j) \/ AskSystem(j) \/ NewService(j) \/ OpenTun(j)
               \/ StartCore(j) \/ ShowStarted(j) \/ StopAndAlert(j) \/ CloseTun(j)
               \/ CloseBox(j) \/ CloseServer(j) \/ Stopped(j)
        PROVE  UNCHANGED <<posted, pending>>
    BY <2>4 DEF StartCommand, StopService, AskReload, StartCommandServer, Build, GetNetwork,
       AskSystem, NewService, OpenTun, StartCore, ShowStarted, StopAndAlert, CloseTun,
       CloseBox, CloseServer, Stopped, Throws, Passes, looper
  <2>5. ASSUME NEW j \in Jobs, GetUnheard(j) PROVE posted' = {}
    BY <2>5 DEF GetUnheard
  <2> QED BY <2>1, <2>2, <2>3, <2>4, <2>5 DEF Next, Run
<1>3. /\ posted # {} => pending # None
      /\ ~interfered => \A j \in Jobs : pc[j] \in {"get", "network"} => monitored
      => \A j \in Jobs : Ended(j) \/ CanRun(j) \/ Awaits(j)
  BY DEF CanRun, OnMain, Awaits, Waits
<1> QED BY <1>1, <1>2, <1>3, RequestsHeard, PTL DEF Spec

-----------------------------------------------------------------------------
(* The network monitor of the service: NetworkMonitor, for any networks,   *)
(* queries, versions and bounds.                                           *)

\* What the callback sends the actor.
IsNotice(m) == m.type \in {"Put", "Update", "Lost"}

\* Who asks the actor for a network waits for it.
Asks(r) == \/ r = Job /\ job = "await"
           \/ r \in Queries /\ query[r] = "wait"

\* A message that is no notice belongs to where its sender is.
InPlace(m) == \/ m.from = Job /\ m.type = "Start" /\ job = "started"
              \/ m.from = Job /\ m.type = "Get" /\ job = "await"
              \/ m.from = Job /\ m.type = "Stop" /\ job = "stopping"
              \/ m.from \in Queries /\ m.type = "Get" /\ query[m.from] = "wait"

\* Nobody but the callback has two messages in the channel.
ChannelInv ==
  /\ \A i \in DOMAIN channel : ~IsNotice(channel[i]) => InPlace(channel[i])
  /\ \A i, j \in DOMAIN channel :
       /\ ~IsNotice(channel[i]) /\ ~IsNotice(channel[j])
       /\ channel[i].from = channel[j].from
       => i = j

\* A request is in one place: sent, received, or set aside.
GetFrom(m, r) == m.type = "Get" /\ m.from = r
Asked(r) == \E i \in DOMAIN channel : GetFrom(channel[i], r)
RequestInv ==
  /\ Handling("Get") => Asks(current.from) /\ ~Asked(current.from)
  /\ \A r \in pendingRequests :
       Asks(r) /\ ~Asked(r) /\ ~(Handling("Get") /\ current.from = r)

\* A job that goes on from its Start finds the monitor started or about to be.
Following == {"await", "seen", "boot", "up", "close", "unset", "stop"}
StartReceived == ~Handling("Stop") /\ (listening \/ Handling("Start"))
StartSent == \E i \in DOMAIN channel : channel[i].type = "Start"
ListenInv ==
  /\ job \in Following => StartReceived
  /\ job = "started" => StartReceived \/ StartSent

\* A query that is no orphan has a core, which is closed before the monitor.
CoreInv ==
  /\ core => job \in {"up", "close"}
  /\ \A q \in Queries : query[q] # "idle" /\ ~orphaned[q] => core

\* The invariant about who waits for whom.
LiveInv == ChannelInv /\ RequestInv /\ ListenInv /\ CoreInv /\ ActorLives

\* What a channel holds after a send.
LEMMA AppendFact ==
  ASSUME NEW S, NEW c \in Seq(S), NEW m \in S
  PROVE  /\ Append(c, m) \in Seq(S)
         /\ \A i \in DOMAIN c : i \in DOMAIN Append(c, m) /\ Append(c, m)[i] = c[i]
         /\ \A i \in DOMAIN Append(c, m) :
              \/ i \in DOMAIN c /\ Append(c, m)[i] = c[i]
              \/ i = Len(c) + 1 /\ Append(c, m)[i] = m
         /\ Len(c) + 1 \notin DOMAIN c
         /\ Len(c) + 1 \in DOMAIN Append(c, m) /\ Append(c, m)[Len(c) + 1] = m
  OBVIOUS

\* What a channel holds after a receive.
LEMMA TailFact ==
  ASSUME NEW S, NEW c \in Seq(S), c # <<>>
  PROVE  /\ Tail(c) \in Seq(S) /\ Head(c) \in S
         /\ 1 \in DOMAIN c /\ Head(c) = c[1]
         /\ \A i \in DOMAIN Tail(c) : /\ i \in Nat \ {0} /\ i + 1 \in DOMAIN c
                                      /\ Tail(c)[i] = c[i + 1]
         /\ \A i \in DOMAIN c : /\ i \in Nat \ {0}
                                /\ i # 1 => /\ i - 1 \in DOMAIN Tail(c)
                                            /\ Tail(c)[i - 1] = c[i]
  OBVIOUS

\* The first place of a channel.
LEMMA BoundsFact ==
  /\ MaxChanges \in Nat /\ MaxRounds \in Nat /\ Job \notin Queries
  /\ Null \notin Networks /\ Null \notin Message
  BY NamesAssumption, BoundsAssumption, NullAssumption

USE DEF monitorVars, system, registry, actor,
   service, queries, Elsewhere, At

-----------------------------------------------------------------------------
(* Every step keeps the types.                                             *)

\* A request that is sent is a message.
LEMMA SendType ==
  ASSUME MonitorTypeOK, NEW type \in {"Start", "Get", "Stop"},
         NEW r \in Requesters,
         Send(type, r)
  PROVE  channel' \in Seq(Message)
<1> DEFINE m == [type |-> type, network |-> Null, from |-> r]
<1>1. m \in Message
  BY DEF Message
<1>2. channel \in Seq(Message) /\ channel' = Append(channel, m)
  BY DEF MonitorTypeOK, Send
<1> HIDE DEF m
<1> QED
  BY <1>1, <1>2

\* A notice that is posted is one.
LEMMA PostType ==
  ASSUME MonitorTypeOK, NEW type \in {"Put", "Update", "Lost"}, NEW n \in Networks,
         Announce(type, n)
  PROVE  notices' \in Seq(Notice)
<1> DEFINE m == [type |-> type, network |-> n, from |-> registration]
<1>1. m \in Notice /\ notices \in Seq(Notice)
  BY DEF Notice, MonitorTypeOK
<1>2. notices' = notices \/ notices' = Append(notices, m)
  BY DEF Announce
<1> HIDE DEF m
<1> QED
  BY <1>1, <1>2

\* The system and the callback thread.
LEMMA SystemType ==
  ASSUME MonitorTypeOK, System \/ RunCallback \/ SendNotice
  PROVE  MonitorTypeOK'
<1>1. ASSUME NEW n \in Optional, ChangeDefault(n)
      PROVE  MonitorTypeOK'
  <2>1. notices' \in Seq(Notice)
    BY <1>1, PostType DEF ChangeDefault, MonitorTypeOK,
       Optional
  <2>2. changes' \in 0 .. MaxChanges
    BY <1>1, BoundsFact DEF ChangeDefault, MonitorTypeOK
  <2> QED
    BY <1>1, <2>1, <2>2 DEF ChangeDefault, MonitorTypeOK
<1>2. CASE ChangeCapabilities
  <2>1. notices' \in Seq(Notice)
    BY <1>2, PostType DEF ChangeCapabilities, MonitorTypeOK,
       Optional
  <2>2. changes' \in 0 .. MaxChanges
    BY <1>2, BoundsFact DEF ChangeCapabilities, MonitorTypeOK
  <2> QED
    BY <1>2, <2>1, <2>2 DEF ChangeCapabilities, MonitorTypeOK
<1>3. CASE RunCallback
  <2>1. Head(notices) \in Notice /\ Tail(notices) \in Seq(Notice)
    BY <1>3, TailFact DEF RunCallback, MonitorTypeOK
  <2> QED
    BY <1>3, <2>1 DEF RunCallback, MonitorTypeOK
<1>4. CASE SendNotice
  <2>1. callback \in Message
    BY <1>4 DEF SendNotice, MonitorTypeOK, Message
  <2>2. channel' \in Seq(Message)
    BY <1>4, <2>1 DEF SendNotice, MonitorTypeOK
  <2> QED
    BY <1>4, <2>2 DEF SendNotice, MonitorTypeOK
<1> QED
  BY <1>1, <1>2, <1>3, <1>4 DEF System, MonitorTypeOK

\* A request that is handled comes from a requester, a notice names a network.
LEMMA CurrentFact ==
  ASSUME MonitorTypeOK
  PROVE  /\ Handling("Get") => current.from \in Requesters
         /\ \A type \in {"Put", "Update", "Lost"} :
              Handling(type)
                => current.network \in Networks /\ current \in Notice
  BY DEF MonitorTypeOK, Message, Notice,
     Handling

\* Answering keeps the types of job and queries.
LEMMA CompleteType ==
  ASSUME MonitorTypeOK, NEW rs, NEW n \in Optional, Complete(rs, n)
  PROVE  /\ query' \in [Queries -> {"idle", "get", "wait"}]
         /\ orphaned' \in [Queries -> BOOLEAN]
         /\ seen' \in Optional
         /\ job' \in {"down", "start", "started", "await", "seen", "boot",
                      "up", "close", "unset", "stop", "stopping"}
         /\ UNCHANGED <<rounds, core, leaked, transport>>
<1>1. query \in [Queries -> {"idle", "get", "wait"}]
      /\ orphaned \in [Queries -> BOOLEAN]
  BY DEF MonitorTypeOK
<1>2. orphaned' \in [Queries -> BOOLEAN]
  BY <1>1 DEF Complete
<1>3. query' \in [Queries -> {"idle", "get", "wait"}]
  BY <1>1 DEF Complete
<1>4. /\ seen' \in Optional
      /\ job' \in {"down", "start", "started", "await", "seen", "boot",
                   "up", "close", "unset", "stop", "stopping"}
      /\ UNCHANGED <<rounds, core, leaked, transport>>
  BY DEF Complete, MonitorTypeOK
<1> QED
  BY <1>2, <1>3, <1>4

\* Registering does.
LEMMA RegisterType ==
  ASSUME MonitorTypeOK, Register
  PROVE  /\ fallback' \in BOOLEAN /\ callbackRegistered' \in BOOLEAN
         /\ registration' \in Nat /\ notices' \in Seq(Notice)
<1> DEFINE m == [type |-> "Put", network |-> default, from |-> registration + 1]
<1>1. fallback' \in BOOLEAN
  <2>1. CASE sdk = 23
    BY <2>1 DEF Register
  <2>2. CASE sdk # 23
    BY <2>2 DEF Register
  <2> QED
    BY <2>1, <2>2
<1>2. callbackRegistered' \in BOOLEAN
  BY <1>1 DEF Register
<1>3. registration' \in Nat
  BY DEF Register, MonitorTypeOK
<1>4. default # Null => m \in Notice
  BY DEF Notice, MonitorTypeOK, Optional
<1>5. notices' = <<>> \/ (default # Null /\ notices' = <<m>>)
  BY DEF Register
<1> HIDE DEF m
<1>6. notices' \in Seq(Notice)
  <2>1. <<>> \in Seq(Notice)
    OBVIOUS
  <2>2. m \in Notice => <<m>> \in Seq(Notice)
    OBVIOUS
  <2> QED
    BY <1>4, <1>5, <2>1, <2>2
<1> QED
  BY <1>1, <1>2, <1>3, <1>6

\* The actor.
LEMMA ActorType == ASSUME MonitorTypeOK, Actor PROVE MonitorTypeOK'
<1>1. CASE Receive
  <2>1. Head(channel) \in Message /\ Tail(channel) \in Seq(Message)
    BY <1>1, TailFact DEF Receive, MonitorTypeOK
  <2> QED
    BY <1>1, <2>1 DEF Receive, MonitorTypeOK
<1>2. CASE HandleStart
  <2>1. /\ fallback' \in BOOLEAN /\ callbackRegistered' \in BOOLEAN
        /\ registration' \in Nat /\ notices' \in Seq(Notice)
    BY <1>2, RegisterType DEF HandleStart, MonitorTypeOK
  <2>2. defaultNetwork' \in Optional /\ stale' \in BOOLEAN
        /\ listening' \in BOOLEAN /\ current' = Null
    BY <1>2 DEF HandleStart, Tell, Handled, MonitorTypeOK
  <2> QED
    BY <1>2, <2>1, <2>2 DEF HandleStart, MonitorTypeOK
<1>3. CASE HandleGet
  <2>1. current.from \in Requesters
    BY <1>3, CurrentFact DEF HandleGet
  <2>2. CASE ~listening
    BY <1>3, <2>2 DEF HandleGet, MonitorTypeOK
  <2>3. CASE listening /\ network = Null
    BY <1>3, <2>1, <2>3 DEF HandleGet, Handled, MonitorTypeOK
  <2>4. CASE listening /\ network # Null
    <3>1. network \in Optional /\ Complete({current.from}, network)
      BY <1>3, <2>4 DEF HandleGet, MonitorTypeOK
    <3> QED
      BY <1>3, <2>4, <3>1, CompleteType DEF HandleGet, Handled,
         MonitorTypeOK
  <2> QED
    BY <2>2, <2>3, <2>4
<1>4. CASE HandleStop
  <2>1. notices' \in Seq(Notice) /\ callbackRegistered' \in BOOLEAN
        /\ network' \in Optional
    <3>1. CASE listening
      <4>1. network' = Null /\ callbackRegistered' = FALSE /\ notices' = <<>>
        BY <1>4, <3>1 DEF HandleStop
      <4>2. <<>> \in Seq(Notice) /\ Null \in Optional
        BY DEF Optional
      <4> QED
        BY <4>1, <4>2, Zenon
    <3>2. CASE ~listening
      BY <1>4, <3>2 DEF HandleStop, MonitorTypeOK
    <3> QED
      BY <3>1, <3>2
  <2> QED
    BY <1>4, <2>1 DEF HandleStop, Handled, MonitorTypeOK
<1>5. CASE HandlePut
  <2>1. current.network \in Optional
    BY <1>5, CurrentFact DEF HandlePut, Optional
  <2>2. stale' \in BOOLEAN /\ defaultNetwork' \in Optional
    BY <1>5, <2>1 DEF HandlePut, Tell, MonitorTypeOK
  <2> QED
    BY <1>5, <2>1, <2>2, CompleteType DEF HandlePut, Handled,
       MonitorTypeOK
<1>6. CASE HandleUpdate
  BY <1>6 DEF HandleUpdate, Handled, Tell, MonitorTypeOK
<1>7. CASE HandleLost
  BY <1>7 DEF HandleLost, Handled, Tell,
     Optional, MonitorTypeOK
<1> QED
  BY <1>1, <1>2, <1>3, <1>4, <1>5, <1>6, <1>7 DEF Actor

\* The jobs of the service.
LEMMA JobType ==
  ASSUME MonitorTypeOK,
         \/ BeginStart \/ Reload
         \/ BeginStop \/ Continue
  PROVE  MonitorTypeOK'
<1>1. CASE BeginStart
  BY <1>1, BoundsFact DEF BeginStart, MonitorTypeOK
<1>2. CASE Reload
  <2>1. orphaned' \in [Queries -> BOOLEAN]
    BY <1>2 DEF Reload, Close
  <2> QED
    <3>1. rounds' \in 0 .. MaxRounds
      BY <1>2, BoundsFact DEF Reload, MonitorTypeOK
    <3>2. core' \in BOOLEAN /\ UNCHANGED query
      BY <1>2 DEF Reload, Close
    <3> QED
      BY <1>2, <2>1, <3>1, <3>2 DEF Reload, MonitorTypeOK
<1>3. CASE BeginStop
  BY <1>3 DEF BeginStop, MonitorTypeOK
<1>4. CASE SendStart \/ SendStop
  <2>1. channel' \in Seq(Message)
    BY <1>4, SendType DEF SendStart, SendStop,
       Requesters
  <2> QED
    BY <1>4, <2>1 DEF SendStart, SendStop, MonitorTypeOK
<1>5. CASE ReadActive
  <2>1. channel' \in Seq(Message)
    BY <1>5, SendType DEF ReadActive, Requesters, MonitorTypeOK
  <2> QED
    BY <1>5, <2>1 DEF ReadActive, MonitorTypeOK
<1>6. CASE SetDefault
  BY <1>6 DEF SetDefault, MonitorTypeOK
<1>7. CASE Boot
  BY <1>7 DEF Boot, MonitorTypeOK
<1>8. CASE CloseCore
  BY <1>8 DEF CloseCore, Close, MonitorTypeOK
<1>9. CASE UnsetTransport \/ FinishStop
  BY <1>9 DEF UnsetTransport, FinishStop, MonitorTypeOK
<1> QED
  BY <1>1, <1>2, <1>3, <1>4, <1>5, <1>6, <1>7, <1>8, <1>9 DEF Continue

\* The queries of the core.
LEMMA QueryType ==
  ASSUME MonitorTypeOK, NEW q \in Queries, Require(q) \/ Get(q)
  PROVE  MonitorTypeOK'
<1>1. CASE Require(q)
  <2>1. orphaned' \in [Queries -> BOOLEAN]
        /\ query' \in [Queries -> {"idle", "get", "wait"}]
    BY <1>1 DEF Require, MonitorTypeOK
  <2> QED
    BY <1>1, <2>1 DEF Require, MonitorTypeOK
<1>2. CASE Get(q)
  <2>1. channel' \in Seq(Message)
    BY <1>2, SendType DEF Get, Requesters, MonitorTypeOK
  <2> QED
    <3>1. orphaned' \in [Queries -> BOOLEAN]
          /\ query' \in [Queries -> {"idle", "get", "wait"}]
      BY <1>2 DEF Get, MonitorTypeOK
    <3> QED
      BY <1>2, <2>1, <3>1 DEF Get, MonitorTypeOK
<1> QED
  BY <1>1, <1>2

\* The types hold at the beginning.
LEMMA TypeInit == MonitorInit => MonitorTypeOK
<1> SUFFICES ASSUME MonitorInit PROVE MonitorTypeOK
  OBVIOUS
<1> QED
  <2>1. /\ query \in [Queries -> {"idle", "get", "wait"}]
        /\ orphaned \in [Queries -> BOOLEAN]
    BY DEF MonitorInit
  <2>2. changes \in 0 .. MaxChanges /\ rounds \in 0 .. MaxRounds
    BY BoundsFact DEF MonitorInit
  <2>3. notices \in Seq(Notice) /\ channel \in Seq(Message)
    BY DEF MonitorInit
  <2>4. /\ sdk \in Versions /\ default \in Optional /\ seen \in Optional
        /\ network \in Optional /\ defaultNetwork \in Optional
        /\ callback \in Notice \cup {Null}
        /\ current \in Message \cup {Null}
    BY DEF MonitorInit, Optional
  <2> QED
    BY <2>1, <2>2, <2>3, <2>4 DEF MonitorInit, MonitorTypeOK

\* Every step keeps them.
LEMMA TypeNext == MonitorTypeOK /\ [MonitorNext]_monitorVars => MonitorTypeOK'
<1> SUFFICES ASSUME MonitorTypeOK, [MonitorNext]_monitorVars PROVE MonitorTypeOK'
  OBVIOUS
<1>1. CASE UNCHANGED monitorVars
  BY <1>1 DEF MonitorTypeOK
<1> QED
  BY <1>1, SystemType, ActorType, JobType, QueryType DEF MonitorNext

-----------------------------------------------------------------------------
(* Why the actor lives.                                                    *)

\* A message is put into the channel by one that has none there.
LEMMA SendFact ==
  ASSUME MonitorTypeOK, ChannelInv, NEW type \in {"Start", "Get", "Stop"},
         NEW r \in Requesters, Send(type, r),
         \A i \in DOMAIN channel : ~IsNotice(channel[i]) => channel[i].from # r,
         \A m : InPlace(m) /\ m.from # r => InPlace(m)',
         InPlace([type |-> type, network |-> Null, from |-> r])'
  PROVE  /\ ChannelInv'
         /\ \A s : Asked(s)' <=> Asked(s) \/ (type = "Get" /\ s = r)
         /\ StartSent' <=> StartSent \/ type = "Start"
<1> DEFINE new == [type |-> type, network |-> Null, from |-> r]
           n == Len(channel) + 1
<1>1. /\ new.type = type /\ new.from = r /\ new \in Message /\ ~IsNotice(new)
  BY DEF Message, IsNotice
<1>2. channel \in Seq(Message) /\ channel' = Append(channel, new)
  BY DEF Send, MonitorTypeOK
<1> HIDE DEF new
<1>3. /\ \A i \in DOMAIN channel : i \in DOMAIN channel' /\ channel'[i] = channel[i]
      /\ \A i \in DOMAIN channel' : \/ i \in DOMAIN channel /\ channel'[i] = channel[i]
                                    \/ i = n /\ channel'[i] = new
      /\ n \notin DOMAIN channel /\ n \in DOMAIN channel' /\ channel'[n] = new
  BY <1>1, <1>2, AppendFact
<1> HIDE DEF n
<1>4. \A m : m = new => InPlace(m)'
  BY DEF new, InPlace
<1>5. \A i \in DOMAIN channel' : ~IsNotice(channel'[i]) => InPlace(channel[i])'
  <2> SUFFICES ASSUME NEW i \in DOMAIN channel', ~IsNotice(channel'[i])
               PROVE  InPlace(channel[i])'
    OBVIOUS
  <2>1. CASE i \in DOMAIN channel /\ channel'[i] = channel[i]
    <3>1. InPlace(channel[i]) /\ channel[i].from # r
      BY <2>1 DEF ChannelInv
    <3>2. \A m : m = channel[i] => InPlace(m)'
      BY <3>1
    <3> QED
      BY <2>1, <3>2 DEF InPlace
  <2>2. CASE i = n /\ channel'[i] = new
    BY <1>4, <2>2 DEF InPlace
  <2> QED
    BY <1>3, <2>1, <2>2
<1>6. ChannelInv'
  BY <1>1, <1>3, <1>5 DEF ChannelInv, IsNotice
<1>7. \A s : Asked(s)' <=> Asked(s) \/ (type = "Get" /\ s = r)
  BY <1>1, <1>3 DEF Asked, GetFrom
<1>8. StartSent' <=> StartSent \/ type = "Start"
  BY <1>1, <1>3 DEF StartSent
<1> QED
  BY <1>6, <1>7, <1>8

\* What has no part in who asks for what.
LEMMA QuietLive ==
  ASSUME MonitorTypeOK, LiveInv, alive,
         \/ System \/ RunCallback \/ SendNotice
         \/ HandleUpdate \/ HandleLost
  PROVE  LiveInv'
<1>1. /\ UNCHANGED <<listening, pendingRequests, alive, job, core, query,
                     orphaned>>
      /\ \/ UNCHANGED current
         \/ current' = Null /\ ~Handling("Start")
  BY DEF System, ChangeDefault, ChangeCapabilities,
     RunCallback, SendNotice,
         HandleUpdate, HandleLost, Handling,
         Handled
<1>2. \/ UNCHANGED channel
      \/ callback \in Notice /\ channel' = Append(channel, callback)
  BY DEF System, ChangeDefault, ChangeCapabilities,
     RunCallback, SendNotice,
         HandleUpdate, HandleLost, MonitorTypeOK
<1>3. /\ channel \in Seq(Message)
      /\ callback \in Notice => callback \in Message
  BY DEF MonitorTypeOK, Message
<1>4. /\ \A i \in DOMAIN channel : i \in DOMAIN channel' /\ channel'[i] = channel[i]
      /\ \A i \in DOMAIN channel' : \/ i \in DOMAIN channel /\ channel'[i] = channel[i]
                                    \/ channel'[i] \in Notice
  BY <1>2, <1>3, AppendFact
<1>5. \A m \in Notice : m.type \in {"Put", "Update", "Lost"}
  BY DEF Notice
<1>6. ChannelInv'
  BY <1>1, <1>4, <1>5 DEF LiveInv, ChannelInv, IsNotice, InPlace
<1>7. (\A r : Asked(r)' <=> Asked(r)) /\ (StartSent' <=> StartSent)
  BY <1>4, <1>5 DEF Asked, GetFrom, StartSent
<1>8. RequestInv' /\ ListenInv' /\ CoreInv' /\ ActorLives'
  BY <1>1, <1>7 DEF LiveInv, RequestInv, ListenInv, CoreInv, ActorLives,
     Asks, StartReceived, Handling, Following
<1> QED
  BY <1>6, <1>8 DEF LiveInv

\* A message that is received leaves the channel.
LEMMA ReceiveLive ==
  ASSUME MonitorTypeOK, LiveInv, alive, Receive PROVE LiveInv'
<1> DEFINE h == Head(channel)
<1>1. /\ UNCHANGED <<listening, pendingRequests, alive, job, core, query,
                     orphaned>>
      /\ current = Null /\ current' = h /\ channel' = Tail(channel)
      /\ channel \in Seq(Message) /\ channel # <<>>
  BY DEF Receive, MonitorTypeOK
<1>2. /\ h = channel[1] /\ 1 \in DOMAIN channel /\ h \in Message
      /\ \A i \in DOMAIN channel' : /\ i \in Nat \ {0} /\ i + 1 \in DOMAIN channel
                                    /\ channel'[i] = channel[i + 1]
      /\ \A i \in DOMAIN channel :
           i \in Nat \ {0} /\ (i # 1 => /\ i - 1 \in DOMAIN channel'
                                        /\ channel'[i - 1] = channel[i])
  BY <1>1, TailFact
<1> HIDE DEF h
<1>3. ChannelInv'
  <2>1. ASSUME NEW i \in DOMAIN channel', ~IsNotice(channel'[i])
        PROVE  InPlace(channel'[i])
    BY <1>2, <2>1 DEF LiveInv, ChannelInv
  <2>2. ASSUME NEW i \in DOMAIN channel', NEW j \in DOMAIN channel',
               ~IsNotice(channel'[i]), ~IsNotice(channel'[j]),
               channel'[i].from = channel'[j].from
        PROVE  i = j
    <3>1. i + 1 = j + 1
      BY <1>2, <2>2 DEF LiveInv, ChannelInv
    <3> QED
      BY <1>2, <3>1
  <2> QED
    BY <1>1, <2>1, <2>2 DEF ChannelInv, InPlace, IsNotice
<1>4. /\ \A r : Asked(r)' => Asked(r)
      /\ h.type = "Get" => \A r : Asked(r)' => r # h.from
  <2>1. \A r : Asked(r)' => Asked(r)
    BY <1>2 DEF Asked, GetFrom
  <2>2. ASSUME h.type = "Get", NEW i \in DOMAIN channel',
               GetFrom(channel'[i], h.from)
        PROVE  FALSE
    <3>1. ~IsNotice(channel[1]) /\ ~IsNotice(channel[i + 1])
          /\ channel[1].from = channel[i + 1].from
      BY <1>2, <2>2 DEF GetFrom, IsNotice
    <3>2. 1 = i + 1
      BY <1>2, <3>1 DEF LiveInv, ChannelInv
    <3> QED
      BY <1>2, <3>2
  <2> QED
    BY <2>1, <2>2 DEF Asked, GetFrom
<1>5. ~IsNotice(h) => InPlace(h)
  BY <1>2 DEF LiveInv, ChannelInv
<1>6. /\ StartSent => StartSent' \/ h.type = "Start"
      /\ h.type = "Get" => Asked(h.from)
  BY <1>2 DEF StartSent, Asked, GetFrom
<1>7. RequestInv'
  <2>1. h.type = "Get" => Asks(h.from) /\ h.from \notin pendingRequests
    BY <1>5, <1>6 DEF IsNotice, InPlace, Asks, LiveInv, RequestInv
  <2> QED
    BY <1>1, <1>4, <2>1 DEF LiveInv, RequestInv, Handling, Asks
<1>8. ListenInv'
  <2>1. h.type = "Stop" => job = "stopping"
    BY <1>5 DEF IsNotice, InPlace
  <2>2. h # Null
    BY <1>2, BoundsFact
  <2> QED
    BY <1>1, <1>6, <2>1, <2>2
       DEF LiveInv, ListenInv, StartReceived, Handling, Following
<1>9. CoreInv' /\ ActorLives'
  BY <1>1 DEF LiveInv, CoreInv, ActorLives
<1> QED
  BY <1>3, <1>7, <1>8, <1>9 DEF LiveInv

\* Who is answered has asked, and has no request in the channel.
LEMMA CompleteLive ==
  ASSUME MonitorTypeOK, LiveInv, NEW rs, NEW n, Complete(rs, n),
         UNCHANGED channel,
         \A r \in rs : Asks(r) /\ ~Asked(r)
  PROVE  /\ ChannelInv' /\ CoreInv'
         /\ \A r : Asks(r) /\ r \notin rs => Asks(r)'
         /\ job' # job => job = "await" /\ job' = "seen"
<1>1. /\ \A q \in Queries : /\ q \in rs => query'[q] = "idle"
                            /\ q \notin rs => /\ query'[q] = query[q]
                                              /\ orphaned'[q] = orphaned[q]
      /\ core' = core
      /\ Job \in rs => job' = "seen"
      /\ Job \notin rs => job' = job
  BY DEF Complete, MonitorTypeOK
<1>2. Job \in rs => job = "await"
  BY BoundsFact DEF Asks
<1>3. ChannelInv'
  <2>1. ASSUME NEW i \in DOMAIN channel, ~IsNotice(channel[i])
        PROVE  InPlace(channel[i])'
    <3> DEFINE m == channel[i]
    <3>1. InPlace(m)
      BY <2>1 DEF LiveInv, ChannelInv
    <3>2. m.type = "Get" => Asked(m.from)
      BY DEF Asked, GetFrom
    <3>3. m.type = "Get" => m.from \notin rs
      BY <3>2
    <3>4. CASE m.from \in Queries
      BY <1>1, <3>1, <3>3, <3>4, BoundsFact DEF InPlace
    <3>5. CASE m.from = Job
      BY <1>1, <1>2, <3>1, <3>3, <3>5, BoundsFact DEF InPlace
    <3> QED
      BY <3>1, <3>4, <3>5 DEF InPlace
  <2> QED
    BY <2>1 DEF LiveInv, ChannelInv, IsNotice
<1>4. CoreInv'
  BY <1>1, <1>2 DEF LiveInv, CoreInv
<1>5. \A r : Asks(r) /\ r \notin rs => Asks(r)'
  BY <1>1 DEF Asks
<1> QED
  BY <1>1, <1>2, <1>3, <1>4, <1>5

\* A Get is answered, set aside, or ends an actor no query has asked in time.
LEMMA HandleGetLive ==
  ASSUME MonitorTypeOK, LiveInv, alive, HandleGet PROVE LiveInv'
<1>1. /\ Handling("Get") /\ UNCHANGED <<channel, listening>>
      /\ Asks(current.from) /\ ~Asked(current.from)
      /\ current.from \notin pendingRequests
  BY DEF HandleGet, LiveInv, RequestInv
<1>2. \A r : Asked(r)' <=> Asked(r)
  BY <1>1 DEF Asked, GetFrom
<1>3. ~Handling("Start") /\ ~Handling("Stop")
  BY <1>1 DEF Handling
<1>4. CASE ~listening
  <2>1. /\ UNCHANGED <<current, pendingRequests, service, queries>>
        /\ alive' = FALSE
    BY <1>4 DEF HandleGet
  <2>2. job # "await" /\ ~core
    BY <1>3, <1>4 DEF LiveInv, ListenInv, CoreInv, Following, StartReceived
  <2>3. current.from \in Queries /\ orphaned[current.from]
    BY <1>1, <2>2 DEF Asks, LiveInv, CoreInv
  <2> QED
    BY <1>1, <2>1, <2>3 DEF LiveInv, ChannelInv, RequestInv, ListenInv, CoreInv,
       ActorLives, InPlace, IsNotice, Handling, Asks, Asked,
       GetFrom, StartReceived,
       StartSent, Following
<1>5. CASE listening /\ network = Null
  <2>1. /\ current' = Null /\ alive' = alive /\ UNCHANGED <<service,
                                                            queries>>
        /\ pendingRequests' = pendingRequests \cup {current.from}
    BY <1>5 DEF HandleGet, Handled
  <2> QED
    BY <1>1, <1>3, <2>1 DEF LiveInv, ChannelInv, RequestInv, ListenInv, CoreInv,
       ActorLives, InPlace, IsNotice, Handling, Asks, Asked,
       GetFrom, StartReceived,
       StartSent, Following
<1>6. CASE listening /\ network # Null
  <2>1. /\ current' = Null /\ alive' = alive /\ UNCHANGED pendingRequests
        /\ Complete({current.from}, network)
    BY <1>6 DEF HandleGet, Handled
  <2>2. /\ ChannelInv' /\ CoreInv'
        /\ \A r : Asks(r) /\ r \notin {current.from} => Asks(r)'
        /\ job' # job => job = "await" /\ job' = "seen"
    BY <1>1, <2>1, CompleteLive
  <2>3. RequestInv'
    BY <1>1, <1>2, <2>1, <2>2 DEF LiveInv, RequestInv, Handling
  <2>4. ListenInv'
    BY <1>1, <1>6, <2>1, <2>2 DEF ListenInv, StartReceived, Handling
  <2> QED
    BY <2>1, <2>2, <2>3, <2>4 DEF LiveInv, ActorLives
<1> QED
  BY <1>4, <1>5, <1>6

\* A Put answers all that were set aside.
LEMMA HandlePutLive ==
  ASSUME MonitorTypeOK, LiveInv, alive, HandlePut PROVE LiveInv'
<1>1. /\ UNCHANGED <<channel, listening, alive>> /\ current' = Null
      /\ pendingRequests' = {} /\ Complete(pendingRequests, current.network)
      /\ ~Handling("Start") /\ ~Handling("Stop")
  BY DEF HandlePut, Handled, Handling
<1>2. /\ ChannelInv' /\ CoreInv'
      /\ job' # job => job = "await" /\ job' = "seen"
  BY <1>1, CompleteLive DEF LiveInv, RequestInv
<1>3. RequestInv'
  BY <1>1 DEF RequestInv, Handling
<1>4. ListenInv'
  BY <1>1, <1>2 DEF LiveInv, ListenInv, StartReceived, StartSent,
     Handling, Following
<1> QED
  BY <1>1, <1>2, <1>3, <1>4 DEF LiveInv, ActorLives

\* A Stop is handled before the next Start is received.
LEMMA HandleLive ==
  ASSUME MonitorTypeOK, LiveInv, alive, HandleStart \/ HandleStop
  PROVE  LiveInv'
<1>1. /\ UNCHANGED <<channel, pendingRequests, alive, job, core, query,
                     orphaned>>
      /\ current' = Null
      /\ HandleStart => listening'
      /\ HandleStop => Handling("Stop")
  BY DEF HandleStart, HandleStop, Handled
<1>2. ChannelInv' /\ CoreInv' /\ ActorLives'
  BY <1>1 DEF LiveInv, ChannelInv, CoreInv, ActorLives, InPlace,
     IsNotice
<1>3. RequestInv'
  BY <1>1 DEF LiveInv, RequestInv, Handling, Asks, Asked, GetFrom
<1>4. ListenInv'
  BY <1>1 DEF LiveInv, ListenInv, StartReceived, StartSent, Handling,
     Following
<1> QED
  BY <1>2, <1>3, <1>4 DEF LiveInv

\* A job that waits for nothing and sends nothing.
LEMMA MoveLive ==
  ASSUME MonitorTypeOK, LiveInv, alive, CoreInv',
         UNCHANGED <<channel, current, listening, pendingRequests, alive,
                     query>>,
         \A i \in DOMAIN channel : ~IsNotice(channel[i]) => channel[i].from # Job,
         job # "await", job' \notin {"started", "await", "stopping"},
         job' \in Following => StartReceived
  PROVE  LiveInv'
<1>1. ChannelInv'
  <2>1. ASSUME NEW i \in DOMAIN channel, ~IsNotice(channel[i])
        PROVE  InPlace(channel[i])'
    BY <2>1 DEF LiveInv, ChannelInv, InPlace
  <2> QED
    BY <2>1 DEF LiveInv, ChannelInv, IsNotice
<1>2. RequestInv'
  BY BoundsFact DEF LiveInv, RequestInv, Handling, Asks, Asked, GetFrom
<1>3. ListenInv'
  BY DEF ListenInv, StartReceived, Handling, Following
<1> QED
  BY <1>1, <1>2, <1>3 DEF LiveInv, ActorLives

\* Where a job is says whether it has a message in the channel.
LEMMA JobSilent ==
  ASSUME MonitorTypeOK, LiveInv,
         job \notin {"started", "await", "stopping"} \/ Sent({Job})
  PROVE  \A i \in DOMAIN channel : ~IsNotice(channel[i]) => channel[i].from # Job
  BY BoundsFact DEF LiveInv, ChannelInv, InPlace, Sent

\* The steps of a job.
LEMMA JobLive ==
  ASSUME MonitorTypeOK, LiveInv, alive,
         BeginStart \/ Reload \/ BeginStop \/ Continue
  PROVE  LiveInv'
<1>1. CASE BeginStart \/ Reload \/ BeginStop
               \/ SetDefault \/ Boot
               \/ CloseCore \/ UnsetTransport \/ FinishStop
  <2>1. /\ UNCHANGED <<channel, current, listening, pendingRequests, alive,
                       query>>
        /\ job # "await" /\ job' \notin {"started", "await", "stopping"}
        /\ job' \in Following => job \in Following
        /\ job \notin {"started", "await", "stopping"} \/ Sent({Job})
    BY <1>1 DEF BeginStart, Reload, BeginStop,
       SetDefault, Boot, CloseCore,
       Close, UnsetTransport, FinishStop, Following
  <2>2. CoreInv'
    <3>1. CASE Reload \/ CloseCore
      <4>1. core' = FALSE
            /\ \A q \in Queries : query'[q] # "idle" => orphaned'[q]
        BY <3>1 DEF Reload, CloseCore, Close
      <4> QED
        BY <4>1 DEF CoreInv
    <3>2. CASE ~(Reload \/ CloseCore)
      <4>1. /\ UNCHANGED <<query, orphaned>>
            /\ core' = core \/ (core' = TRUE /\ job' = "up")
            /\ job = "up" => job' = "close"
            /\ job # "close"
        BY <1>1, <3>2 DEF BeginStart, BeginStop,
           SetDefault, Boot,
           UnsetTransport, FinishStop
      <4>2. core' = core => CoreInv'
        BY <4>1 DEF LiveInv, CoreInv
      <4>3. core' = TRUE /\ job' = "up" => CoreInv'
        BY DEF CoreInv
      <4> QED
        BY <4>1, <4>2, <4>3
    <3> QED
      BY <3>1, <3>2
  <2>3. \A i \in DOMAIN channel : ~IsNotice(channel[i]) => channel[i].from # Job
    BY <2>1, JobSilent
  <2>4. job' \in Following => StartReceived
    BY <2>1 DEF LiveInv, ListenInv
  <2> QED
    BY <2>1, <2>2, <2>3, <2>4, MoveLive
<1>2. CASE ReadActive /\ sdk >= 23
  <2>1. /\ UNCHANGED <<channel, current, listening, pendingRequests, alive, query,
                       core, orphaned>>
        /\ job = "started" /\ Sent({Job}) /\ job' = "seen"
    BY <1>2 DEF ReadActive
  <2>2. \A i \in DOMAIN channel : ~IsNotice(channel[i]) => channel[i].from # Job
    BY <2>1, JobSilent
  <2>3. ~StartSent
    BY <2>2, BoundsFact DEF StartSent, LiveInv, ChannelInv, InPlace, IsNotice
  <2>4. CoreInv' /\ StartReceived
    BY <2>1, <2>3 DEF LiveInv, CoreInv, ListenInv
  <2> QED
    BY <2>1, <2>2, <2>4, MoveLive
<1>3. ASSUME NEW type \in {"Start", "Get", "Stop"}, Send(type, Job),
             UNCHANGED <<current, listening, pendingRequests, alive, query, core,
                         orphaned>>,
             \/ type = "Start" /\ job = "start" /\ job' = "started"
             \/ /\ type = "Get" /\ job = "started" /\ Sent({Job})
                /\ job' = "await"
             \/ type = "Stop" /\ job = "stop" /\ job' = "stopping"
      PROVE  LiveInv'
  <2>1. \A i \in DOMAIN channel : ~IsNotice(channel[i]) => channel[i].from # Job
    BY <1>3, JobSilent
  <2>2. \A m : InPlace(m) /\ m.from # Job => InPlace(m)'
    BY <1>3 DEF InPlace
  <2>3. InPlace([type |-> type, network |-> Null, from |-> Job])'
    BY <1>3 DEF InPlace
  <2>4. /\ ChannelInv'
        /\ \A s : Asked(s)' <=> Asked(s) \/ (type = "Get" /\ s = Job)
        /\ StartSent' <=> StartSent \/ type = "Start"
    BY <1>3, <2>1, <2>2, <2>3, SendFact DEF Requesters, LiveInv
  <2>5. RequestInv'
    BY <1>3, <2>4, BoundsFact DEF LiveInv, RequestInv, Handling, Asks
  <2>6. ListenInv'
    <3>1. CASE type = "Start"
      BY <1>3, <2>4, <3>1 DEF ListenInv, Following
    <3>2. CASE type = "Get"
      <4>1. ~StartSent
        BY <2>1, BoundsFact DEF StartSent, LiveInv, ChannelInv, InPlace,
           IsNotice
      <4> QED
        BY <1>3, <3>2, <4>1 DEF LiveInv, ListenInv, StartReceived,
           Handling
    <3>3. CASE type = "Stop"
      BY <1>3, <3>3 DEF ListenInv, Following
    <3> QED
      BY <3>1, <3>2, <3>3
  <2>7. CoreInv' /\ ActorLives'
    BY <1>3 DEF LiveInv, CoreInv, ActorLives
  <2> QED
    BY <2>4, <2>5, <2>6, <2>7 DEF LiveInv
<1>4. CASE SendStart \/ SendStop \/ (ReadActive /\ ~(sdk >= 23))
  BY <1>3, <1>4 DEF SendStart, SendStop, ReadActive
<1> QED
  BY <1>1, <1>2, <1>4 DEF Continue

\* A query asks while its core runs, or is an orphan from the beginning.
LEMMA QueryLive ==
  ASSUME MonitorTypeOK, LiveInv, alive, NEW q \in Queries,
         Require(q) \/ Get(q)
  PROVE  LiveInv'
<1>1. /\ UNCHANGED <<current, listening, pendingRequests, alive, job, core>>
      /\ query[q] # "wait"
      /\ \A p \in Queries : p # q => /\ query'[p] = query[p]
                                     /\ orphaned'[p] = orphaned[p]
      /\ q \in Requesters
  BY DEF Require, Get, MonitorTypeOK,
     Requesters
<1>2. /\ \A i \in DOMAIN channel : ~IsNotice(channel[i]) => channel[i].from # q
      /\ \A m : InPlace(m) /\ m.from # q => InPlace(m)'
      /\ \A r : Asks(r) => r # q /\ Asks(r)'
  BY <1>1, BoundsFact DEF LiveInv, ChannelInv, InPlace, Asks
<1>3. CASE UNCHANGED channel /\ query'[q] # "wait"
  <2>1. CoreInv'
    BY <1>1, <1>3 DEF Require, Get, LiveInv, CoreInv, MonitorTypeOK
  <2>2. ASSUME NEW i \in DOMAIN channel, ~IsNotice(channel[i])
        PROVE  InPlace(channel[i])'
    BY <1>1, <1>2, <1>3, <2>2 DEF LiveInv, ChannelInv, InPlace
  <2>3. ChannelInv'
    BY <1>3, <2>2 DEF LiveInv, ChannelInv, IsNotice
  <2> QED
    BY <1>1, <1>2, <1>3, <2>1, <2>3 DEF LiveInv, RequestInv, ListenInv,
       ActorLives,
       Handling, Asked, GetFrom, StartReceived, StartSent, Following
<1>4. CASE Send("Get", q) /\ query'[q] = "wait" /\ UNCHANGED orphaned
           /\ query[q] = "get"
  <2>1. InPlace([type |-> "Get", network |-> Null, from |-> q])'
    BY <1>4 DEF InPlace
  <2>2. /\ ChannelInv'
        /\ \A s : Asked(s)' <=> Asked(s) \/ s = q
        /\ StartSent' <=> StartSent
    BY <1>1, <1>2, <1>4, <2>1, SendFact DEF LiveInv
  <2>3. CoreInv'
    BY <1>1, <1>4 DEF LiveInv, CoreInv
  <2> QED
    BY <1>1, <1>2, <2>2, <2>3 DEF LiveInv, RequestInv, ListenInv,
       ActorLives,
       Handling, StartReceived, Following
<1> QED
  BY <1>3, <1>4 DEF Require, Get, MonitorTypeOK

\* The invariant holds at the beginning.
LEMMA LiveInit == MonitorInit => LiveInv
  BY DEF MonitorInit, LiveInv, ChannelInv, RequestInv, ListenInv, CoreInv,
     ActorLives,
     Handling, Following

\* Every step keeps it.
LEMMA LiveNext == MonitorTypeOK /\ LiveInv /\ [MonitorNext]_monitorVars => LiveInv'
<1> SUFFICES ASSUME MonitorTypeOK, LiveInv, [MonitorNext]_monitorVars PROVE LiveInv'
  OBVIOUS
<1>1. CASE UNCHANGED monitorVars
  BY <1>1 DEF LiveInv, ChannelInv, RequestInv, ListenInv, CoreInv,
     ActorLives,
     InPlace, IsNotice, Handling, Asks, Asked, GetFrom, StartReceived,
     StartSent,
     Following
<1>2. ASSUME alive, Actor PROVE LiveInv'
  BY <1>2, QuietLive, ReceiveLive, HandleGetLive, HandlePutLive, HandleLive
     DEF Actor
<1> QED
  BY <1>1, <1>2, QuietLive, JobLive, QueryLive DEF MonitorNext

-----------------------------------------------------------------------------
(* Notices on their way, as a sequence P.  Those of registration r count:  *)
(* P leads from the network n the actor has to the system's d, unless s,   *)
(* a stale network, has come between.                                      *)

Ours(P, r, i) == P[i].from = r

\* What changes the network of the actor.
Effect(P, r, i) == Ours(P, r, i) /\ P[i].type # "Update"

\* Notices of an earlier registration come before.
OrderOK(P, r) == \A i, j \in DOMAIN P : i < j /\ Ours(P, r, i) => Ours(P, r, j)

\* A network that is lost is the one the actor has by then.
LostOK(P, r, n, s) ==
  \A i \in DOMAIN P : Ours(P, r, i) /\ P[i].type = "Lost" =>
    \/ \E j \in DOMAIN P :
         /\ j < i /\ Ours(P, r, j) /\ P[j].type = "Put"
         /\ P[j].network = P[i].network
         /\ \A k \in DOMAIN P : j < k /\ k < i => ~Effect(P, r, k)
    \/ /\ \A k \in DOMAIN P : k < i => ~Effect(P, r, k)
       /\ s \/ n = P[i].network

\* The last change leads to the system's network.
EndOK(P, r, n, s, d) ==
  \/ \E j \in DOMAIN P :
       /\ Effect(P, r, j) /\ \A k \in DOMAIN P : j < k => ~Effect(P, r, k)
       /\ P[j].type = "Put" => P[j].network = d
       /\ P[j].type = "Lost" => d = Null
  \/ (\A k \in DOMAIN P : ~Effect(P, r, k)) /\ (s \/ n = d)

\* Until one of ours has come the actor has no network.
OldOK(P, r, n, s) == ~s /\ (\E i \in DOMAIN P : ~Ours(P, r, i)) => n = Null

\* What the notices under way say of the network.
WayOK(P, r, n, s, d) ==
  /\ OrderOK(P, r) /\ LostOK(P, r, n, s) /\ EndOK(P, r, n, s, d)
  /\ OldOK(P, r, n, s)

\* What the system posts of its network comes behind the others.
LEMMA PostWay ==
  ASSUME NEW P \in Seq(Notice), NEW r, NEW n, NEW s, NEW d, NEW e,
         NEW m \in Notice, m.from = r, m.network # Null, WayOK(P, r, n, s, d),
         m.type = "Put" => e = m.network,
         m.type = "Lost" => m.network = d /\ e = Null,
         m.type = "Update" => e = d
  PROVE  WayOK(Append(P, m), r, n, s, e)
<1> DEFINE Q == Append(P, m)
           l == Len(P) + 1
<1>1. /\ \A i \in DOMAIN P : i \in DOMAIN Q /\ Q[i] = P[i] /\ i < l
      /\ \A i \in DOMAIN Q : (i \in DOMAIN P /\ Q[i] = P[i]) \/ (i = l /\ Q[i] = m)
      /\ l \in DOMAIN Q /\ Q[l] = m /\ l \notin DOMAIN P
      /\ DOMAIN P \subseteq Int /\ l \in Int
  OBVIOUS
<1> HIDE DEF Q, l
<1>2. OrderOK(Q, r) /\ OldOK(Q, r, n, s)
  BY <1>1 DEF WayOK, OrderOK, OldOK, Ours
<1>3. \A k \in DOMAIN P : Effect(Q, r, k) <=> Effect(P, r, k)
  BY <1>1 DEF Effect, Ours
<1>4. LostOK(Q, r, n, s)
  <2> SUFFICES ASSUME NEW i \in DOMAIN Q, Ours(Q, r, i), Q[i].type = "Lost"
               PROVE  \/ \E j \in DOMAIN Q :
                           /\ j < i /\ Ours(Q, r, j) /\ Q[j].type = "Put"
                           /\ Q[j].network = Q[i].network
                           /\ \A k \in DOMAIN Q : j < k /\ k < i => ~Effect(Q, r, k)
                      \/ /\ \A k \in DOMAIN Q : k < i => ~Effect(Q, r, k)
                         /\ s \/ n = Q[i].network
    BY DEF LostOK
  <2>1. \A k \in DOMAIN Q : k < i => /\ k \in DOMAIN P
                                     /\ Effect(Q, r, k) <=> Effect(P, r, k)
    BY <1>1, <1>3
  <2>2. ASSUME NEW j \in DOMAIN P, j < i, Ours(P, r, j), P[j].type = "Put",
               P[j].network = Q[i].network,
               \A k \in DOMAIN P : j < k /\ k < i => ~Effect(P, r, k)
        PROVE  \E jj \in DOMAIN Q :
                 /\ jj < i /\ Ours(Q, r, jj) /\ Q[jj].type = "Put"
                 /\ Q[jj].network = Q[i].network
                 /\ \A k \in DOMAIN Q : jj < k /\ k < i => ~Effect(Q, r, k)
    <3>1. j \in DOMAIN Q /\ Q[j] = P[j] /\ Ours(Q, r, j)
      BY <1>1, <2>2 DEF Ours
    <3> QED
      BY <2>1, <2>2, <3>1
  <2>3. CASE i \in DOMAIN P
    <3>1. Q[i] = P[i] /\ Ours(P, r, i)
      BY <1>1, <2>3 DEF Ours
    <3>2. CASE \E j \in DOMAIN P :
                 /\ j < i /\ Ours(P, r, j) /\ P[j].type = "Put"
                 /\ P[j].network = P[i].network
                 /\ \A k \in DOMAIN P : j < k /\ k < i => ~Effect(P, r, k)
      BY <2>2, <3>1, <3>2
    <3>3. CASE /\ \A k \in DOMAIN P : k < i => ~Effect(P, r, k)
               /\ s \/ n = P[i].network
      BY <2>1, <3>1, <3>3
    <3> QED
      BY <2>3, <3>1, <3>2, <3>3 DEF WayOK, LostOK
  <2>4. CASE i \notin DOMAIN P
    <3>1. i = l /\ Q[i] = m /\ m.type = "Lost" /\ d = m.network
      BY <1>1, <2>4
    <3>2. CASE \E j \in DOMAIN P :
                 /\ Effect(P, r, j) /\ \A k \in DOMAIN P : j < k => ~Effect(P, r, k)
                 /\ P[j].type = "Put" => P[j].network = d
                 /\ P[j].type = "Lost" => d = Null
      <4>1. PICK j \in DOMAIN P :
                 /\ Effect(P, r, j) /\ \A k \in DOMAIN P : j < k => ~Effect(P, r, k)
                 /\ P[j].type = "Put" => P[j].network = d
                 /\ P[j].type = "Lost" => d = Null
        BY <3>2
      <4>2. Ours(P, r, j) /\ P[j].type \in {"Put", "Lost"}
        <5>1. P[j] \in Notice
          OBVIOUS
        <5> QED
          BY <4>1, <5>1 DEF Effect, Notice
      <4>3. P[j].type = "Put" /\ j < i
        BY <1>1, <3>1, <4>1, <4>2
      <4> QED
        BY <2>2, <3>1, <4>1, <4>2, <4>3
    <3>3. CASE (\A k \in DOMAIN P : ~Effect(P, r, k)) /\ (s \/ n = d)
      BY <2>1, <3>1, <3>3
    <3> QED
      BY <3>2, <3>3 DEF WayOK, EndOK
  <2> QED
    BY <2>3, <2>4
<1>5. EndOK(Q, r, n, s, e)
  <2>1. CASE m.type # "Update"
    <3>1. Effect(Q, r, l) /\ \A k \in DOMAIN Q : l < k => ~Effect(Q, r, k)
      BY <1>1, <2>1 DEF Effect, Ours
    <3> QED
      BY <1>1, <3>1 DEF EndOK
  <2>2. CASE m.type = "Update"
    <3>1. ~Effect(Q, r, l) /\ e = d
      BY <1>1, <2>2 DEF Effect
    <3>2. \A k \in DOMAIN Q : Effect(Q, r, k) => k \in DOMAIN P
      BY <1>1, <3>1
    <3>3. CASE \E j \in DOMAIN P :
                 /\ Effect(P, r, j) /\ \A k \in DOMAIN P : j < k => ~Effect(P, r, k)
                 /\ P[j].type = "Put" => P[j].network = d
                 /\ P[j].type = "Lost" => d = Null
      BY <1>1, <1>3, <3>1, <3>2, <3>3 DEF EndOK
    <3>4. CASE (\A k \in DOMAIN P : ~Effect(P, r, k)) /\ (s \/ n = d)
      BY <1>3, <3>1, <3>2, <3>4 DEF EndOK
    <3> QED
      BY <3>3, <3>4 DEF WayOK, EndOK
  <2> QED
    BY <2>1, <2>2
<1> QED
  BY <1>2, <1>4, <1>5 DEF WayOK, Q

\* The first notice is handled.  One that changes the network says what it is
\* afterwards, and others leave it or a stale one.
LEMMA HandleWay ==
  ASSUME NEW P \in Seq(Notice), P # <<>>, NEW r, NEW n, NEW s, NEW d,
         NEW n2, NEW s2, WayOK(P, r, n, s, d),
         Effect(P, r, 1) =>
           /\ P[1].type = "Put" => n2 = P[1].network
           /\ P[1].type = "Lost" => s2 \/ n2 = Null,
         ~Effect(P, r, 1) => s2 \/ (~s /\ n2 = n)
  PROVE  WayOK(Tail(P), r, n2, s2, d)
<1> DEFINE T == Tail(P)
<1>1. /\ T \in Seq(Notice) /\ 1 \in DOMAIN P
      /\ \A i \in DOMAIN T : /\ i \in Nat \ {0} /\ i + 1 \in DOMAIN P
                             /\ T[i] = P[i + 1]
      /\ \A i \in DOMAIN P : /\ i \in Nat \ {0}
                             /\ i # 1 => i - 1 \in DOMAIN T /\ T[i - 1] = P[i]
  BY TailFact
<1> HIDE DEF T
<1>2. /\ \A i \in DOMAIN T : /\ Ours(T, r, i) <=> Ours(P, r, i + 1)
                             /\ Effect(T, r, i) <=> Effect(P, r, i + 1)
      /\ \A i \in DOMAIN P : i # 1 => /\ Ours(P, r, i) <=> Ours(T, r, i - 1)
                                      /\ Effect(P, r, i) <=> Effect(T, r, i - 1)
  BY <1>1 DEF Effect, Ours
<1>3. OrderOK(T, r)
  <2> SUFFICES ASSUME NEW i \in DOMAIN T, NEW j \in DOMAIN T, i < j,
                      Ours(T, r, i)
               PROVE  Ours(T, r, j)
    BY DEF OrderOK
  <2>1. i + 1 < j + 1 /\ i + 1 \in DOMAIN P /\ j + 1 \in DOMAIN P
    BY <1>1
  <2> QED
    BY <1>2, <2>1 DEF WayOK, OrderOK
<1>4. P[1].type \in {"Put", "Update", "Lost"}
  <2>1. P[1] \in Notice
    BY <1>1
  <2> QED
    BY <2>1 DEF Notice
<1>5. LostOK(T, r, n2, s2)
  <2> SUFFICES ASSUME NEW i \in DOMAIN T, Ours(T, r, i), T[i].type = "Lost"
               PROVE  \/ \E j \in DOMAIN T :
                           /\ j < i /\ Ours(T, r, j) /\ T[j].type = "Put"
                           /\ T[j].network = T[i].network
                           /\ \A k \in DOMAIN T : j < k /\ k < i => ~Effect(T, r, k)
                      \/ /\ \A k \in DOMAIN T : k < i => ~Effect(T, r, k)
                         /\ s2 \/ n2 = T[i].network
    BY DEF LostOK
  <2>1. i + 1 \in DOMAIN P /\ Ours(P, r, i + 1) /\ P[i + 1] = T[i] /\ i \in Nat \ {0}
    BY <1>1, <1>2
  <2>2. ASSUME NEW j \in DOMAIN P, j < i + 1, Ours(P, r, j), P[j].type = "Put",
               P[j].network = P[i + 1].network,
               \A k \in DOMAIN P : j < k /\ k < i + 1 => ~Effect(P, r, k)
        PROVE  \/ \E jj \in DOMAIN T :
                    /\ jj < i /\ Ours(T, r, jj) /\ T[jj].type = "Put"
                    /\ T[jj].network = T[i].network
                    /\ \A k \in DOMAIN T : jj < k /\ k < i => ~Effect(T, r, k)
               \/ /\ \A k \in DOMAIN T : k < i => ~Effect(T, r, k)
                  /\ s2 \/ n2 = T[i].network
    <3>1. \A k \in DOMAIN T : j < k + 1 /\ k < i => ~Effect(T, r, k)
      BY <1>1, <1>2, <2>1, <2>2
    <3>2. CASE j = 1
      <4>1. Effect(P, r, 1) /\ n2 = T[i].network
        BY <2>1, <2>2, <3>2 DEF Effect
      <4> QED
        BY <1>1, <3>1, <3>2, <4>1
    <3>3. CASE j # 1
      <4>1. /\ j - 1 \in DOMAIN T /\ T[j - 1] = P[j] /\ Ours(T, r, j - 1)
            /\ j - 1 < i /\ j \in Nat
        BY <1>1, <1>2, <2>1, <2>2, <3>3
      <4>2. \A k \in DOMAIN T : j - 1 < k /\ k < i => ~Effect(T, r, k)
        BY <1>1, <3>1, <4>1
      <4> QED
        BY <2>1, <2>2, <4>1, <4>2
    <3> QED
      BY <3>2, <3>3
  <2>3. CASE /\ \A k \in DOMAIN P : k < i + 1 => ~Effect(P, r, k)
             /\ s \/ n = P[i + 1].network
    <3>1. ~Effect(P, r, 1)
      BY <1>1, <2>1, <2>3
    <3>2. \A k \in DOMAIN T : k < i => ~Effect(T, r, k)
      BY <1>1, <1>2, <2>1, <2>3
    <3> QED
      BY <2>1, <2>3, <3>1, <3>2
  <2> QED
    BY <2>1, <2>2, <2>3 DEF WayOK, LostOK
<1>6. EndOK(T, r, n2, s2, d)
  <2>1. ASSUME NEW j \in DOMAIN P, Effect(P, r, j),
               \A k \in DOMAIN P : j < k => ~Effect(P, r, k),
               P[j].type = "Put" => P[j].network = d,
               P[j].type = "Lost" => d = Null
        PROVE  EndOK(T, r, n2, s2, d)
    <3>1. \A k \in DOMAIN T : j < k + 1 => ~Effect(T, r, k)
      BY <1>1, <1>2, <2>1
    <3>2. CASE j = 1
      <4>1. s2 \/ n2 = d
        BY <1>4, <2>1, <3>2 DEF Effect
      <4> QED
        BY <1>1, <3>1, <3>2, <4>1 DEF EndOK
    <3>3. CASE j # 1
      <4>1. j - 1 \in DOMAIN T /\ T[j - 1] = P[j] /\ Effect(T, r, j - 1) /\ j \in Nat
        BY <1>1, <1>2, <2>1, <3>3
      <4>2. \A k \in DOMAIN T : j - 1 < k => ~Effect(T, r, k)
        BY <1>1, <3>1, <4>1
      <4> QED
        BY <2>1, <4>1, <4>2 DEF EndOK
    <3> QED
      BY <3>2, <3>3
  <2>2. CASE (\A k \in DOMAIN P : ~Effect(P, r, k)) /\ (s \/ n = d)
    <3>1. \A k \in DOMAIN T : ~Effect(T, r, k)
      BY <1>1, <1>2, <2>2
    <3> QED
      BY <1>1, <2>2, <3>1 DEF EndOK
  <2> QED
    BY <2>1, <2>2 DEF WayOK, EndOK
<1>7. OldOK(T, r, n2, s2)
  <2> SUFFICES ASSUME ~s2, NEW i \in DOMAIN T, ~Ours(T, r, i) PROVE n2 = Null
    BY DEF OldOK
  <2>1. i + 1 \in DOMAIN P /\ ~Ours(P, r, i + 1) /\ 1 < i + 1
    BY <1>1, <1>2
  <2>2. ~Ours(P, r, 1)
    BY <1>1, <2>1 DEF WayOK, OrderOK
  <2> QED
    BY <2>1, <2>2 DEF WayOK, OldOK, Effect
<1> QED
  BY <1>3, <1>5, <1>6, <1>7 DEF WayOK, T

\* At a new registration nothing on its way is of it.
LEMMA NewWay ==
  ASSUME NEW P \in Seq(Notice), NEW r \in Nat, NEW n, NEW s,
         \A i \in DOMAIN P : P[i].from \in 1 .. r, s \/ n = Null
  PROVE  WayOK(P, r + 1, n, s, Null)
<1>1. \A i \in DOMAIN P : ~Ours(P, r + 1, i)
  BY DEF Ours
<1> QED
  BY <1>1 DEF WayOK, OrderOK, LostOK, EndOK, OldOK, Effect

-----------------------------------------------------------------------------
(* The way of a notice: posted, with the callback thread, received.        *)

\* What the callback thread has taken and the actor has not.
OnWay == {channel[i] : i \in {j \in DOMAIN channel : IsNotice(channel[j])}}
         \cup ({callback} \ {Null})

\* The notices under way: one received, one with the callback, the posted.
Received == IF current # Null /\ IsNotice(current) THEN <<current>> ELSE <<>>
Waiting == IF OnWay = {} THEN <<>> ELSE <<CHOOSE m \in OnWay : TRUE>>
Pipe == Received \o Waiting \o notices

\* The callback thread has one notice at a time, and the callback is
\* registered while the monitor listens, unless that was refused.
WayInv ==
  /\ \A i, j \in DOMAIN channel :
       IsNotice(channel[i]) /\ IsNotice(channel[j]) => i = j
  /\ callback # Null => \A i \in DOMAIN channel : ~IsNotice(channel[i])
  /\ \A m \in OnWay : m.from \in 1 .. registration
  /\ current # Null /\ IsNotice(current) => current.from \in 1 .. registration
  /\ \A i \in DOMAIN notices : notices[i].from = registration
  /\ callbackRegistered <=> listening /\ ~fallback
  /\ callbackRegistered => registration # 0
  /\ ~callbackRegistered => notices = <<>>

\* What a job has not yet set is left to the notices to come.
NoEffect == \A i \in DOMAIN Pipe : ~Effect(Pipe, registration, i)
ToldInv ==
  ~stale /\ job \notin {"started", "await", "seen"} /\ NoEffect
    => defaultNetwork = default

\* All of it, while the callback is registered.
FreshInv ==
  /\ callbackRegistered => /\ WayOK(Pipe, registration, network, stale, default)
                           /\ ToldInv
  /\ ~listening /\ ~stale => network = Null

\* Operations of the three parts.
LEMMA LaneFacts ==
  ASSUME NEW S, NEW a \in Seq(S), NEW b \in Seq(S), NEW c \in Seq(S)
  PROVE  /\ a \o b \o c \in Seq(S)
         /\ \A m \in S : a \o b \o Append(c, m) = Append(a \o b \o c, m)
         /\ b = <<>> /\ c # <<>> => a \o <<Head(c)>> \o Tail(c) = a \o b \o c
         /\ \A m \in S : <<m>> \o <<>> \o c = <<>> \o <<m>> \o c
         /\ \A m \in S : a = <<m>> => /\ a \o b \o c # <<>>
                                      /\ (a \o b \o c)[1] = m
                                      /\ Tail(a \o b \o c) = <<>> \o b \o c
<1>1. a \o b \o c \in Seq(S)
  OBVIOUS
<1>2. ASSUME NEW m \in S PROVE a \o b \o Append(c, m) = Append(a \o b \o c, m)
  <2> DEFINE s == a \o b \o Append(c, m)
             t == Append(a \o b \o c, m)
  <2>1. s \in Seq(S) /\ t \in Seq(S) /\ Len(s) = Len(t)
    OBVIOUS
  <2>2. \A i \in 1 .. Len(s) : s[i] = t[i]
    OBVIOUS
  <2> HIDE DEF s, t
  <2>3. s = t
    BY <2>1, <2>2, SeqEqual
  <2> QED
    BY <2>3 DEF s, t
<1>3. ASSUME b = <<>>, c # <<>> PROVE a \o <<Head(c)>> \o Tail(c) = a \o b \o c
  <2> DEFINE s == a \o <<Head(c)>> \o Tail(c)
             t == a \o b \o c
  <2>1. Head(c) \in S /\ Tail(c) \in Seq(S) /\ <<Head(c)>> \in Seq(S)
    BY <1>3
  <2>2. s \in Seq(S) /\ t \in Seq(S) /\ Len(s) = Len(t)
    BY <1>3, <2>1
  <2>3. \A i \in 1 .. Len(s) : s[i] = t[i]
    BY <1>3, <2>1
  <2> HIDE DEF s, t
  <2>4. s = t
    BY <2>2, <2>3, SeqEqual
  <2> QED
    BY <2>4 DEF s, t
<1>4. ASSUME NEW m \in S PROVE <<m>> \o <<>> \o c = <<>> \o <<m>> \o c
  <2>1. <<m>> \in Seq(S)
    OBVIOUS
  <2>2. <<m>> \o <<>> = <<m>> /\ <<>> \o <<m>> = <<m>>
    BY <2>1, ConcatEmptySeq
  <2> QED
    BY <2>2
<1>5. ASSUME NEW m \in S, a = <<m>>
      PROVE  /\ a \o b \o c # <<>> /\ (a \o b \o c)[1] = m
             /\ Tail(a \o b \o c) = <<>> \o b \o c
  <2> DEFINE s == Tail(a \o b \o c)
             t == <<>> \o b \o c
  <2>1. <<m>> \in Seq(S) /\ Len(<<m>>) = 1 /\ <<m>>[1] = m
    OBVIOUS
  <2>2. a \o b \o c # <<>> /\ (a \o b \o c)[1] = m
    BY <1>5, <2>1
  <2>3. s \in Seq(S) /\ t \in Seq(S) /\ Len(s) = Len(t)
    BY <1>5, <2>1, <2>2
  <2>4. \A i \in 1 .. Len(s) : s[i] = t[i]
    BY <1>5, <2>1, <2>2
  <2> HIDE DEF s, t
  <2>5. s = t
    BY <2>3, <2>4, SeqEqual
  <2> QED
    BY <2>2, <2>5 DEF s, t
<1> QED
  BY <1>1, <1>2, <1>3, <1>4, <1>5

\* The notices under way are notices.
LEMMA PipeType ==
  ASSUME MonitorTypeOK, WayInv
  PROVE  /\ Received \in Seq(Notice) /\ Waiting \in Seq(Notice)
         /\ notices \in Seq(Notice) /\ Pipe \in Seq(Notice)
         /\ \A i \in DOMAIN Pipe : Pipe[i].from \in 1 .. registration
<1>1. \A m \in OnWay : m \in Notice
  BY DEF OnWay, MonitorTypeOK, Message, IsNotice
<1>2. current # Null /\ IsNotice(current) => current \in Notice
  BY DEF MonitorTypeOK, Message, IsNotice
<1>3. notices \in Seq(Notice)
  BY DEF MonitorTypeOK
<1> DEFINE N == {m \in Notice : m.from \in 1 .. registration}
<1>4. Received \in Seq(N)
  <2>1. CASE current # Null /\ IsNotice(current)
    <3>1. current \in N
      BY <1>2, <2>1 DEF WayInv
    <3> HIDE DEF N
    <3> QED
      BY <2>1, <3>1 DEF Received
  <2>2. CASE ~(current # Null /\ IsNotice(current))
    BY <2>2 DEF Received
  <2> QED
    BY <2>1, <2>2
<1>5. Waiting \in Seq(N)
  <2>1. CASE OnWay = {}
    BY <2>1 DEF Waiting
  <2>2. CASE OnWay # {}
    <3> DEFINE w == CHOOSE m \in OnWay : TRUE
    <3>1. w \in OnWay
      BY <2>2
    <3>2. w \in N
      BY <1>1, <3>1 DEF WayInv
    <3>3. Waiting = <<w>>
      BY <2>2 DEF Waiting
    <3> HIDE DEF w, N
    <3> QED
      BY <3>2, <3>3
  <2> QED
    BY <2>1, <2>2
<1>6. notices \in Seq(N)
  <2>1. \A i \in DOMAIN notices : notices[i] \in N
    <3> SUFFICES ASSUME NEW i \in DOMAIN notices PROVE notices[i] \in N
      OBVIOUS
    <3>1. callbackRegistered /\ registration \in Nat
      BY DEF WayInv, MonitorTypeOK
    <3>2. notices[i] \in Notice
      BY <1>3
    <3> QED
      BY <3>1, <3>2 DEF WayInv
  <2> HIDE DEF N
  <2> QED
    BY <1>3, <2>1
<1>7. Pipe \in Seq(N)
  <2> HIDE DEF N
  <2> QED
    BY <1>4, <1>5, <1>6 DEF Pipe
<1>8. N \subseteq Notice
  OBVIOUS
<1> HIDE DEF N
<1>9. /\ Received \in Seq(Notice)
      /\ Waiting \in Seq(Notice)
      /\ Pipe \in Seq(Notice)
  BY <1>4, <1>5, <1>7, <1>8, SeqMonotonic
<1>10. \A i \in DOMAIN Pipe : Pipe[i] \in N
  BY <1>7
<1> QED
  BY <1>3, <1>9, <1>10 DEF N

-----------------------------------------------------------------------------
(* Every step, seen from the notices on their way.                         *)

\* Requests come and go past the notices.
LEMMA SameWay ==
  ASSUME MonitorTypeOK, WayInv,
         UNCHANGED <<registry, callback, fallback, listening>>,
         \/ channel' = channel
         \/ \E m \in Message : ~IsNotice(m) /\ channel' = Append(channel, m),
         \/ current' = current
         \/ current' = Null /\ ~(current # Null /\ IsNotice(current))
  PROVE  WayInv' /\ Pipe' = Pipe
<1>1. /\ \A i \in DOMAIN channel : i \in DOMAIN channel' /\ channel'[i] = channel[i]
      /\ \A i \in DOMAIN channel' :
           \/ i \in DOMAIN channel /\ channel'[i] = channel[i]
           \/ ~IsNotice(channel'[i])
  BY AppendFact DEF MonitorTypeOK
<1>2. OnWay' = OnWay
  <2>1. \A m : m \in OnWay' <=> m \in OnWay
    BY <1>1 DEF OnWay, IsNotice
  <2> QED
    BY <2>1
<1>3. Received' = Received /\ Waiting' = Waiting /\ notices' = notices
  BY <1>2 DEF Received, Waiting, IsNotice
<1>4. WayInv'
  BY <1>1, <1>2 DEF WayInv, IsNotice
<1> QED
  BY <1>3, <1>4 DEF Pipe

\* The callback thread takes a notice when its last one has been received.
LEMMA RunCallbackWay ==
  ASSUME MonitorTypeOK, WayInv, RunCallback PROVE WayInv' /\ Pipe' = Pipe
<1>1. /\ callback = Null /\ notices # <<>> /\ Sent(CallbackThread)
      /\ callback' = Head(notices) /\ notices' = Tail(notices)
      /\ UNCHANGED <<callbackRegistered, registration, fallback, channel,
                     current, listening>>
  BY DEF RunCallback
<1>2. Head(notices) \in Notice /\ Tail(notices) \in Seq(Notice)
      /\ Head(notices) = notices[1] /\ 1 \in DOMAIN notices
      /\ \A i \in DOMAIN Tail(notices) :
           i + 1 \in DOMAIN notices /\ Tail(notices)[i] = notices[i + 1]
  BY <1>1, TailFact DEF MonitorTypeOK
<1>3. Head(notices) # Null
  BY <1>2, BoundsFact DEF Message
<1>4. \A i \in DOMAIN channel : ~IsNotice(channel[i])
  <2> SUFFICES ASSUME NEW i \in DOMAIN channel, IsNotice(channel[i]) PROVE FALSE
    OBVIOUS
  <2>1. channel[i] \in OnWay
    BY DEF OnWay
  <2>2. channel[i].from \in CallbackThread
    BY <2>1 DEF WayInv, CallbackThread
  <2> QED
    BY <1>1, <2>2 DEF Sent
<1>5. OnWay = {} /\ OnWay' = {Head(notices)}
  BY <1>1, <1>3, <1>4 DEF OnWay, IsNotice
<1>6. Received' = Received /\ Waiting = <<>> /\ Waiting' = <<Head(notices)>>
  <2>1. (CHOOSE m \in {Head(notices)} : TRUE) = Head(notices)
    OBVIOUS
  <2> QED
    BY <1>1, <1>5, <2>1 DEF Received, Waiting, IsNotice
<1>7. Pipe' = Pipe
  <2>1. /\ Received \in Seq(Notice)
        /\ Waiting \in Seq(Notice)
        /\ notices \in Seq(Notice)
    BY PipeType
  <2>2. Received \o <<Head(notices)>> \o Tail(notices) = Received \o Waiting \o notices
    BY <1>1, <1>6, <2>1, LaneFacts
  <2> QED
    BY <1>1, <1>6, <2>2 DEF Pipe
<1>8. callbackRegistered /\ registration \in 1 .. registration
  <2>1. callbackRegistered
    BY <1>1 DEF WayInv
  <2> QED
    BY <2>1 DEF WayInv, MonitorTypeOK
<1>9. WayInv'
  BY <1>1, <1>2, <1>4, <1>5, <1>8 DEF WayInv, IsNotice
<1> QED
  BY <1>7, <1>9

\* Then it sends it.
LEMMA SendNoticeWay ==
  ASSUME MonitorTypeOK, WayInv, SendNotice PROVE WayInv' /\ Pipe' = Pipe
<1>1. /\ callback # Null /\ callback' = Null /\ channel' = Append(channel, callback)
      /\ UNCHANGED <<callbackRegistered, registration, notices, fallback,
                     current, listening>>
  BY DEF SendNotice
<1>2. callback \in Notice /\ IsNotice(callback) /\ callback \in Message
      /\ channel \in Seq(Message)
  BY <1>1 DEF MonitorTypeOK, Notice, Message, IsNotice
<1> DEFINE n == Len(channel) + 1
<1>3. /\ \A i \in DOMAIN channel : i \in DOMAIN channel' /\ channel'[i] = channel[i]
      /\ \A i \in DOMAIN channel' : \/ i \in DOMAIN channel /\ channel'[i] = channel[i]
                                    \/ i = n /\ channel'[i] = callback
      /\ n \in DOMAIN channel' /\ channel'[n] = callback
  BY <1>1, <1>2, AppendFact
<1> HIDE DEF n
<1>4. \A i \in DOMAIN channel : ~IsNotice(channel[i])
  BY <1>1 DEF WayInv
<1>5. OnWay = {callback}
  BY <1>1, <1>4 DEF OnWay
<1>6. OnWay' = {callback}
  <2>1. \A m : m \in OnWay' <=> m = callback
    BY <1>1, <1>2, <1>3, <1>4 DEF OnWay, IsNotice
  <2> QED
    BY <2>1
<1>7. Received' = Received /\ Waiting' = Waiting /\ notices' = notices
  BY <1>1, <1>5, <1>6 DEF Received, Waiting, IsNotice
<1>8. WayInv'
  BY <1>1, <1>3, <1>4, <1>5, <1>6 DEF WayInv, IsNotice
<1> QED
  BY <1>7, <1>8 DEF Pipe

\* The actor receives it, or a request.
LEMMA ReceiveWay ==
  ASSUME MonitorTypeOK, WayInv, Receive PROVE WayInv' /\ Pipe' = Pipe
<1> DEFINE h == Head(channel)
<1>1. /\ current = Null /\ current' = h /\ channel' = Tail(channel)
      /\ channel \in Seq(Message) /\ channel # <<>>
      /\ UNCHANGED <<registry, callback, fallback, listening>>
  BY DEF Receive, MonitorTypeOK
<1>2. /\ h = channel[1] /\ 1 \in DOMAIN channel /\ h \in Message
      /\ \A i \in DOMAIN channel' : /\ i \in Nat \ {0} /\ i + 1 \in DOMAIN channel
                                    /\ channel'[i] = channel[i + 1]
      /\ \A i \in DOMAIN channel :
           i \in Nat \ {0} /\ (i # 1 => /\ i - 1 \in DOMAIN channel'
                                        /\ channel'[i - 1] = channel[i])
  BY <1>1, TailFact
<1> HIDE DEF h
<1>3. h # Null /\ h \in Message
  BY <1>2, BoundsFact
<1>4. Received = <<>> /\ notices \in Seq(Notice)
  BY <1>1 DEF Received, MonitorTypeOK
<1>5. CASE IsNotice(h)
  <2>1. \A i \in DOMAIN channel : i # 1 => ~IsNotice(channel[i])
    BY <1>2, <1>5 DEF WayInv
  <2>2. \A i \in DOMAIN channel' : ~IsNotice(channel'[i])
    BY <1>2, <2>1
  <2>3. callback = Null
    BY <1>2, <1>5 DEF WayInv
  <2>4. OnWay = {h} /\ OnWay' = {}
    <3>1. \A m : m \in OnWay <=> m = h
      BY <1>2, <1>5, <2>1, <2>3 DEF OnWay
    <3>2. \A m : m \notin OnWay'
      BY <1>1, <2>2, <2>3 DEF OnWay, IsNotice
    <3> QED
      BY <3>1, <3>2
  <2>5. Waiting = <<h>> /\ Waiting' = <<>> /\ Received' = <<h>>
    <3>1. (CHOOSE m \in {h} : TRUE) = h
      OBVIOUS
    <3> QED
      BY <1>1, <1>3, <1>5, <2>4, <3>1 DEF Waiting, Received, IsNotice
  <2>6. h \in Notice
    BY <1>3, <1>5 DEF Message, IsNotice
  <2>7. Pipe' = Pipe
    <3>1. <<h>> \o <<>> \o notices = <<>> \o <<h>> \o notices
      BY <1>4, <2>6, LaneFacts, EmptySeq
    <3> QED
      BY <1>1, <1>4, <2>5, <3>1 DEF Pipe
  <2>8. h.from \in 1 .. registration
    BY <2>4 DEF WayInv
  <2>9. WayInv'
    BY <1>1, <2>2, <2>4, <2>8 DEF WayInv, IsNotice
  <2> QED
    BY <2>7, <2>9
<1>6. CASE ~IsNotice(h)
  <2>1. /\ \A i \in DOMAIN channel' : \E j \in DOMAIN channel : channel'[i] = channel[j]
        /\ \A i \in DOMAIN channel :
             IsNotice(channel[i]) => \E j \in DOMAIN channel' : channel'[j] = channel[i]
    BY <1>2, <1>6
  <2>2. OnWay' = OnWay
    <3>1. ASSUME NEW m \in OnWay' PROVE m \in OnWay
      BY <1>1, <2>1, <3>1 DEF OnWay, IsNotice
    <3>2. ASSUME NEW m \in OnWay PROVE m \in OnWay'
      BY <1>1, <2>1, <3>2 DEF OnWay, IsNotice
    <3> QED
      BY <3>1, <3>2
  <2>3. Received' = Received /\ Waiting' = Waiting
    BY <1>1, <1>4, <1>6, <2>2 DEF Received, Waiting, IsNotice
  <2>4. WayInv'
    <3>1. \A i, j \in DOMAIN channel' :
            IsNotice(channel'[i]) /\ IsNotice(channel'[j]) => i = j
      <4> SUFFICES ASSUME NEW i \in DOMAIN channel', NEW j \in DOMAIN channel',
                          IsNotice(channel'[i]), IsNotice(channel'[j])
                   PROVE  i = j
        OBVIOUS
      <4>1. i + 1 = j + 1
        BY <1>2 DEF WayInv
      <4> QED
        BY <1>2, <4>1
    <3>2. callback' # Null => \A i \in DOMAIN channel' : ~IsNotice(channel'[i])
      BY <1>1, <1>2 DEF WayInv
    <3> QED
      BY <1>1, <1>6, <2>2, <3>1, <3>2 DEF WayInv, IsNotice
  <2> QED
    BY <1>1, <2>3, <2>4 DEF Pipe
<1> QED
  BY <1>5, <1>6

\* A notice that has been handled was the first.
LEMMA HandledWay ==
  ASSUME MonitorTypeOK, WayInv, current # Null, IsNotice(current), current' = Null,
         UNCHANGED <<registry, callback, fallback, listening, channel>>
  PROVE  /\ WayInv' /\ Pipe # <<>> /\ Pipe[1] = current
         /\ Pipe' = Tail(Pipe) /\ current \in Notice
<1>1. /\ Received \in Seq(Notice) /\ Waiting \in Seq(Notice)
      /\ notices \in Seq(Notice)
  BY PipeType
<1>2. current \in Notice
  BY DEF MonitorTypeOK, Message, IsNotice
<1>3. Received = <<current>> /\ Received' = <<>> /\ Waiting' = Waiting
  BY DEF Received, Waiting, OnWay, IsNotice
<1>4. /\ Received \o Waiting \o notices # <<>>
      /\ (Received \o Waiting \o notices)[1] = current
      /\ Tail(Received \o Waiting \o notices) = <<>> \o Waiting \o notices
  BY <1>1, <1>2, <1>3, LaneFacts
<1>5. WayInv'
  BY DEF WayInv, OnWay, IsNotice
<1> QED
  BY <1>2, <1>3, <1>4, <1>5 DEF Pipe

\* The system posts behind the others.
LEMMA PostWayOut ==
  ASSUME MonitorTypeOK, WayInv, callbackRegistered,
         UNCHANGED <<callbackRegistered, registration, callback, fallback, listening,
                     channel, current>>,
         NEW type \in {"Put", "Update", "Lost"}, NEW n \in Networks, Announce(type, n)
  PROVE  WayInv' /\ \E m \in Notice : /\ m.type = type /\ m.network = n
                                              /\ m.from = registration
                                              /\ Pipe' = Append(Pipe, m)
<1> DEFINE m == [type |-> type, network |-> n, from |-> registration]
<1>1. m \in Notice /\ m.type = type /\ m.network = n /\ m.from = registration
  BY DEF Notice, MonitorTypeOK
<1>2. notices' = Append(notices, m)
  BY DEF Announce
<1> HIDE DEF m
<1>3. /\ Received \in Seq(Notice) /\ Waiting \in Seq(Notice)
      /\ notices \in Seq(Notice)
  BY PipeType
<1>4. Received' = Received /\ Waiting' = Waiting
  BY DEF Received, Waiting, OnWay, IsNotice
<1>5. Pipe' = Append(Pipe, m)
  <2>1. Received \o Waiting \o Append(notices, m)
          = Append(Received \o Waiting \o notices, m)
    BY <1>1, <1>3, LaneFacts
  <2> QED
    BY <1>2, <1>4, <2>1 DEF Pipe
<1>6. WayInv'
  <2>1. \A i \in DOMAIN notices' : notices'[i].from = registration
    BY <1>1, <1>2, <1>3 DEF WayInv
  <2> QED
    BY <2>1 DEF WayInv, OnWay, IsNotice
<1> QED
  BY <1>1, <1>5, <1>6

-----------------------------------------------------------------------------
(* Every step leaves the notices leading to the system's network.          *)

Exempt == {"started", "await", "seen"}

\* A stale network excuses the notices that do not fit it.
LEMMA StaleWay ==
  ASSUME NEW P, NEW r, NEW n, NEW s, NEW s2, NEW d, s => s2,
         WayOK(P, r, n, s, d)
  PROVE  WayOK(P, r, n, s2, d)
<1>1. LostOK(P, r, n, s2)
  BY DEF WayOK, LostOK
<1>2. EndOK(P, r, n, s2, d) /\ OldOK(P, r, n, s2) /\ OrderOK(P, r)
  BY DEF WayOK, EndOK, OldOK
<1> QED
  BY <1>1, <1>2 DEF WayOK

\* What leaves the notices and the network alone.
LEMMA SameFresh ==
  ASSUME WayInv, FreshInv, Pipe' = Pipe, stale => stale',
         UNCHANGED <<callbackRegistered, registration, network, default,
                     listening>>,
         ~stale' /\ job' \notin Exempt =>
           \/ job \notin Exempt /\ defaultNetwork' = defaultNetwork
           \/ defaultNetwork' \in {network, default}
  PROVE  FreshInv'
<1>1. callbackRegistered' => WayOK(Pipe, registration, network, stale, default)'
  BY StaleWay DEF FreshInv
<1>2. ASSUME callbackRegistered, ~stale', job' \notin Exempt, NoEffect'
      PROVE  defaultNetwork' = default'
  <2>1. NoEffect
    BY <1>2 DEF NoEffect
  <2>2. network = default
    BY <1>2, <2>1 DEF FreshInv, WayOK, EndOK, NoEffect
  <2>3. job \notin Exempt => defaultNetwork = default
    BY <1>2, <2>1 DEF FreshInv, ToldInv, Exempt
  <2> QED
    BY <1>2, <2>2, <2>3
<1> QED
  BY <1>1, <1>2 DEF FreshInv, ToldInv, Exempt

\* What the system posts leads to what it has by then.
LEMMA SystemFresh ==
  ASSUME MonitorTypeOK, WayInv, FreshInv, System PROVE WayInv' /\ FreshInv'
<1>1. UNCHANGED <<callbackRegistered, registration, callback, fallback, listening, channel,
                  current, network, stale, job, defaultNetwork>>
  BY DEF System, ChangeDefault, ChangeCapabilities
<1>2. CASE ~callbackRegistered
  <2>1. UNCHANGED notices
    BY <1>2 DEF System, ChangeDefault,
       ChangeCapabilities, Announce
  <2>2. WayInv'
    BY <1>1, <2>1, SameWay
  <2> QED
    BY <1>1, <1>2, <2>2 DEF FreshInv
<1>3. ASSUME callbackRegistered, NEW type \in {"Put", "Update", "Lost"},
             NEW n \in Networks,
             Announce(type, n),
             type = "Put" => default' = n,
             type = "Lost" => default = n /\ default' = Null,
             type = "Update" => default' = default
      PROVE  WayInv' /\ FreshInv'
  <2>1. PICK m \in Notice : /\ m.type = type /\ m.network = n
                                    /\ m.from = registration /\ Pipe' = Append(Pipe, m)
    BY <1>1, <1>3, PostWayOut
  <2>2. WayInv'
    BY <1>1, <1>3, PostWayOut
  <2>3. Pipe \in Seq(Notice)
    BY PipeType
  <2>4. WayOK(Append(Pipe, m), registration, network, stale, default')
    BY <1>3, <2>1, <2>3, PostWay, BoundsFact DEF FreshInv
  <2> DEFINE l == Len(Pipe) + 1
  <2>5. /\ l \in DOMAIN Pipe' /\ Pipe'[l] = m
        /\ \A i \in DOMAIN Pipe : i \in DOMAIN Pipe' /\ Pipe'[i] = Pipe[i]
    BY <2>1, <2>3, AppendFact
  <2> HIDE DEF l
  <2>6. NoEffect' => type = "Update" /\ NoEffect
    BY <1>1, <2>1, <2>5 DEF NoEffect, Effect, Ours
  <2>7. ToldInv'
    BY <1>1, <1>3, <2>6 DEF FreshInv, ToldInv
  <2> QED
    BY <1>1, <1>3, <2>1, <2>2, <2>4, <2>7 DEF FreshInv
<1>4. ASSUME callbackRegistered, NEW n \in Optional,
             ChangeDefault(n)
      PROVE  WayInv' /\ FreshInv'
  <2>1. default \in Optional /\ n # default /\ default' = n
    BY <1>4 DEF ChangeDefault, MonitorTypeOK
  <2>2. CASE n = Null
    <3>1. Announce("Lost", default) /\ default \in Networks
      BY <1>4, <2>1, <2>2 DEF ChangeDefault, Optional
    <3> QED
      BY <1>3, <1>4, <2>1, <2>2, <3>1
  <2>3. CASE n # Null
    <3>1. Announce("Put", n) /\ n \in Networks
      BY <1>4, <2>1, <2>3 DEF ChangeDefault, Optional
    <3> QED
      BY <1>3, <1>4, <2>1, <2>3, <3>1
  <2> QED
    BY <2>2, <2>3
<1>5. ASSUME callbackRegistered, ChangeCapabilities
      PROVE  WayInv' /\ FreshInv'
  <2>1. Announce("Update", default) /\ default \in Networks /\ default' = default
    BY <1>5 DEF ChangeCapabilities, MonitorTypeOK,
       Optional
  <2> QED
    BY <1>3, <1>5, <2>1
<1> QED
  BY <1>2, <1>4, <1>5 DEF System

\* A notice that is handled sets what it announces.
LEMMA NoticeFresh ==
  ASSUME MonitorTypeOK, WayInv, FreshInv,
         HandlePut \/ HandleUpdate \/ HandleLost
  PROVE  WayInv' /\ FreshInv'
<1>1. /\ current # Null /\ IsNotice(current) /\ current' = Null
      /\ UNCHANGED <<registry, callback, fallback, listening, channel,
                     default>>
  BY DEF HandlePut, HandleUpdate, HandleLost,
     Handling, Handled, IsNotice
<1>2. /\ WayInv' /\ Pipe # <<>> /\ Pipe[1] = current
      /\ Pipe' = Tail(Pipe) /\ current \in Notice
  BY <1>1, HandledWay
<1>3. Pipe \in Seq(Notice) /\ 1 \in DOMAIN Pipe
      /\ \A i \in DOMAIN Pipe : /\ i \in Nat \ {0}
                                /\ i # 1 => /\ i - 1 \in DOMAIN Pipe'
                                            /\ Pipe'[i - 1] = Pipe[i]
  BY <1>2, PipeType, TailFact
<1>4. current.network # Null /\ current.network \in Networks
  BY <1>2, BoundsFact DEF Notice
<1>5. ASSUME callbackRegistered
      PROVE  /\ Effect(Pipe, registration, 1) =>
                  /\ Pipe[1].type = "Put" => network' = Pipe[1].network
                  /\ Pipe[1].type = "Lost" => stale' \/ network' = Null
             /\ ~Effect(Pipe, registration, 1) =>
                  stale' \/ (~stale /\ network' = network)
  <2>1. CASE HandlePut
    <3>1. /\ network' = current.network /\ current.type = "Put"
          /\ stale' = (~listening \/ current.from # registration)
      BY <2>1 DEF HandlePut, Handling
    <3> QED
      BY <1>2, <3>1 DEF Effect, Ours
  <2>2. CASE HandleUpdate
    <3>1. UNCHANGED <<network, stale>> /\ current.type = "Update"
      BY <2>2 DEF HandleUpdate, Handling
    <3> QED
      BY <1>2, <3>1 DEF Effect
  <2>3. CASE HandleLost
    <3>1. /\ current.type = "Lost" /\ UNCHANGED stale
          /\ network' = IF network = current.network THEN Null ELSE network
      BY <2>3 DEF HandleLost, Handling
    <3>2. WayOK(Pipe, registration, network, stale, default)
      BY <1>5 DEF FreshInv
    <3>3. CASE Ours(Pipe, registration, 1)
      <4>1. stale \/ network = current.network
        BY <1>2, <1>3, <3>1, <3>2, <3>3 DEF WayOK, LostOK
      <4> QED
        BY <1>2, <3>1, <3>3, <4>1 DEF Effect
    <3>4. CASE ~Ours(Pipe, registration, 1)
      <4>1. stale \/ network = Null
        BY <1>3, <3>2, <3>4 DEF WayOK, OldOK
      <4> QED
        BY <1>2, <1>4, <3>1, <3>4, <4>1 DEF Effect
    <3> QED
      BY <3>3, <3>4
  <2> QED
    BY <2>1, <2>2, <2>3
<1>6. callbackRegistered => WayOK(Pipe', registration, network', stale', default)
  BY <1>2, <1>3, <1>5, HandleWay DEF FreshInv
<1>7. ASSUME callbackRegistered, ~stale', NoEffect' PROVE network' = default
  BY <1>1, <1>6, <1>7 DEF WayOK, EndOK, NoEffect
<1>8. ASSUME callbackRegistered, ~Effect(Pipe, registration, 1), NoEffect'
      PROVE  NoEffect
  <2> SUFFICES ASSUME NEW i \in DOMAIN Pipe PROVE ~Effect(Pipe, registration, i)
    BY DEF NoEffect
  <2>1. CASE i = 1
    BY <1>8, <2>1
  <2>2. CASE i # 1
    <3>1. i - 1 \in DOMAIN Pipe' /\ Pipe'[i - 1] = Pipe[i]
      BY <1>3, <2>2
    <3>2. ~Effect(Pipe', registration', i - 1)
      BY <1>8, <3>1 DEF NoEffect
    <3> QED
      BY <1>1, <3>1, <3>2 DEF Effect, Ours
  <2> QED
    BY <2>1, <2>2
<1>9. ASSUME callbackRegistered, ~stale', job' \notin Exempt, NoEffect'
      PROVE  defaultNetwork' = default'
  <2>1. network' = default' /\ listening
    BY <1>1, <1>7, <1>9 DEF WayInv
  <2>2. CASE HandlePut
    BY <2>1, <2>2 DEF HandlePut, Tell
  <2>3. CASE HandleUpdate
    <3>1. /\ UNCHANGED <<stale, network, job>> /\ ~Effect(Pipe, registration, 1)
          /\ defaultNetwork' \in {network, defaultNetwork}
      BY <1>2, <2>3 DEF HandleUpdate, Handling, Tell,
         Effect
    <3>2. defaultNetwork = default
      BY <1>8, <1>9, <3>1 DEF FreshInv, ToldInv, Exempt
    <3> QED
      BY <1>1, <2>1, <3>1, <3>2
  <2>4. CASE HandleLost
    <3>1. UNCHANGED <<stale, job>> /\ current.type = "Lost"
      BY <2>4 DEF HandleLost, Handling
    <3>2. CASE network = current.network
      BY <2>1, <2>4, <3>2 DEF HandleLost, Tell
    <3>3. CASE network # current.network
      <4>1. defaultNetwork' = defaultNetwork
        BY <2>4, <3>3 DEF HandleLost
      <4>2. ~Effect(Pipe, registration, 1)
        <5>1. WayOK(Pipe, registration, network, stale, default) /\ ~stale
          BY <1>9, <3>1 DEF FreshInv
        <5>2. ~Ours(Pipe, registration, 1)
          BY <1>2, <1>3, <3>1, <3>3, <5>1 DEF WayOK, LostOK
        <5> QED
          BY <5>2 DEF Effect
      <4>3. defaultNetwork = default
        BY <1>8, <1>9, <3>1, <4>2 DEF FreshInv, ToldInv, Exempt
      <4> QED
        BY <1>1, <4>1, <4>3
    <3> QED
      BY <3>2, <3>3
  <2> QED
    BY <2>2, <2>3, <2>4
<1>10. ~listening' /\ ~stale' => network' = Null
  <2>1. CASE HandlePut
    <3>1. stale' = (~listening \/ current.from # registration)
      BY <2>1 DEF HandlePut
    <3>2. ~listening => stale'
      BY <3>1
    <3> QED
      BY <1>1, <3>2
  <2>2. CASE HandleUpdate \/ HandleLost
    BY <1>1, <2>2 DEF HandleUpdate, HandleLost, FreshInv
  <2> QED
    BY <2>1, <2>2
<1> QED
  BY <1>1, <1>2, <1>6, <1>9, <1>10 DEF FreshInv, ToldInv, Exempt

\* A Stop forgets the network.
LEMMA StopFresh ==
  ASSUME MonitorTypeOK, WayInv, FreshInv, HandleStop
  PROVE  WayInv' /\ FreshInv'
<1>1. /\ listening' = FALSE /\ current' = Null
      /\ ~(current # Null /\ IsNotice(current))
      /\ UNCHANGED <<registration, callback, fallback, channel, stale>>
  BY DEF HandleStop, Handled, Handling, IsNotice
<1>2. CASE listening
  <2>1. network' = Null /\ callbackRegistered' = FALSE /\ notices' = <<>>
    BY <1>2 DEF HandleStop
  <2>2. WayInv'
    BY <1>1, <2>1 DEF WayInv, OnWay, IsNotice
  <2> QED
    BY <1>1, <2>1, <2>2 DEF FreshInv
<1>3. CASE ~listening
  <2>1. UNCHANGED <<network, callbackRegistered, notices>>
    BY <1>3 DEF HandleStop
  <2>2. UNCHANGED listening
    BY <1>1, <1>3 DEF MonitorTypeOK
  <2>3. WayInv' /\ ~callbackRegistered
    BY <1>1, <1>3, <2>1, <2>2, SameWay DEF WayInv
  <2> QED
    BY <1>1, <1>3, <2>1, <2>3 DEF FreshInv
<1> QED
  BY <1>2, <1>3

\* A Start registers the callback, and the system announces what it has.
LEMMA StartFresh ==
  ASSUME MonitorTypeOK, WayInv, FreshInv, HandleStart
  PROVE  WayInv' /\ FreshInv'
<1>1. /\ listening' = TRUE /\ current' = Null
      /\ ~(current # Null /\ IsNotice(current))
      /\ UNCHANGED <<callback, channel, network, default, job>>
      /\ stale => stale'
      /\ ~listening /\ ~stale' /\ job \notin Exempt => defaultNetwork = default
      /\ defaultNetwork' = IF network # Null THEN network ELSE defaultNetwork
  BY DEF HandleStart, Handled, Handling, IsNotice,
     Tell, Exempt
<1>2. CASE listening
  <2>1. UNCHANGED <<registry, fallback, listening>>
    BY <1>1, <1>2 DEF HandleStart, MonitorTypeOK
  <2>2. WayInv' /\ Pipe' = Pipe
    BY <1>1, <2>1, SameWay
  <2> QED
    BY <1>1, <2>1, <2>2, SameFresh
<1>3. CASE ~listening
  <2>1. /\ Register /\ ~callbackRegistered
        /\ notices = <<>> /\ registration \in Nat
        /\ ~stale' => network = Null
    BY <1>1, <1>3 DEF HandleStart, WayInv, FreshInv, MonitorTypeOK
  <2>2. /\ callbackRegistered' = ~fallback' /\ registration' = registration + 1
        /\ fallback' \in BOOLEAN
    BY <2>1, RegisterType DEF Register
  <2> DEFINE m == [type |-> "Put", network |-> default, from |-> registration + 1]
  <2>3. /\ fallback' \/ default = Null => notices' = <<>>
        /\ ~(fallback' \/ default = Null) => notices' = <<m>>
    BY <2>1 DEF Register
  <2>4. /\ default # Null => m \in Notice
        /\ m.type = "Put" /\ m.network = default /\ m.from = registration'
    BY <2>1, <2>2 DEF Notice, MonitorTypeOK, Optional
  <2> HIDE DEF m
  <2>5. OnWay' = OnWay /\ Received' = Received /\ Waiting' = Waiting
    BY <1>1 DEF OnWay, Received, Waiting, IsNotice
  <2>6. WayInv'
    <3>1. \A x \in 1 .. registration : x \in 1 .. registration'
      BY <2>1, <2>2
    <3>2. \A i \in DOMAIN notices' : notices'[i].from = registration'
      BY <2>3, <2>4
    <3>3. registration' # 0
      BY <2>1, <2>2
    <3> QED
      BY <1>1, <2>2, <2>3, <2>5, <3>1, <3>2, <3>3 DEF WayInv, IsNotice
  <2>7. /\ Pipe \in Seq(Notice)
        /\ Received \in Seq(Notice)
        /\ Waiting \in Seq(Notice)
        /\ <<>> \in Seq(Notice)
        /\ \A i \in DOMAIN Pipe : Pipe[i].from \in 1 .. registration
    BY PipeType, EmptySeq
  <2>8. WayOK(Pipe, registration', network, stale', Null)
    BY <2>1, <2>2, <2>7, NewWay
  <2>9. CASE fallback'
    BY <1>1, <2>2, <2>6, <2>9 DEF FreshInv
  <2>10. CASE ~fallback' /\ default = Null
    <3>1. Pipe' = Pipe
      BY <2>1, <2>3, <2>5, <2>10 DEF Pipe
    <3>2. ToldInv'
      BY <1>1, <1>3, <2>1 DEF ToldInv, Exempt
    <3> QED
      BY <1>1, <2>6, <2>8, <2>10, <3>1, <3>2 DEF FreshInv
  <2>11. CASE ~fallback' /\ default # Null
    <3>1. notices' = Append(<<>>, m) /\ m \in Notice
      BY <2>3, <2>4, <2>11
    <3>2. Pipe' = Append(Pipe, m)
      <4>1. Received \o Waiting \o Append(<<>>, m)
              = Append(Received \o Waiting \o <<>>, m)
        BY <2>7, <3>1, LaneFacts
      <4> QED
        BY <2>1, <2>5, <3>1, <4>1 DEF Pipe
    <3>3. WayOK(Pipe', registration', network, stale', default)
      BY <2>4, <2>7, <2>8, <2>11, <3>1, <3>2, PostWay
    <3> DEFINE l == Len(Pipe) + 1
    <3>4. l \in DOMAIN Pipe' /\ Pipe'[l] = m
      BY <2>7, <3>1, <3>2, AppendFact
    <3> HIDE DEF l
    <3>5. ~NoEffect'
      BY <2>4, <3>4 DEF NoEffect, Effect, Ours
    <3> QED
      BY <1>1, <2>6, <3>3, <3>5 DEF FreshInv, ToldInv
  <2> QED
    BY <2>2, <2>9, <2>10, <2>11
<1> QED
  BY <1>2, <1>3

\* The callback thread and the actor hand on what they got.
LEMMA HandOnFresh ==
  ASSUME MonitorTypeOK, WayInv, FreshInv,
         RunCallback \/ SendNotice \/ Receive
  PROVE  WayInv' /\ FreshInv'
<1>1. WayInv' /\ Pipe' = Pipe
  BY RunCallbackWay, SendNoticeWay, ReceiveWay
<1>2. UNCHANGED <<callbackRegistered, registration, network, default, listening, stale, job,
                  defaultNetwork>>
  BY DEF RunCallback, SendNotice, Receive
<1> QED
  BY <1>1, <1>2, SameFresh

\* Requests, jobs and queries have no part in it.
LEMMA RequestMessage ==
  ASSUME NEW type \in {"Start", "Get", "Stop"}, NEW r \in Requesters,
         Send(type, r)
  PROVE  \E m \in Message : ~IsNotice(m) /\ channel' = Append(channel, m)
<1> DEFINE m == [type |-> type, network |-> Null, from |-> r]
<1>1. m \in Message /\ ~IsNotice(m)
  BY DEF Message, IsNotice
<1>2. channel' = Append(channel, m)
  BY DEF Send
<1> HIDE DEF m
<1> QED
  BY <1>1, <1>2

\* So they leave the notices as they are.
LEMMA OthersFresh ==
  ASSUME MonitorTypeOK, WayInv, FreshInv,
         \/ HandleGet \/ BeginStart \/ Reload
         \/ BeginStop \/ Continue
         \/ \E q \in Queries : Require(q) \/ Get(q)
  PROVE  WayInv' /\ FreshInv'
<1>1. UNCHANGED <<registry, callback, fallback, listening, network,
                  default>>
  <2>1. CASE HandleGet
    BY <2>1 DEF HandleGet
  <2>2. CASE BeginStart \/ Reload \/ BeginStop
                \/ Continue
    BY <2>2 DEF BeginStart, Reload, BeginStop,
       Continue, SendStart, ReadActive,
       SetDefault, Boot, CloseCore,
       UnsetTransport, SendStop, FinishStop
  <2>3. CASE \E q \in Queries : Require(q) \/ Get(q)
    BY <2>3 DEF Require, Get
  <2> QED
    BY <2>1, <2>2, <2>3
<1>2. \/ channel' = channel
      \/ \E m \in Message : ~IsNotice(m) /\ channel' = Append(channel, m)
  <2>1. CASE SendStart \/ SendStop \/ ReadActive
    <3>1. \/ channel' = channel
          \/ \E type \in {"Start", "Get", "Stop"} : Send(type, Job)
      BY <2>1 DEF SendStart, SendStop, ReadActive
    <3> QED
      BY <3>1, RequestMessage DEF Requesters
  <2>2. ASSUME NEW q \in Queries, Require(q) \/ Get(q)
        PROVE  \/ channel' = channel
               \/ \E m \in Message : ~IsNotice(m) /\ channel' = Append(channel, m)
    <3>1. channel' = channel \/ Send("Get", q)
      BY <2>2 DEF Require, Get
    <3> QED
      BY <3>1, RequestMessage DEF Requesters
  <2>3. CASE HandleGet \/ BeginStart \/ Reload
               \/ BeginStop \/ SetDefault \/ Boot
               \/ CloseCore \/ UnsetTransport \/ FinishStop
    BY <2>3 DEF HandleGet, BeginStart, Reload,
       BeginStop, SetDefault, Boot,
       CloseCore, UnsetTransport, FinishStop
  <2> QED
    BY <2>1, <2>2, <2>3 DEF Continue
<1>3. \/ current' = current
      \/ current' = Null /\ ~(current # Null /\ IsNotice(current))
  <2>1. CASE HandleGet
    BY <2>1 DEF HandleGet, Handled, Handling, IsNotice
  <2>2. CASE BeginStart \/ Reload \/ BeginStop
                \/ Continue
    BY <2>2 DEF BeginStart, Reload, BeginStop,
       Continue, SendStart, ReadActive,
       SetDefault, Boot, CloseCore,
       UnsetTransport, SendStop, FinishStop
  <2>3. CASE \E q \in Queries : Require(q) \/ Get(q)
    BY <2>3 DEF Require, Get
  <2> QED
    BY <2>1, <2>2, <2>3
<1>4. /\ stale => stale'
      /\ ~stale' /\ job' \notin Exempt =>
           \/ job \notin Exempt /\ defaultNetwork' = defaultNetwork
           \/ defaultNetwork' = default
  <2>1. CASE HandleGet
    <3>1. /\ UNCHANGED <<stale, defaultNetwork>>
          /\ job' = job \/ job' = "seen"
      BY <2>1 DEF HandleGet, Complete
    <3> QED
      BY <3>1 DEF Exempt
  <2>2. CASE SetDefault
    BY <2>2 DEF SetDefault
  <2>3. CASE BeginStart \/ Reload \/ BeginStop
               \/ SendStart \/ ReadActive \/ Boot
               \/ CloseCore \/ UnsetTransport
               \/ SendStop \/ FinishStop
    <3>1. UNCHANGED <<stale, defaultNetwork>>
      BY <2>3 DEF BeginStart, Reload, BeginStop,
         SendStart, ReadActive, Boot,
         CloseCore, UnsetTransport, SendStop,
         FinishStop
    <3>2. job' \in Exempt \/ job \notin Exempt
      BY <2>3 DEF BeginStart, Reload, BeginStop,
         SendStart, ReadActive, Boot,
         CloseCore, UnsetTransport, SendStop,
         FinishStop, Exempt
    <3> QED
      BY <3>1, <3>2
  <2>4. CASE \E q \in Queries : Require(q) \/ Get(q)
    BY <2>4 DEF Require, Get
  <2> QED
    BY <2>1, <2>2, <2>3, <2>4 DEF Continue
<1>5. WayInv' /\ Pipe' = Pipe
  BY <1>1, <1>2, <1>3, SameWay
<1> QED
  BY <1>1, <1>4, <1>5, SameFresh

\* The invariant holds at the beginning.
LEMMA FreshInit == MonitorInit => WayInv /\ FreshInv
<1> SUFFICES ASSUME MonitorInit PROVE WayInv /\ FreshInv
  OBVIOUS
<1> QED
  BY DEF MonitorInit, WayInv, FreshInv, OnWay, IsNotice

\* Every step keeps it.
LEMMA FreshNext ==
  MonitorTypeOK /\ WayInv /\ FreshInv /\ [MonitorNext]_monitorVars => (WayInv /\ FreshInv)'
<1> SUFFICES ASSUME MonitorTypeOK, WayInv, FreshInv, [MonitorNext]_monitorVars
             PROVE  WayInv' /\ FreshInv'
  OBVIOUS
<1>1. CASE UNCHANGED monitorVars
  BY <1>1, SameWay, SameFresh
<1>2. CASE Actor
  BY <1>2, HandOnFresh, StartFresh, StopFresh, NoticeFresh, OthersFresh
     DEF Actor
<1> QED
  BY <1>1, <1>2, SystemFresh, HandOnFresh, OthersFresh DEF MonitorNext

\* Once all has been handled the network is the system's.
LEMMA FreshSettled == WayInv /\ FreshInv => Fresh
<1> SUFFICES ASSUME WayInv, FreshInv, Settled, listening, ~fallback,
                    ~stale
             PROVE  defaultNetwork = default /\ network = default
  BY DEF Fresh
<1>1. callbackRegistered /\ OnWay = {} /\ current = Null /\ notices = <<>>
  BY DEF Settled, WayInv, OnWay
<1>2. Received = <<>> /\ Waiting = <<>>
  BY <1>1 DEF Received, Waiting
<1>3. Pipe = <<>>
  BY <1>1, <1>2 DEF Pipe
<1>4. NoEffect
  BY <1>3 DEF NoEffect
<1> QED
  BY <1>1, <1>4 DEF FreshInv, ToldInv, WayOK, EndOK, NoEffect, Settled

-----------------------------------------------------------------------------
(* Whoever waits for a network is going to be answered: its request is in  *)
(* the channel, in the hands of the actor, or set aside for the next Put.  *)

\* Where the request of r may be.
InHand(r) == Handling("Get") /\ current.from = r
Due(r) == Asked(r) \/ InHand(r) \/ r \in pendingRequests
HeldInv == \A r : Asks(r) => Due(r)

\* Who waits has one request, and who has one waits.
Kept == \A r \in Requesters :
   /\ Asks(r) <=> Due(r)
   /\ ~(Asked(r) /\ InHand(r)) /\ ~(Asked(r) /\ r \in pendingRequests)
   /\ ~(InHand(r) /\ r \in pendingRequests)

\* What leaves requests where they are, or sends one for who begins to wait.
LEMMA SameHeld ==
  ASSUME HeldInv, UNCHANGED pendingRequests,
         UNCHANGED current \/ ~Handling("Get"),
         \A r : Asked(r) => Asked(r)',
         \A r : Asks(r)' => Asks(r) \/ Asked(r)'
  PROVE  HeldInv'
<1>1. \A r : InHand(r) => InHand(r)'
  BY DEF InHand, Handling
<1> QED
  BY <1>1 DEF HeldInv, Due

\* A channel that grows keeps its requests and has the new one.
LEMMA GrowAsked ==
  ASSUME MonitorTypeOK,
         NEW m \in Message, channel' = Append(channel, m)
  PROVE  /\ \A r : Asked(r) => Asked(r)'
         /\ m.type = "Get" => Asked(m.from)'
<1>1. channel \in Seq(Message)
  BY DEF MonitorTypeOK
<1>2. /\ \A i \in DOMAIN channel : i \in DOMAIN channel' /\ channel'[i] = channel[i]
      /\ Len(channel) + 1 \in DOMAIN channel' /\ channel'[Len(channel) + 1] = m
  BY <1>1, AppendFact
<1> QED
  BY <1>2 DEF Asked, GetFrom

\* A request that is sent.
LEMMA SendAsked ==
  ASSUME MonitorTypeOK, NEW type \in {"Start", "Get", "Stop"},
         NEW s \in Requesters,
         Send(type, s)
  PROVE  /\ \A r : Asked(r) => Asked(r)'
         /\ type = "Get" => Asked(s)'
<1> DEFINE m == [type |-> type, network |-> Null, from |-> s]
<1>1. m \in Message /\ m.type = type /\ m.from = s
  BY DEF Message
<1>2. channel' = Append(channel, m)
  BY DEF Send
<1> HIDE DEF m
<1>3. /\ \A r : Asked(r) => Asked(r)'
      /\ m.type = "Get" => Asked(m.from)'
  BY <1>1, <1>2, GrowAsked
<1> QED
  BY <1>1, <1>3

\* The system, the callback, and what the actor handles without an answer.
LEMMA QuietHeld ==
  ASSUME MonitorTypeOK, HeldInv,
         \/ System \/ RunCallback \/ SendNotice
         \/ HandleStart \/ HandleStop
         \/ HandleUpdate \/ HandleLost
  PROVE  HeldInv'
<1>1. /\ UNCHANGED <<pendingRequests, job, query>>
      /\ UNCHANGED current \/ ~Handling("Get")
      /\ \/ UNCHANGED channel
         \/ callback \in Notice /\ channel' = Append(channel, callback)
  BY DEF System, ChangeDefault, ChangeCapabilities,
     RunCallback, SendNotice,
     HandleStart, HandleStop, HandleUpdate,
     HandleLost, Handling, MonitorTypeOK
<1>2. callback \in Notice => callback \in Message
  BY DEF Message
<1>3. \A r : Asked(r) => Asked(r)'
  <2>1. CASE UNCHANGED channel
    BY <2>1 DEF Asked, GetFrom
  <2>2. CASE callback \in Notice /\ channel' = Append(channel, callback)
    BY <1>2, <2>2, GrowAsked
  <2> QED
    BY <1>1, <2>1, <2>2
<1>4. \A r : Asks(r)' => Asks(r)
  BY <1>1 DEF Asks
<1> QED
  BY <1>1, <1>3, <1>4, SameHeld

\* A request that is received goes from the channel into the hands of the actor.
LEMMA ReceiveHeld ==
  ASSUME MonitorTypeOK, HeldInv, Receive PROVE HeldInv'
<1>1. /\ UNCHANGED <<pendingRequests, job, query>>
      /\ current = Null /\ current' = Head(channel) /\ channel' = Tail(channel)
      /\ channel \in Seq(Message) /\ channel # <<>>
  BY DEF Receive, MonitorTypeOK
<1>2. /\ Head(channel) = channel[1] /\ Head(channel) \in Message
      /\ \A i \in DOMAIN channel :
           i # 1 => i - 1 \in DOMAIN channel' /\ channel'[i - 1] = channel[i]
  BY <1>1, TailFact
<1>3. ASSUME NEW r, Asked(r) PROVE Asked(r)' \/ InHand(r)'
  <2>1. PICK i \in DOMAIN channel : GetFrom(channel[i], r)
    BY <1>3 DEF Asked
  <2>2. CASE i = 1
    BY <1>1, <1>2, <2>1, <2>2, BoundsFact DEF GetFrom, InHand, Handling
  <2>3. CASE i # 1
    BY <1>2, <2>1, <2>3 DEF Asked, GetFrom
  <2> QED
    BY <2>2, <2>3
<1>4. \A r : ~InHand(r)
  BY <1>1 DEF InHand, Handling
<1>5. \A r : Asks(r)' => Asks(r)
  BY <1>1 DEF Asks
<1> QED
  BY <1>1, <1>3, <1>4, <1>5 DEF HeldInv, Due

\* Who is answered waits no more, and nobody begins to.
LEMMA CompleteAsks ==
  ASSUME MonitorTypeOK, NEW rs, NEW n, Complete(rs, n)
  PROVE  \A r : Asks(r)' => Asks(r) /\ r \notin rs
BY BoundsFact DEF Complete, Asks, MonitorTypeOK

\* A Get is answered or set aside, or stays in the hands of an actor it ends.
LEMMA AnswerHeld ==
  ASSUME MonitorTypeOK, HeldInv, HandleGet \/ HandlePut PROVE HeldInv'
<1>1. UNCHANGED channel
  BY DEF HandleGet, HandlePut
<1>2. \A r : Asked(r) => Asked(r)'
  BY <1>1 DEF Asked, GetFrom
<1>3. CASE HandleGet /\ ~listening
  <2>1. UNCHANGED <<current, pendingRequests, job, query>>
    BY <1>3 DEF HandleGet
  <2>2. \A r : Asks(r)' => Asks(r)
    BY <2>1 DEF Asks
  <2> QED
    BY <1>2, <2>1, <2>2, SameHeld
<1>4. CASE HandleGet /\ listening /\ network = Null
  <2>1. /\ pendingRequests' = pendingRequests \cup {current.from}
        /\ UNCHANGED <<job, query>>
    BY <1>4 DEF HandleGet
  <2>2. \A r : Asks(r)' => Asks(r)
    BY <2>1 DEF Asks
  <2> QED
    BY <1>2, <2>1, <2>2 DEF HeldInv, Due, InHand
<1>5. CASE HandleGet /\ listening /\ network # Null
  <2>1. UNCHANGED pendingRequests /\ Complete({current.from}, network)
    BY <1>5 DEF HandleGet
  <2>2. \A r : Asks(r)' => Asks(r) /\ r # current.from
    BY <2>1, CompleteAsks
  <2> QED
    BY <1>2, <2>1, <2>2 DEF HeldInv, Due, InHand
<1>6. CASE HandlePut
  <2>1. Complete(pendingRequests, current.network) /\ ~Handling("Get")
    BY <1>6 DEF HandlePut, Handling
  <2>2. \A r : Asks(r)' => Asks(r) /\ r \notin pendingRequests
    BY <2>1, CompleteAsks
  <2> QED
    BY <1>2, <2>1, <2>2 DEF HeldInv, Due, InHand
<1> QED
  BY <1>3, <1>4, <1>5, <1>6

\* A job or a query that begins to wait has sent its request.
LEMMA AskHeld ==
  ASSUME MonitorTypeOK, HeldInv,
         \/ BeginStart \/ Reload
         \/ BeginStop \/ Continue
         \/ \E q \in Queries : Require(q) \/ Get(q)
  PROVE  HeldInv'
<1>1. UNCHANGED <<pendingRequests, current>>
  <2>1. CASE \/ BeginStart \/ Reload
             \/ BeginStop \/ Continue
    BY <2>1 DEF BeginStart, Reload, BeginStop,
       Continue, SendStart, ReadActive,
       SetDefault, Boot, CloseCore,
       UnsetTransport, SendStop, FinishStop
  <2>2. CASE \E q \in Queries : Require(q) \/ Get(q)
    BY <2>2 DEF Require, Get
  <2> QED
    BY <2>1, <2>2
<1>2. CASE UNCHANGED channel /\ (job' = job \/ job' # "await")
           /\ \A q \in Queries : query'[q] = "wait" => query[q] = "wait"
  <2>1. \A r : Asked(r) => Asked(r)'
    BY <1>2 DEF Asked, GetFrom
  <2>2. \A r : Asks(r)' => Asks(r)
    BY <1>2 DEF Asks
  <2> QED
    BY <1>1, <2>1, <2>2, SameHeld
<1>3. ASSUME NEW type \in {"Start", "Get", "Stop"}, Send(type, Job),
             job' = "await" => type = "Get", UNCHANGED query
      PROVE  HeldInv'
  <2>1. (\A r : Asked(r) => Asked(r)') /\ (type = "Get" => Asked(Job)')
    BY <1>3, SendAsked DEF Requesters
  <2>2. \A r : Asks(r)' => Asks(r) \/ Asked(r)'
    BY <1>3, <2>1 DEF Asks
  <2> QED
    BY <1>1, <2>1, <2>2, SameHeld
<1>4. ASSUME NEW q \in Queries, Send("Get", q), UNCHANGED job,
             query' = [query EXCEPT ![q] = "wait"]
      PROVE  HeldInv'
  <2>1. (\A r : Asked(r) => Asked(r)') /\ Asked(q)'
    BY <1>4, SendAsked DEF Requesters
  <2>2. \A p \in Queries : p # q => query'[p] = query[p]
    BY <1>4 DEF MonitorTypeOK
  <2>3. \A r : Asks(r)' => Asks(r) \/ Asked(r)'
    BY <1>4, <2>1, <2>2 DEF Asks
  <2> QED
    BY <1>1, <2>1, <2>3, SameHeld
<1>5. CASE \/ BeginStart \/ Reload \/ BeginStop
           \/ SetDefault \/ Boot
           \/ CloseCore \/ UnsetTransport \/ FinishStop
  BY <1>2, <1>5 DEF BeginStart, Reload, BeginStop,
     SetDefault, Boot,
     CloseCore, UnsetTransport, FinishStop, Close
<1>6. CASE SendStart \/ SendStop \/ ReadActive
  BY <1>2, <1>3, <1>6 DEF SendStart, SendStop,
     ReadActive
<1>7. CASE \E q \in Queries : Require(q) \/ Get(q)
  <2>1. PICK q \in Queries : Require(q) \/ Get(q)
    BY <1>7
  <2>2. CASE Get(q) /\ ~fallback
    BY <1>4, <2>2 DEF Get
  <2>3. CASE Require(q) \/ (Get(q) /\ fallback)
    <3>1. UNCHANGED channel /\ job' = job
      BY <2>3 DEF Require, Get
    <3>2. \A p \in Queries : query'[p] = "wait" => query[p] = "wait"
      BY <2>3 DEF Require, Get, MonitorTypeOK
    <3> QED
      BY <1>2, <3>1, <3>2
  <2> QED
    BY <2>1, <2>2, <2>3
<1> QED
  BY <1>5, <1>6, <1>7 DEF Continue

\* Every step keeps it.
LEMMA HeldNext == MonitorTypeOK /\ HeldInv /\ [MonitorNext]_monitorVars => HeldInv'
<1> SUFFICES ASSUME MonitorTypeOK, HeldInv, [MonitorNext]_monitorVars PROVE HeldInv'
  OBVIOUS
<1>1. CASE UNCHANGED monitorVars
  BY <1>1 DEF HeldInv, Asks, Due, Asked, GetFrom, InHand, Handling
<1> QED
  BY <1>1, QuietHeld, ReceiveHeld, AnswerHeld, AskHeld DEF MonitorNext,
     Actor

\* With what LiveInv says of requests, it is all that is promised.
LEMMA HeldKept == MonitorTypeOK /\ LiveInv /\ HeldInv => Kept
<1> SUFFICES ASSUME MonitorTypeOK, LiveInv, HeldInv, NEW r \in Requesters
             PROVE  /\ Asks(r) <=> Due(r)
                    /\ ~(Asked(r) /\ InHand(r))
                    /\ ~(Asked(r) /\ r \in pendingRequests)
                    /\ ~(InHand(r) /\ r \in pendingRequests)
  BY DEF Kept
<1>1. Asked(r) => Asks(r)
  BY DEF LiveInv, ChannelInv, InPlace, IsNotice, Asked, GetFrom, Asks
<1> QED
  BY <1>1 DEF HeldInv, Due, InHand, LiveInv, RequestInv

-----------------------------------------------------------------------------
(* The theorems about the monitor.                                         *)

\* The invariants hold together.
LEMMA MonitorInvariant ==
  MonitorSpec => [](MonitorTypeOK /\ LiveInv /\ HeldInv /\ WayInv /\ FreshInv)
<1>1. MonitorInit => MonitorTypeOK /\ LiveInv /\ HeldInv /\ WayInv /\ FreshInv
  <2>1. MonitorInit => HeldInv
    BY DEF MonitorInit, HeldInv, Asks
  <2> QED
    BY <2>1, TypeInit, LiveInit, FreshInit
<1>2. MonitorTypeOK /\ LiveInv /\ HeldInv /\ WayInv /\ FreshInv
      /\ [MonitorNext]_monitorVars
        => (MonitorTypeOK /\ LiveInv /\ HeldInv /\ WayInv /\ FreshInv)'
  BY TypeNext, LiveNext, HeldNext, FreshNext
<1> QED
  BY <1>1, <1>2, PTL DEF MonitorSpec

\* Every variable of the monitor and of those who use it keeps its type.
THEOREM MonitorTypeCorrect == MonitorSpec => []MonitorTypeOK
<1> QED
  BY MonitorInvariant, PTL

\* The actor dies of a query that has outlived its core, and of nothing else.
THEOREM ActorSurvives == MonitorSpec => []ActorLives
<1>1. LiveInv => ActorLives
  BY DEF LiveInv
<1> QED
  BY <1>1, MonitorInvariant, PTL

\* When all has been handled, queries are sent over the system's network,
\* unless a race that the specification names has left an old one behind.
THEOREM NetworkFresh == MonitorSpec => []Fresh
<1> QED
  BY FreshSettled, MonitorInvariant, PTL

\* No request is lost or answered twice: whoever waits for a network has its
\* request in one place, the channel, the hands of the actor, or aside for the
\* next Put, and whoever has one there waits.
THEOREM RequestsKept == MonitorSpec => []Kept
<1> QED
  BY HeldKept, MonitorInvariant, PTL
=============================================================================
