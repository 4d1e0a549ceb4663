-------------------------- MODULE ConnectionProofs --------------------------
(***************************************************************************)
(* Proofs about Connection and the adapter it calls, for every set of      *)
(* operations, processes and profiles.                                     *)
(*                                                                         *)
(* First ClashAdapter by itself: SwitchingIsBusy is inductive; that no     *)
(* core is left behind needs to know what is live at every await of the    *)
(* one call that is under way when callers take turns (Turns).             *)
(*                                                                         *)
(* Then the connection: that a switching status is shown only while the    *)
(* service works, and, for a steady app, that it calls the adapter in the  *)
(* way the adapter's own theorems ask for (a refinement, with the          *)
(* variables of the adapter as they are), from which it follows that       *)
(* nothing runs while the state shown invites to connect.  What an         *)
(* operation works for (RunInv) and what a closing window leaves to be     *)
(* done (QuitInv) give the theorems about the profile that runs and about  *)
(* quitting.  The last section, for all overlaps again, is why the button  *)
(* is enabled in the end.                                                  *)
(***************************************************************************)
EXTENDS Connection, Naturals, TLAPS

\* When callers take turns there is one call; past the first half of a stop
\* and up to the birth of a process nothing is live, then only that process
\* is, and the first half waits for the process of ClashCore.
Turns == Serial =>
   /\ \A c, d \in Calls : ~Idle(c) /\ ~Idle(d) => c = d
   /\ \A c \in Calls : pc[c] \in {"exists", "convert", "which", "spawn", "cancelAgain",
                                  "exitAgain", "pause"} => Live = {}
   /\ \A c \in Calls : pc[c] \in {"exists", "convert", "which", "spawn"} => status = "starting"
   /\ \A c \in Calls : pc[c] = "adopt" => Live \subseteq {waited[c]}
   /\ \A c \in Calls : pc[c] = "exit" => waited[c] = process

-----------------------------------------------------------------------------
(* Type correctness.                                                       *)

LEMMA InitType == AdapterInit => AdapterTypeOK
BY NoneAssumption DEF AdapterInit, AdapterTypeOK, Statuses, Awaits, Actions

LEMMA StepType == ASSUME AdapterTypeOK, NEW c \in Calls, Step(c) PROVE AdapterTypeOK'
<1> USE DEF AdapterTypeOK, Statuses, Awaits, Actions, Goto, Add, Returns, Fails, call, os
<1>1. CASE CheckFile(c) BY <1>1 DEF CheckFile
<1>2. CASE SetupConfig(c) BY <1>2 DEF SetupConfig
<1>3. CASE FindBinary(c) BY <1>3 DEF FindBinary
<1>4. CASE Spawn(c) BY <1>4 DEF Spawn
<1>5. CASE Adopt(c) BY <1>5 DEF Adopt
<1>6. CASE Kill(c) BY <1>6 DEF Kill
<1>7. CASE StopAgain(c) BY <1>7 DEF StopAgain
<1>8. CASE Stopped(c) BY <1>8 DEF Stopped
<1>9. CASE Pause(c) BY <1>9 DEF Pause
<1>10. CASE StartAgain(c) BY <1>10 DEF StartAgain
<1> QED BY <1>1, <1>2, <1>3, <1>4, <1>5, <1>6, <1>7, <1>8, <1>9, <1>10 DEF Step

LEMMA StartType == ASSUME AdapterTypeOK, NEW c \in Calls, NEW f \in Configs, Start(c, f)
                   PROVE  AdapterTypeOK'
BY DEF AdapterTypeOK, Statuses, Awaits, Actions, Goto, Add, Start, os

LEMMA StopType == ASSUME AdapterTypeOK, NEW c \in Calls, Stop(c) PROVE AdapterTypeOK'
BY DEF AdapterTypeOK, Statuses, Awaits, Actions, Goto, Add, Stop, os

LEMMA RestartType == ASSUME AdapterTypeOK, NEW c \in Calls, NEW f \in Configs, Restart(c, f)
                     PROVE  AdapterTypeOK'
BY DEF AdapterTypeOK, Statuses, Awaits, Actions, Goto, Add, Restart, os

LEMMA ExitType == ASSUME AdapterTypeOK, NEW p \in Cores, Exit(p) PROVE AdapterTypeOK'
BY DEF AdapterTypeOK, Exit, call

LEMMA NextType == AdapterTypeOK /\ [AdapterNext]_adapterVars => AdapterTypeOK'
<1> SUFFICES ASSUME AdapterTypeOK, [AdapterNext]_adapterVars PROVE AdapterTypeOK'
  OBVIOUS
<1>1. CASE UNCHANGED adapterVars BY <1>1 DEF AdapterTypeOK, adapterVars, call, os
<1> QED BY <1>1, StartType, StopType, RestartType, StepType, ExitType DEF AdapterNext

\* Every variable of the adapter keeps its type.
THEOREM AdapterTypeCorrect == AdapterSpec => []AdapterTypeOK
BY InitType, NextType, PTL DEF AdapterSpec

-----------------------------------------------------------------------------
(* A status that is switching is that of a call under way.                 *)

LEMMA BusyStep == ASSUME AdapterTypeOK, SwitchingIsBusy, NEW c \in Calls, Step(c)
                  PROVE  SwitchingIsBusy'
<1> USE DEF AdapterTypeOK, SwitchingIsBusy, Switching, AllIdle, Idle, Goto, Add, Returns, Fails
<1>1. CASE CheckFile(c) BY <1>1 DEF CheckFile
<1>2. CASE SetupConfig(c) BY <1>2 DEF SetupConfig
<1>3. CASE FindBinary(c) BY <1>3 DEF FindBinary
<1>4. CASE Spawn(c) BY <1>4 DEF Spawn
<1>5. CASE Adopt(c) BY <1>5 DEF Adopt
<1>6. CASE Kill(c) BY <1>6 DEF Kill
<1>7. CASE StopAgain(c) BY <1>7 DEF StopAgain
<1>8. CASE Stopped(c) BY <1>8 DEF Stopped
<1>9. CASE Pause(c) BY <1>9 DEF Pause
<1>10. CASE StartAgain(c) BY <1>10 DEF StartAgain
<1> QED BY <1>1, <1>2, <1>3, <1>4, <1>5, <1>6, <1>7, <1>8, <1>9, <1>10 DEF Step

LEMMA BusyNext == AdapterTypeOK /\ SwitchingIsBusy /\ [AdapterNext]_adapterVars
                     => SwitchingIsBusy'
<1> SUFFICES ASSUME AdapterTypeOK, SwitchingIsBusy, [AdapterNext]_adapterVars
             PROVE  SwitchingIsBusy'
  OBVIOUS
<1> USE DEF AdapterTypeOK, SwitchingIsBusy, Switching, AllIdle, Idle, Goto, Add
<1>1. CASE UNCHANGED adapterVars BY <1>1 DEF adapterVars, call
<1>2. ASSUME NEW c \in Calls, NEW f \in Configs, Start(c, f) PROVE SwitchingIsBusy'
  BY <1>2 DEF Start
<1>3. ASSUME NEW c \in Calls, Stop(c) PROVE SwitchingIsBusy'
  BY <1>3 DEF Stop
<1>4. ASSUME NEW c \in Calls, NEW f \in Configs, Restart(c, f) PROVE SwitchingIsBusy'
  BY <1>4 DEF Restart
<1>5. ASSUME NEW p \in Cores, Exit(p) PROVE SwitchingIsBusy'
  BY <1>5 DEF Exit, call
<1> QED BY <1>1, <1>2, <1>3, <1>4, <1>5, BusyStep DEF AdapterNext

\* Every call ends with a final event, so a service that says it is switching
\* is at work, however the calls overlap.
THEOREM SwitchingEnds == AdapterSpec => []SwitchingIsBusy
<1>1. AdapterInit => SwitchingIsBusy BY DEF AdapterInit, SwitchingIsBusy, Switching
<1> QED BY <1>1, BusyNext, AdapterTypeCorrect, PTL DEF AdapterSpec

-----------------------------------------------------------------------------
(* No core is left behind when callers take turns.                         *)

SerialInv == Turns /\ NoOrphan /\ StoppedMeansDown

LEMMA SerialCall == ASSUME AdapterTypeOK, SwitchingIsBusy, SerialInv, NEW c \in Calls,
                           \/ \E f \in Configs : (MayStart /\ Start(c, f))
                                                 \/ (MayCall /\ Restart(c, f))
                           \/ MayCall /\ Stop(c)
                    PROVE  SerialInv'
<1> USE DEF AdapterTypeOK, Statuses, SwitchingIsBusy, Switching, SerialInv, AllIdle, Idle,
            Goto, Add, Live, os
<1>1. ASSUME NEW f \in Configs, MayStart, Start(c, f) PROVE SerialInv'
  <2>1. Serial => Live = {} /\ AllIdle
    BY <1>1 DEF MayStart, StoppedMeansDown
  <2>2. Turns' BY <1>1, <2>1 DEF Turns, Start
  <2>3. NoOrphan' BY <1>1, <2>1 DEF NoOrphan, Start
  <2>4. StoppedMeansDown' BY <1>1, <2>1 DEF StoppedMeansDown, Start
  <2> QED BY <2>2, <2>3, <2>4
<1>2. ASSUME NEW f \in Configs, MayCall, Restart(c, f) PROVE SerialInv'
  BY <1>2 DEF MayCall, Restart, Turns, NoOrphan, StoppedMeansDown
<1>3. CASE MayCall /\ Stop(c)
  BY <1>3 DEF MayCall, Stop, Turns, NoOrphan, StoppedMeansDown
<1> QED BY <1>1, <1>2, <1>3

LEMMA SerialStep == ASSUME AdapterTypeOK, SerialInv, NEW c \in Calls, Step(c)
                    PROVE  SerialInv'
<1> SUFFICES ASSUME Serial PROVE SerialInv'
  BY DEF SerialInv, Turns, NoOrphan, StoppedMeansDown
<1> USE NoneAssumption
    DEF AdapterTypeOK, SerialInv, Turns, NoOrphan, StoppedMeansDown, Idle, Live, Goto, Add,
        Returns, Fails, os
<1>1. CASE CheckFile(c) BY <1>1 DEF CheckFile
<1>2. CASE SetupConfig(c) BY <1>2 DEF SetupConfig
<1>3. CASE FindBinary(c) BY <1>3 DEF FindBinary
<1>4. CASE Spawn(c)
  <2>1. \A d \in Calls : pc[d] # "idle" => d = c BY <1>4 DEF Spawn
  <2>2. Live = {} BY <1>4 DEF Spawn
  <2>3. CASE Fails(c) BY <1>4, <2>1, <2>2, <2>3
  <2>4. ASSUME NEW p \in Cores, state' = [state EXCEPT ![p] = "running"],
               waited' = [waited EXCEPT ![c] = p], Goto(c, "adopt"), UNCHANGED status
        PROVE  SerialInv'
    <3>1. Live' = {p} BY <2>2, <2>4
    <3> HIDE DEF Live
    <3>2. waited'[c] = p /\ pc'[c] = "adopt" BY <2>4
    <3>3. status' = "starting" BY <1>4, <2>4 DEF Spawn
    <3>4. Turns' BY <2>1, <2>4, <3>1, <3>2, <3>3
    <3>5. NoOrphan' BY <3>1, <3>2
    <3>6. StoppedMeansDown' BY <3>3
    <3> QED BY <3>4, <3>5, <3>6
  <2> QED BY <1>4, <2>3, <2>4 DEF Spawn
<1>5. CASE Adopt(c)
  <2>1. \A d \in Calls : pc[d] # "idle" => d = c BY <1>5 DEF Adopt
  <2>2. \A d \in Calls : pc'[d] = "idle" BY <1>5, <2>1 DEF Adopt
  <2>3. Live' = Live /\ Live \subseteq {process'} BY <1>5 DEF Adopt
  <2> QED BY <1>5, <2>2, <2>3 DEF Adopt
<1>6. CASE Kill(c)
  <2>1. \A d \in Calls : pc[d] # "idle" => d = c BY <1>6 DEF Kill
  <2>2. \A p \in Cores : state'[p] # "none" <=> state[p] # "none" BY <1>6 DEF Kill
  <2>3. Turns' BY <1>6, <2>1, <2>2 DEF Kill
  <2>4. NoOrphan' BY <1>6, <2>1, <2>2 DEF Kill
  <2>5. StoppedMeansDown' BY <1>6, <2>2 DEF Kill
  <2> QED BY <2>3, <2>4, <2>5
<1>7. CASE StopAgain(c) BY <1>7 DEF StopAgain, Exited
<1>8. CASE Stopped(c) BY <1>8 DEF Stopped
<1>9. CASE Pause(c) BY <1>9 DEF Pause, Exited
<1>10. CASE StartAgain(c) BY <1>10 DEF StartAgain
<1> QED BY <1>1, <1>2, <1>3, <1>4, <1>5, <1>6, <1>7, <1>8, <1>9, <1>10 DEF Step

LEMMA SerialNext == AdapterTypeOK /\ SwitchingIsBusy /\ SerialInv
                       /\ [AdapterNext]_adapterVars => SerialInv'
<1> SUFFICES ASSUME AdapterTypeOK, SwitchingIsBusy, SerialInv, [AdapterNext]_adapterVars
             PROVE  SerialInv'
  OBVIOUS
<1>1. CASE UNCHANGED adapterVars
  BY <1>1 DEF SerialInv, Turns, NoOrphan, StoppedMeansDown, Idle, Live, adapterVars, call, os
<1>2. ASSUME NEW p \in Cores, Exit(p) PROVE SerialInv'
  BY <1>2 DEF AdapterTypeOK, SerialInv, Turns, NoOrphan, StoppedMeansDown, Idle, Live, Exit, call
<1> QED BY <1>1, <1>2, SerialCall, SerialStep DEF AdapterNext

LEMMA SerialInvariant == AdapterSpec => []SerialInv
<1>1. AdapterInit => SerialInv
  BY DEF AdapterInit, SerialInv, Turns, NoOrphan, StoppedMeansDown, Idle, Live
<1> QED BY <1>1, SerialNext, AdapterTypeCorrect, SwitchingEnds, PTL DEF AdapterSpec

\* Callers that take turns never leave a core behind that stop cannot reach.
THEOREM NoneOrphaned == AdapterSpec => []NoOrphan
BY SerialInvariant, PTL DEF SerialInv

\* Callers that take turns find nothing running once the service has reported
\* that it is stopped or could not start.
THEOREM DownWhenStopped == AdapterSpec => []StoppedMeansDown
BY SerialInvariant, PTL DEF SerialInv

-----------------------------------------------------------------------------
(* The inductive invariant.                                                *)

\* An operation that is about to call the service has the profile to call it
\* with.
ChosenOK == \A c \in Calls : ui[c] = "options" /\ job[c] # "disconnect"
                                => chosen[c] \in Configs

\* An operation is at the service while its call is under way.
Linked == \A c \in Calls : ui[c] = "service" <=> ~Idle(c)

\* In a steady app there is one operation, the state shown is the status or an
\* error that followed a failed start, and a connect under way began when
\* nothing was started.
SteadyInv == Steady =>
   /\ \A c, d \in Calls : ~Free(c) /\ ~Free(d) => c = d
   /\ \/ shown \in {status, "loading"}
      \/ shown = "error" /\ status = "failed"
   /\ \A c \in Calls : ui[c] = "blame" => status = "failed"
   /\ \A c \in Calls : ui[c] \in {"tap", "profile", "options"} /\ job[c] \in {"connect", "retry"}
                          => status \in {"stopped", "failed"}

IInv == TypeOK /\ ChosenOK /\ BusyOnlyInService /\ Linked /\ SteadyInv

LEMMA InitIInv == Init => IInv
<1> SUFFICES ASSUME Init PROVE IInv OBVIOUS
<1>1. shown \in {"stopped", "loading"} BY DEF Init
<1>2. TypeOK BY <1>1, InitType, NoneAssumption DEF Init, TypeOK, Statuses, Jobs, Places
<1>3. ChosenOK /\ Linked BY DEF Init, AdapterInit, ChosenOK, Linked, Idle
<1>4. BusyOnlyInService BY <1>1 DEF BusyOnlyInService, Switching
<1>5. SteadyInv
  <2>1. \A c \in Calls : ui[c] = "idle" BY DEF Init
  <2>2. shown \in {status, "loading"} BY <1>1 DEF Init, AdapterInit
  <2> QED BY <2>1, <2>2 DEF SteadyInv, Free
<1> QED BY <1>2, <1>3, <1>4, <1>5 DEF IInv

-----------------------------------------------------------------------------
(* The steps of the notifier and the repository, which leave the adapter   *)
(* alone.                                                                  *)

\* What such a step leaves of the invariant.
LEMMA AdapterSame == ASSUME IInv, UNCHANGED adapterVars
                     PROVE  /\ AdapterTypeOK'
                            /\ \A c \in Calls : Idle(c)' <=> Idle(c)
BY DEF IInv, TypeOK, AdapterTypeOK, Idle, adapterVars, call, os

LEMMA ToggleStep == ASSUME IInv, NEW c \in Calls, Toggle(c) PROVE IInv'
<1> USE DEF IInv, TypeOK, Begin, At, Shows, Toggle
<1>1. UNCHANGED adapterVars OBVIOUS
<1>2. /\ AdapterTypeOK' /\ status' = status
      /\ \A d \in Calls : Idle(d)' <=> Idle(d)
  BY <1>1, AdapterSame DEF adapterVars
<1>3. TypeOK' BY <1>2, NoneAssumption DEF Jobs, Places, Statuses
<1>4. ChosenOK' BY DEF ChosenOK, Jobs
<1>5. BusyOnlyInService' BY <1>2 DEF BusyOnlyInService, Switching, Free
<1>6. Linked' BY <1>2 DEF Linked, Free
<1>7. SteadyInv'
  <2> SUFFICES ASSUME Steady PROVE SteadyInv' BY DEF SteadyInv, Steady
  <2>1. \A d \in Calls : ui[d] = "idle" BY DEF MayBegin, Steady, AllFree, Free
  <2>2. \A d \in Calls : ui'[d] = IF d = c THEN "tap" ELSE "idle" BY <2>1
  <2>3. job'[c] \in {"connect", "retry"} => status \in {"stopped", "failed"}
    BY DEF SteadyInv, AdapterTypeOK, Statuses
  <2> QED BY <1>2, <2>2, <2>3 DEF SteadyInv, Free
<1> QED BY <1>3, <1>4, <1>5, <1>6, <1>7

LEMMA TappedStep == ASSUME IInv, NEW c \in Calls, Tapped(c) PROVE IInv'
<1> USE DEF IInv, TypeOK, Begin, At, Shows, Tapped
<1>1. UNCHANGED adapterVars OBVIOUS
<1>2. /\ AdapterTypeOK' /\ status' = status
      /\ \A d \in Calls : Idle(d)' <=> Idle(d)
  BY <1>1, AdapterSame DEF adapterVars
<1>3. TypeOK' BY <1>2, NoneAssumption DEF Jobs, Places, Statuses
<1>4. ChosenOK' BY DEF ChosenOK, Jobs
<1>5. BusyOnlyInService' BY <1>2 DEF BusyOnlyInService, Switching, Free
<1>6. Linked' BY <1>2 DEF Linked, Free
<1>7. SteadyInv' BY <1>2 DEF SteadyInv, Steady, MayBegin, AllFree, Free
<1> QED BY <1>3, <1>4, <1>5, <1>6, <1>7

LEMMA ReadProfileStep == ASSUME IInv, NEW c \in Calls, ReadProfile(c) PROVE IInv'
<1> USE DEF IInv, TypeOK, Begin, At, Shows, ReadProfile
<1>1. UNCHANGED adapterVars OBVIOUS
<1>2. /\ AdapterTypeOK' /\ status' = status
      /\ \A d \in Calls : Idle(d)' <=> Idle(d)
  BY <1>1, AdapterSame DEF adapterVars
<1>3. TypeOK' BY <1>2, NoneAssumption DEF Jobs, Places, Statuses
<1>4. ChosenOK' BY DEF ChosenOK, Jobs
<1>5. BusyOnlyInService' BY <1>2 DEF BusyOnlyInService, Switching, Free
<1>6. Linked' BY <1>2 DEF Linked, Free
<1>7. SteadyInv' BY <1>2 DEF SteadyInv, Steady, MayBegin, AllFree, Free
<1> QED BY <1>3, <1>4, <1>5, <1>6, <1>7

LEMMA ReconnectStep == ASSUME IInv, NEW c \in Calls, Reconnect(c) PROVE IInv'
<1> USE DEF IInv, TypeOK, Begin, At, Shows, Reconnect, ReconnectTo
<1>1. UNCHANGED adapterVars OBVIOUS
<1>2. /\ AdapterTypeOK' /\ status' = status
      /\ \A d \in Calls : Idle(d)' <=> Idle(d)
  BY <1>1, AdapterSame DEF adapterVars
<1>3. TypeOK' BY <1>2, NoneAssumption DEF Jobs, Places, Statuses
<1>4. ChosenOK' BY DEF ChosenOK, Jobs
<1>5. BusyOnlyInService' BY <1>2 DEF BusyOnlyInService, Switching, Free
<1>6. Linked' BY <1>2 DEF Linked, Free
<1>7. SteadyInv' BY <1>2 DEF SteadyInv, Steady, MayBegin, AllFree, Free
<1> QED BY <1>3, <1>4, <1>5, <1>6, <1>7

LEMMA QuitStep == ASSUME IInv, NEW c \in Calls, Quit(c) PROVE IInv'
<1> USE DEF IInv, TypeOK, Begin, At, Shows, Quit
<1>1. UNCHANGED adapterVars OBVIOUS
<1>2. /\ AdapterTypeOK' /\ status' = status
      /\ \A d \in Calls : Idle(d)' <=> Idle(d)
  BY <1>1, AdapterSame DEF adapterVars
<1>3. TypeOK' BY <1>2, NoneAssumption DEF Jobs, Places, Statuses
<1>4. ChosenOK' BY DEF ChosenOK, Jobs
<1>5. BusyOnlyInService' BY <1>2 DEF BusyOnlyInService, Switching, Free
<1>6. Linked' BY <1>2 DEF Linked, Free
<1>7. SteadyInv' BY <1>2 DEF SteadyInv, Steady, MayBegin, AllFree, Free
<1> QED BY <1>3, <1>4, <1>5, <1>6, <1>7

LEMMA RefusedStep == ASSUME IInv, NEW c \in Calls, Refused(c) PROVE IInv'
<1> USE DEF IInv, TypeOK, Begin, At, Shows, Refused
<1>1. UNCHANGED adapterVars OBVIOUS
<1>2. /\ AdapterTypeOK' /\ status' = status
      /\ \A d \in Calls : Idle(d)' <=> Idle(d)
  BY <1>1, AdapterSame DEF adapterVars
<1>3. TypeOK' BY <1>2, NoneAssumption DEF Jobs, Places, Statuses
<1>4. ChosenOK' BY DEF ChosenOK, Jobs
<1>5. BusyOnlyInService' BY <1>2 DEF BusyOnlyInService, Switching, Free
<1>6. Linked' BY <1>2 DEF Linked, Free
<1>7. SteadyInv' BY <1>2 DEF SteadyInv, Steady, MayBegin, AllFree, Free
<1> QED BY <1>3, <1>4, <1>5, <1>6, <1>7

LEMMA BlameStep == ASSUME IInv, NEW c \in Calls, Blame(c) PROVE IInv'
<1> USE DEF IInv, TypeOK, Begin, At, Shows, Blame
<1>1. UNCHANGED adapterVars OBVIOUS
<1>2. /\ AdapterTypeOK' /\ status' = status
      /\ \A d \in Calls : Idle(d)' <=> Idle(d)
  BY <1>1, AdapterSame DEF adapterVars
<1>3. TypeOK' BY <1>2, NoneAssumption DEF Jobs, Places, Statuses
<1>4. ChosenOK' BY DEF ChosenOK, Jobs
<1>5. BusyOnlyInService' BY <1>2 DEF BusyOnlyInService, Switching, Free
<1>6. Linked' BY <1>2 DEF Linked, Free
<1>7. SteadyInv' BY <1>2 DEF SteadyInv, Steady, MayBegin, AllFree, Free
<1> QED BY <1>3, <1>4, <1>5, <1>6, <1>7

LEMMA SwitchProfileStep == ASSUME IInv, NEW c \in Calls, NEW profile \in Configs \cup {None},
                                 SwitchProfile(c, profile)
                          PROVE  IInv'
<1> USE DEF IInv, TypeOK, Begin, At, Shows, SwitchProfile, ReconnectTo
<1>1. UNCHANGED adapterVars OBVIOUS
<1>2. /\ AdapterTypeOK' /\ status' = status
      /\ \A d \in Calls : Idle(d)' <=> Idle(d)
  BY <1>1, AdapterSame DEF adapterVars
<1>3. TypeOK' BY <1>2, NoneAssumption DEF Jobs, Places, Statuses
<1>4. ChosenOK' BY DEF ChosenOK, Jobs
<1>5. BusyOnlyInService' BY <1>2 DEF BusyOnlyInService, Switching, Free
<1>6. Linked' BY <1>2 DEF Linked, Free
<1>7. SteadyInv' BY <1>2 DEF SteadyInv, Steady, MayBegin, AllFree, Free
<1> QED BY <1>3, <1>4, <1>5, <1>6, <1>7

LEMMA OtherStep == ASSUME IInv, ChangeTun \/ (\E p \in Cores : CoreExits(p)) \/ UNCHANGED vars
                   PROVE  IInv'
<1>1. CASE ChangeTun
  BY <1>1, AdapterSame
     DEF IInv, TypeOK, ChosenOK, BusyOnlyInService, Linked, SteadyInv, Free, ChangeTun,
         adapterVars
<1>2. ASSUME NEW p \in Cores, CoreExits(p) PROVE IInv'
  <2>1. AdapterTypeOK' BY <1>2, ExitType DEF IInv, TypeOK, CoreExits
  <2> QED BY <1>2, <2>1
          DEF IInv, TypeOK, ChosenOK, BusyOnlyInService, Linked, Idle, SteadyInv, Free,
              CoreExits, Exit, call, notifier
<1>3. CASE UNCHANGED vars
  BY <1>3, AdapterSame
     DEF IInv, TypeOK, ChosenOK, BusyOnlyInService, Linked, SteadyInv, Free, vars, notifier,
         adapterVars
<1> QED BY <1>1, <1>2, <1>3

-----------------------------------------------------------------------------
(* The call of the service.                                                *)

\* The call that begins is one of the adapter's, with a profile for argument.
LEMMA WhichCall == ASSUME IInv, NEW c \in Calls, CallService(c)
                   PROVE  \/ job[c] \in {"connect", "retry"} /\ chosen[c] \in Configs
                             /\ Start(c, chosen[c])
                          \/ job[c] = "reconnect" /\ chosen[c] \in Configs
                             /\ Restart(c, chosen[c])
                          \/ job[c] = "disconnect" /\ Stop(c)
<1>1. job[c] \in Jobs BY DEF IInv, TypeOK
<1> QED BY <1>1 DEF IInv, ChosenOK, CallService, Jobs

LEMMA CallStep == ASSUME IInv, NEW c \in Calls, CallService(c) PROVE IInv'
<1>1. AdapterTypeOK'
  BY WhichCall, StartType, StopType, RestartType DEF IInv, TypeOK
<1>2. /\ ~Idle(c)'
      /\ \A d \in Calls : d # c => (Idle(d)' <=> Idle(d))
      /\ status' \in {"starting", "stopping"}
  BY WhichCall DEF Start, Stop, Restart, Goto, Add, Idle, IInv, TypeOK, AdapterTypeOK
<1> USE DEF IInv, TypeOK, CallService, At, Shows
<1>3. TypeOK' BY <1>1 DEF AdapterTypeOK, Places
<1>4. ChosenOK' BY DEF ChosenOK
<1>5. BusyOnlyInService' BY DEF BusyOnlyInService
<1>6. Linked' BY <1>2 DEF Linked
<1>7. SteadyInv'
  <2> SUFFICES ASSUME Steady PROVE SteadyInv' BY DEF SteadyInv, Steady
  <2>1. \A d \in Calls : d # c => Free(d) BY DEF SteadyInv, Free
  <2>2. \A d \in Calls : IF d = c THEN ui'[d] = "service" ELSE ui'[d] = "idle"
    BY <2>1 DEF Free
  <2>3. shown' = status' OBVIOUS
  <2>4. /\ \A d, e \in Calls : ~Free(d)' /\ ~Free(e)' => d = e
        /\ \A d \in Calls : ui'[d] \notin {"tap", "profile", "options", "blame"}
    BY <2>2 DEF Free
  <2> HIDE DEF CallService, IInv, TypeOK
  <2> QED BY <2>3, <2>4 DEF SteadyInv
<1> QED BY <1>3, <1>4, <1>5, <1>6, <1>7

\* What a step of the adapter does to the status and to its callers.
LEMMA StepEffect == ASSUME AdapterTypeOK, NEW c \in Calls, Step(c)
                    PROVE  /\ ~Idle(c)
                           /\ \A d \in Calls : d # c => pc'[d] = pc[d]
                           /\ Idle(c)' => status' \notin Switching
                           /\ ~Idle(c)' /\ pc[c] # "pause" => status' = status
BY DEF AdapterTypeOK, Step, CheckFile, SetupConfig, FindBinary, Spawn, Adopt, Kill, StopAgain,
       Stopped, Pause, StartAgain, Goto, Add, Returns, Fails, Idle, Switching

LEMMA ServeStep == ASSUME IInv, NEW c \in Calls, Serve(c) PROVE IInv'
<1>1. AdapterTypeOK' BY StepType DEF IInv, TypeOK, Serve
<1>2. /\ \A d \in Calls : d # c => pc'[d] = pc[d]
      /\ Idle(c)' => status' \notin Switching
      /\ ~Idle(c)' /\ pc[c] # "pause" => status' = status
  BY StepEffect DEF IInv, TypeOK, Serve
<1> USE DEF IInv, TypeOK, Serve, At, Shows, Idle
<1>3. TypeOK' BY <1>1 DEF AdapterTypeOK, Places
<1>4. ChosenOK' BY DEF ChosenOK
<1>5. BusyOnlyInService'
  <2>1. CASE pc'[c] = "idle" BY <1>2, <2>1 DEF BusyOnlyInService
  <2>2. CASE pc'[c] # "idle" BY <2>2 DEF BusyOnlyInService
  <2> QED BY <2>1, <2>2
<1>6. Linked' BY <1>2 DEF Linked
<1>7. SteadyInv'
  <2> SUFFICES ASSUME Steady PROVE SteadyInv' BY DEF SteadyInv, Steady
  <2>1. \A d \in Calls : d # c => Free(d) BY DEF SteadyInv, Free
  <2>2. \A d \in Calls : IF d = c THEN ui'[d] \in {"idle", "service", "blame"}
                                   ELSE ui'[d] = "idle"
    BY <2>1 DEF Free
  <2>3. ui'[c] = "blame" => status' = "failed" OBVIOUS
  <2>4. shown' = status' \/ (shown' = shown /\ status' = status) BY <1>2
  <2>5. shown' \in {status', "loading"} \/ (shown' = "error" /\ status' = "failed")
    BY <2>4 DEF SteadyInv
  <2> QED BY <2>2, <2>3, <2>5 DEF SteadyInv, Free
<1> QED BY <1>3, <1>4, <1>5, <1>6, <1>7

LEMMA NextIInv == IInv /\ [Next]_vars => IInv'
BY ToggleStep, TappedStep, ReadProfileStep, ReconnectStep, QuitStep, RefusedStep, BlameStep,
   SwitchProfileStep, OtherStep, CallStep, ServeStep
   DEF Next, Continue

LEMMA Invariant == Spec => []IInv
BY InitIInv, NextIInv, PTL DEF Spec

\* Every variable of the connection keeps its type.
THEOREM TypeCorrect == Spec => []TypeOK
BY Invariant, PTL DEF IInv

\* However operations overlap, a switching status is shown only while the
\* service is at work on the call that will replace it.
THEOREM BusyShown == Spec => []BusyOnlyInService
BY Invariant, PTL DEF IInv

-----------------------------------------------------------------------------
(* The steady connection implements the adapter's specification.           *)

LEMMA AdapterStep == ASSUME IInv, Steady, [Next]_vars PROVE [AdapterNext]_adapterVars
<1>1. ASSUME NEW c \in Calls, CallService(c) PROVE AdapterNext
  <2>1. \A d \in Calls : Free(d) \/ d = c BY <1>1 DEF IInv, SteadyInv, CallService, Free
  <2>2. AllIdle BY <1>1, <2>1 DEF IInv, Linked, AllIdle, Free, CallService
  <2>3. job[c] \in {"connect", "retry"} => status # "started"
    BY <1>1 DEF IInv, SteadyInv, CallService
  <2> QED BY <1>1, <2>2, <2>3, WhichCall DEF AdapterNext, MayStart, MayCall
<1>2. ASSUME NEW c \in Calls, Serve(c) PROVE AdapterNext BY <1>2 DEF Serve, AdapterNext
<1>3. ASSUME NEW p \in Cores, CoreExits(p) PROVE AdapterNext
  BY <1>3 DEF CoreExits, AdapterNext
<1>4. ASSUME NEW c \in Calls, Tapped(c) \/ ReadProfile(c) \/ Refused(c) \/ Blame(c)
      PROVE  UNCHANGED adapterVars
  BY <1>4 DEF Tapped, ReadProfile, Refused, Blame
<1>5. ASSUME NEW c \in Calls, NEW profile \in Configs \cup {None},
             Toggle(c) \/ Reconnect(c) \/ Quit(c) \/ SwitchProfile(c, profile)
      PROVE  UNCHANGED adapterVars
  BY <1>5 DEF Toggle, Reconnect, Quit, SwitchProfile
<1>6. ChangeTun => UNCHANGED adapterVars BY DEF ChangeTun
<1>7. UNCHANGED vars => UNCHANGED adapterVars BY DEF vars
<1> QED BY <1>1, <1>2, <1>3, <1>4, <1>5, <1>6, <1>7 DEF Next, Continue

\* One operation at a time with options that can be read, the connection calls
\* the adapter as callers that take turns do: it starts only what is down.
THEOREM Implements == ASSUME Steady PROVE Spec => CallsAdapter
<1>1. Init => AdapterInit BY DEF Init
<1>2. IInv /\ [Next]_vars => [AdapterNext]_adapterVars BY AdapterStep
<1> QED BY <1>1, <1>2, Invariant, PTL DEF Spec, CallsAdapter, AdapterSpec

\* In a steady app no core runs while the state shown invites to connect.
THEOREM NothingRunsUnseen == Spec => []ShownDown
<1>1. CASE Steady
  <2>1. Serial BY <1>1 DEF Steady
  <2>2. IInv /\ StoppedMeansDown => ShownDown
    BY <1>1, <2>1 DEF IInv, TypeOK, AdapterTypeOK, Statuses, SteadyInv, StoppedMeansDown, ShownDown
  <2>3. Spec => []StoppedMeansDown
    BY <1>1, Implements, DownWhenStopped, PTL DEF CallsAdapter
  <2> QED BY <2>2, <2>3, Invariant, PTL
<1>2. CASE ~Steady
  <2>1. IInv => ShownDown BY <1>2 DEF ShownDown
  <2> QED BY <2>1, Invariant, PTL
<1> QED BY <1>1, <1>2

-----------------------------------------------------------------------------
(* What runs, and on what.                                                 *)

\* A stop never comes to start anything; a start writes its own profile's
\* configuration, and when callers take turns its process reads that one.
StartInv ==
   /\ \A c \in Calls : action[c] = "stop"
                         => pc[c] \in {"idle", "cancel", "exit", "cancelAgain", "exitAgain"}
   /\ \A c \in Calls : pc[c] \in {"which", "spawn"} => written = path[c]
   /\ \A c \in Calls : pc[c] = "adopt" => \A p \in Live : running[p] = path[c]

\* An operation of a steady app works for the active profile, and what it
\* leaves running is started on it.
RunInv ==
   /\ AllFree /\ shown = "started" => active # None /\ \A p \in Live : running[p] = active
   /\ \A c \in Calls : /\ ui[c] = "tap" => job[c] # "reconnect"
                       /\ ui[c] = "profile" => job[c] \in {"connect", "retry"}
   /\ \A c \in Calls : ui[c] \in {"options", "service"} /\ job[c] # "disconnect"
                         => active # None /\ chosen[c] = active
   /\ \A c \in Calls : ui[c] = "service"
                         => IF job[c] = "disconnect" THEN action[c] = "stop"
                            ELSE action[c] # "stop" /\ path[c] = chosen[c]

\* A window that closes leaves a disconnect, or nothing, to be done.
QuitInv ==
   /\ shown = "loading" => status = "stopped" /\ AllFree
   /\ quitting # None =>
        /\ AllFree => status \in {"stopped", "failed"}
        /\ \A c \in Calls : ~Free(c) => job[c] = "disconnect" /\ ui[c] \in {"options", "service"}

LEMMA StartStep == ASSUME Serial, AdapterTypeOK, SerialInv, StartInv, NEW c \in Calls, Step(c)
                   PROVE  StartInv'
<1>1. \A d \in Calls : d # c => pc[d] = "idle"
  BY StepEffect DEF SerialInv, Turns, Idle
<1>2. \A d \in Calls : d # c => pc'[d] = "idle" /\ action'[d] = action[d]
  BY <1>1 DEF AdapterTypeOK, Step, CheckFile, SetupConfig, FindBinary, Spawn, Adopt, Kill,
              StopAgain, Stopped, Pause, StartAgain, Goto, Returns, Fails
<1>3. UNCHANGED <<action, path>>
  BY DEF Step, CheckFile, SetupConfig, FindBinary, Spawn, Adopt, Kill, StopAgain, Stopped,
         Pause, StartAgain, Returns, Fails
<1>4. action[c] = "stop" => pc'[c] \in {"idle", "cancel", "exit", "cancelAgain", "exitAgain"}
  BY DEF StartInv, AdapterTypeOK, Step, CheckFile, SetupConfig, FindBinary, Spawn, Adopt, Kill,
         StopAgain, Stopped, Pause, StartAgain, Goto, Returns, Fails
<1>5. pc'[c] \in {"which", "spawn"} => written' = path[c]
  BY DEF StartInv, AdapterTypeOK, Step, CheckFile, SetupConfig, FindBinary, Spawn, Adopt, Kill,
         StopAgain, Stopped, Pause, StartAgain, Goto, Returns, Fails
<1>6. ASSUME pc'[c] = "adopt" PROVE \A p \in Live' : running'[p] = path[c]
  <2>1. Spawn(c) /\ pc[c] = "spawn"
    BY <1>6 DEF AdapterTypeOK, Step, CheckFile, SetupConfig, FindBinary, Spawn, Adopt, Kill,
                StopAgain, Stopped, Pause, StartAgain, Goto, Returns, Fails
  <2>2. Live = {} /\ written = path[c]
    BY <2>1 DEF SerialInv, Turns, StartInv
  <2>3. PICK p \in Cores : /\ state' = [state EXCEPT ![p] = "running"]
                           /\ running' = [running EXCEPT ![p] = written]
    BY <1>6, <2>1 DEF Spawn, Fails, Returns, Goto, AdapterTypeOK
  <2> QED
    BY <2>2, <2>3 DEF Live, AdapterTypeOK
<1> QED
  BY <1>2, <1>3, <1>4, <1>5, <1>6 DEF StartInv

LEMMA StartNext == ASSUME Serial, AdapterTypeOK, SerialInv, StartInv, [AdapterNext]_adapterVars
                   PROVE  StartInv'
<1>1. CASE UNCHANGED adapterVars
  BY <1>1 DEF StartInv, Live, adapterVars, call, os
<1>2. ASSUME NEW c \in Calls, NEW f \in Configs, Start(c, f), AllIdle PROVE StartInv'
  BY <1>2 DEF StartInv, Start, Goto, AdapterTypeOK, AllIdle, Idle
<1>3. ASSUME NEW c \in Calls, Stop(c), AllIdle PROVE StartInv'
  BY <1>3 DEF StartInv, Stop, Goto, AdapterTypeOK, AllIdle, Idle
<1>4. ASSUME NEW c \in Calls, NEW f \in Configs, Restart(c, f), AllIdle PROVE StartInv'
  BY <1>4 DEF StartInv, Restart, Goto, AdapterTypeOK, AllIdle, Idle
<1>5. ASSUME NEW p \in Cores, Exit(p) PROVE StartInv'
  BY <1>5 DEF StartInv, Exit, call, Live, AdapterTypeOK
<1> QED
  BY <1>1, <1>2, <1>3, <1>4, <1>5, StartStep DEF AdapterNext, MayStart, MayCall

LEMMA StartInvariant == ASSUME Serial PROVE AdapterSpec => []StartInv
<1>1. AdapterInit => StartInv
  BY DEF AdapterInit, StartInv
<1>2. AdapterTypeOK /\ SerialInv /\ StartInv /\ [AdapterNext]_adapterVars => StartInv'
  BY StartNext
<1> QED
  BY <1>1, <1>2, AdapterTypeCorrect, SerialInvariant, PTL DEF AdapterSpec

\* The operations that begin, of which a steady app has one.
LEMMA BeginEffect ==
  ASSUME Steady, IInv, NEW c \in Calls,
         \/ Toggle(c) \/ Reconnect(c) \/ Quit(c)
         \/ \E profile \in Configs \cup {None} : SwitchProfile(c, profile)
  PROVE  /\ quitting = None /\ AllFree /\ UNCHANGED <<shown, adapterVars>>
         /\ \A d \in Calls : d # c => Free(d)'
BY DEF Steady, IInv, TypeOK, Toggle, Reconnect, ReconnectTo, Quit, SwitchProfile, Begin, MayBegin,
       AllFree, Free, At

\* A step of an operation leaves the others free.
LEMMA ContinueEffect ==
  ASSUME Steady, IInv, NEW c \in Calls, Continue(c)
  PROVE  /\ ~Free(c) /\ UNCHANGED <<job, active, quitting>>
         /\ \A d \in Calls : d # c => Free(d) /\ Free(d)'
<1>1. ~Free(c) /\ UNCHANGED <<job, active, quitting>>
  BY DEF Continue, Tapped, ReadProfile, Refused, CallService, Serve, Blame, Free
<1>2. \A d \in Calls : d # c => ui'[d] = ui[d]
  BY DEF Continue, Tapped, ReadProfile, Refused, CallService, Serve, Blame, At, IInv, TypeOK
<1> QED
  BY <1>1, <1>2 DEF IInv, SteadyInv, Free

LEMMA RunBegins ==
  ASSUME Steady, IInv, RunInv, NEW c \in Calls,
         \/ Toggle(c) \/ Reconnect(c) \/ Quit(c)
         \/ \E profile \in Configs \cup {None} : SwitchProfile(c, profile)
  PROVE  RunInv'
<1>1. /\ quitting = None /\ AllFree /\ UNCHANGED <<shown, adapterVars>>
      /\ \A d \in Calls : d # c => Free(d)'
  BY BeginEffect
<1>2. UNCHANGED <<path, action, state, running>> /\ Live' = Live
  BY <1>1 DEF adapterVars, call, os, Live
<1> USE DEF IInv, TypeOK, Begin, At, Free, AllFree
<1>3. CASE Toggle(c)
  BY <1>1, <1>2, <1>3 DEF Toggle, RunInv
<1>4. CASE Reconnect(c)
  BY <1>1, <1>2, <1>4 DEF Reconnect, ReconnectTo, RunInv
<1>5. CASE Quit(c)
  BY <1>1, <1>2, <1>5 DEF Quit, RunInv
<1>6. ASSUME NEW profile \in Configs \cup {None}, SwitchProfile(c, profile) PROVE RunInv'
  <2>1. CASE shown = "started"
    <3>1. active # None BY <1>1, <2>1 DEF RunInv
    <3> QED BY <1>1, <1>2, <1>6, <2>1, <3>1 DEF SwitchProfile, ReconnectTo, RunInv
  <2>2. CASE shown # "started"
    BY <1>1, <1>2, <1>6, <2>2 DEF SwitchProfile, RunInv
  <2> QED BY <2>1, <2>2
<1> QED BY <1>3, <1>4, <1>5, <1>6

LEMMA RunContinues ==
  ASSUME Steady, IInv, SerialInv, StartInv, RunInv, NEW c \in Calls, Continue(c)
  PROVE  RunInv'
<1>1. /\ ~Free(c) /\ UNCHANGED <<job, active, quitting>>
      /\ \A d \in Calls : d # c => Free(d) /\ Free(d)'
  BY ContinueEffect
<1> USE DEF IInv, TypeOK, At, Shows, Free, AllFree
<1>2. CASE Tapped(c)
  BY <1>1, <1>2 DEF Tapped, RunInv, Jobs
<1>3. CASE ReadProfile(c)
  <2>1. job[c] \in {"connect", "retry"} /\ shown # "started"
    BY <1>3 DEF ReadProfile, RunInv, SteadyInv, Steady
  <2> QED BY <1>1, <1>3, <2>1 DEF ReadProfile, RunInv
<1>4. CASE Refused(c)
  BY <1>4 DEF Refused, Steady
<1>5. CASE Blame(c)
  BY <1>1, <1>5 DEF Blame, RunInv, SteadyInv
<1>6. CASE CallService(c)
  <2>1. /\ ui'[c] = "service" /\ UNCHANGED chosen
        /\ action'[c] = "stop" <=> job[c] = "disconnect"
        /\ job[c] # "disconnect" => path'[c] = chosen[c]
    BY <1>6, WhichCall DEF CallService, Start, Stop, Restart, AdapterTypeOK, Jobs
  <2>2. job[c] # "disconnect" => active # None /\ chosen[c] = active
    BY <1>6 DEF CallService, RunInv
  <2> QED BY <1>1, <2>1, <2>2 DEF RunInv
<1>7. CASE Serve(c)
  <2>1. /\ ui[c] = "service" /\ UNCHANGED chosen /\ UNCHANGED <<action, path>>
    BY <1>7 DEF Serve, Step, CheckFile, SetupConfig, FindBinary, Spawn, Adopt, Kill, StopAgain,
                Stopped, Pause, StartAgain, Returns, Fails
  <2>2. ASSUME AllFree', shown' = "started"
        PROVE  active # None /\ \A p \in Live' : running'[p] = active
    <3>1. pc'[c] = "idle" /\ status' = "started"
      BY <1>7, <2>2 DEF Serve
    <3>2. FindBinary(c) \/ Adopt(c)
      BY <1>7, <3>1 DEF Serve, Step, CheckFile, SetupConfig, Spawn, Kill, StopAgain, Stopped,
                        Pause, StartAgain, Goto, Add, Returns, Fails, AdapterTypeOK
    <3>3. action[c] # "stop" /\ pc[c] \in {"which", "adopt"}
      BY <3>2 DEF FindBinary, Adopt, StartInv
    <3>4. active # None /\ path[c] = active
      BY <2>1, <3>3 DEF RunInv
    <3>5. UNCHANGED os
      BY <3>2, <3>1 DEF FindBinary, Adopt, Goto, os, AdapterTypeOK
    <3>6. \A p \in Live : running[p] = path[c]
      BY <3>3 DEF Steady, SerialInv, Turns, StartInv
    <3> QED BY <3>4, <3>5, <3>6 DEF os, Live
  <2>3. ui'[c] \in {"service", "idle", "blame"}
    BY <1>7 DEF Serve
  <2> QED BY <1>1, <2>1, <2>2, <2>3 DEF RunInv
<1> QED BY <1>2, <1>3, <1>4, <1>5, <1>6, <1>7 DEF Continue

LEMMA QuitBegins ==
  ASSUME Steady, IInv, QuitInv, NEW c \in Calls,
         \/ Toggle(c) \/ Reconnect(c) \/ Quit(c)
         \/ \E profile \in Configs \cup {None} : SwitchProfile(c, profile)
  PROVE  QuitInv'
<1>1. /\ quitting = None /\ AllFree /\ UNCHANGED <<shown, adapterVars>>
      /\ \A d \in Calls : d # c => Free(d)'
  BY BeginEffect
<1>2. UNCHANGED status
  BY <1>1 DEF adapterVars
<1> USE DEF IInv, TypeOK, Begin, At, Free, AllFree
<1>3. CASE Toggle(c)
  BY <1>1, <1>2, <1>3 DEF Toggle, QuitInv
<1>4. CASE Reconnect(c)
  BY <1>1, <1>2, <1>4 DEF Reconnect, ReconnectTo, QuitInv
<1>5. CASE Quit(c)
  <2>1. shown \in {"started", "starting"} \/ status \in {"stopped", "failed"}
    BY <1>1 DEF BusyOnlyInService, Switching, SteadyInv, QuitInv, AdapterTypeOK, Statuses
  <2>2. CASE shown \in {"started", "starting"}
    BY <1>1, <1>2, <1>5, <2>2 DEF Quit, QuitInv
  <2>3. CASE shown \notin {"started", "starting"}
    BY <1>1, <1>2, <1>5, <2>1, <2>3 DEF Quit, QuitInv
  <2> QED BY <2>2, <2>3
<1>6. ASSUME NEW profile \in Configs \cup {None}, SwitchProfile(c, profile) PROVE QuitInv'
  BY <1>1, <1>2, <1>6 DEF SwitchProfile, ReconnectTo, QuitInv
<1> QED BY <1>3, <1>4, <1>5, <1>6

LEMMA QuitContinues ==
  ASSUME Steady, IInv, StartInv, RunInv, QuitInv, NEW c \in Calls, Continue(c)
  PROVE  QuitInv'
<1>1. /\ ~Free(c) /\ UNCHANGED <<job, active, quitting>>
      /\ \A d \in Calls : d # c => Free(d) /\ Free(d)'
  BY ContinueEffect
<1>2. shown # "loading"
  BY <1>1 DEF QuitInv, AllFree
<1>3. shown' # "loading"
  <2>1. status' # "loading"
    BY StepType, WhichCall, StartType, StopType, RestartType
       DEF Continue, Tapped, ReadProfile, Refused, CallService, Serve, Blame, adapterVars,
           IInv, TypeOK, AdapterTypeOK, Statuses
  <2> QED
    BY <1>2, <2>1 DEF Continue, Tapped, ReadProfile, Refused, CallService, Serve, Blame, Shows
<1>4. ASSUME quitting # None
      PROVE  /\ AllFree' => status' \in {"stopped", "failed"}
             /\ ~Free(c)' => job[c] = "disconnect" /\ ui'[c] \in {"options", "service"}
  <2>1. job[c] = "disconnect" /\ ui[c] \in {"options", "service"}
    BY <1>1, <1>4 DEF QuitInv
  <2>2. CASE ui[c] = "options"
    BY <2>1, <2>2
       DEF Continue, Tapped, ReadProfile, Refused, CallService, Serve, Blame, Steady, At, Free,
           AllFree, IInv, TypeOK
  <2>3. CASE ui[c] = "service"
    <3>1. Serve(c)
      BY <2>3 DEF Continue, Tapped, ReadProfile, Refused, CallService, Blame
    <3>2. action[c] = "stop"
      BY <2>1, <2>3 DEF RunInv
    <3>3. pc[c] \in {"idle", "cancel", "exit", "cancelAgain", "exitAgain"}
      BY <3>2 DEF StartInv
    <3>4. pc'[c] = "idle" => status' = "stopped"
      BY <3>1, <3>2, <3>3
         DEF Serve, Step, CheckFile, SetupConfig, FindBinary, Spawn, Adopt, Kill, StopAgain,
             Stopped, Pause, StartAgain, Goto, Add, Returns, Fails, IInv, TypeOK, AdapterTypeOK
    <3> QED
      BY <2>1, <2>3, <3>1, <3>4 DEF Serve, At, Free, AllFree, IInv, TypeOK
  <2> QED BY <2>1, <2>2, <2>3
<1> QED BY <1>1, <1>3, <1>4 DEF QuitInv

LEMMA SteadyNext ==
  ASSUME Steady, IInv, SerialInv, StartInv, RunInv, QuitInv, [Next]_vars
  PROVE  RunInv' /\ QuitInv'
<1>1. ASSUME NEW c \in Calls,
             \/ Toggle(c) \/ Reconnect(c) \/ Quit(c)
             \/ \E profile \in Configs \cup {None} : SwitchProfile(c, profile)
      PROVE  RunInv' /\ QuitInv'
  BY <1>1, RunBegins, QuitBegins
<1>2. ASSUME NEW c \in Calls, Continue(c) PROVE RunInv' /\ QuitInv'
  BY <1>2, RunContinues, QuitContinues
<1>3. ChangeTun => FALSE
  BY DEF ChangeTun, Steady
<1>4. ASSUME NEW p \in Cores, CoreExits(p) PROVE RunInv' /\ QuitInv'
  <2>1. Live' \subseteq Live /\ \A q \in Live' : running'[q] = running[q]
    BY <1>4 DEF CoreExits, Exit, Live, IInv, TypeOK, AdapterTypeOK
  <2>2. UNCHANGED <<notifier, status, call>>
    BY <1>4 DEF CoreExits, Exit
  <2> QED BY <2>1, <2>2 DEF RunInv, QuitInv, AllFree, Free, notifier, call
<1>5. CASE UNCHANGED vars
  BY <1>5 DEF RunInv, QuitInv, AllFree, Free, Live, vars, notifier, adapterVars, call, os
<1> QED BY <1>1, <1>2, <1>3, <1>4, <1>5 DEF Next

LEMMA SteadyInvariant ==
  ASSUME Steady PROVE Spec => [](StoppedMeansDown /\ RunInv /\ QuitInv)
<1>1. Serial
  BY DEF Steady
<1>2. Init => RunInv /\ QuitInv
  BY DEF Init, AdapterInit, RunInv, QuitInv, AllFree, Free
<1>3. IInv /\ SerialInv /\ StartInv /\ RunInv /\ QuitInv /\ [Next]_vars => RunInv' /\ QuitInv'
  BY SteadyNext
<1>4. Spec => [](SerialInv /\ StartInv)
  BY <1>1, Implements, SerialInvariant, StartInvariant, PTL DEF CallsAdapter
<1> QED
  BY <1>2, <1>3, <1>4, Invariant, PTL DEF Spec, SerialInv

\* In a steady app the core that runs when nothing is under way runs the
\* active profile.
THEOREM ActiveRuns == Spec => []RunsActive
<1>1. CASE Steady
  <2>1. RunInv => RunsActive
    BY DEF RunInv, RunsActive
  <2> QED BY <1>1, <2>1, SteadyInvariant, PTL
<1>2. CASE ~Steady
  <2>1. IInv => RunsActive BY <1>2 DEF RunsActive
  <2> QED BY <2>1, Invariant, PTL
<1> QED BY <1>1, <1>2

\* In a steady app a window that has closed leaves nothing running.
THEOREM ClosesClean == Spec => []CleanExit
<1>1. CASE Steady
  <2>1. StoppedMeansDown /\ QuitInv => CleanExit
    BY <1>1 DEF QuitInv, CleanExit, StoppedMeansDown, Steady
  <2> QED BY <1>1, <2>1, SteadyInvariant, PTL
<1>2. CASE ~Steady
  <2>1. IInv => CleanExit BY <1>2 DEF CleanExit
  <2> QED BY <2>1, Invariant, PTL
<1> QED BY <1>1, <1>2
-----------------------------------------------------------------------------
(* What ButtonReturns rests on besides fairness: no operation is stuck,    *)
(* and none goes in circles, however operations overlap.                   *)

\* Whoever awaits the exit of a live process has sent it SIGTERM; the call
\* that awaits one stops or restarts; only a flaky system denies TUN mode.
WaitInv ==
  /\ \A c \in Calls : pc[c] \in {"exit", "exitAgain"} /\ waited[c] \in Live
                        => state[waited[c]] = "signalled"
  /\ \A c \in Calls : pc[c] \in {"cancel", "exit"} => action[c] \in {"stop", "restart"}
  /\ denied => Flaky

\* Operation c has a step: Continue(c) is enabled.
CanContinue(c) ==
  \/ ui[c] \in {"tap", "profile", "blame"}
  \/ ui[c] = "options" /\ (denied => Flaky)
  \/ /\ ui[c] = "service"
     /\ pc[c] \in {"exit", "exitAgain"} => Exited(c)
     /\ pc[c] = "exit" => action[c] \in {"stop", "restart"}

\* Operation c awaits the exit of a process that has its SIGTERM.
AwaitsExit(c) == /\ ui[c] = "service" /\ waited[c] \in Live
                 /\ state[waited[c]] = "signalled"

\* How far an operation is from its end, outside the service and in it.
NotifierRank == [tap |-> 14, profile |-> 13, options |-> 12, blame |-> 1, idle |-> 0]
CallRank == [cancel |-> 11, exit |-> 10, cancelAgain |-> 9, pause |-> 9, exitAgain |-> 8,
             exists |-> 7, convert |-> 6, which |-> 5, spawn |-> 4, adopt |-> 3]
Rank(c) == IF ui[c] = "service" THEN CallRank[pc[c]] ELSE NotifierRank[ui[c]]

\* A step brings an operation that is under way nearer to its end or leaves
\* it where it is, with its profile and the process it awaits; and it does
\* not take back a SIGTERM.
Onward == /\ \A c \in Calls :
                \/ Free(c)
                \/ Rank(c)' < Rank(c)
                \/ /\ ui'[c] = ui[c] /\ pc'[c] = pc[c] /\ waited'[c] = waited[c]
                   /\ job'[c] = job[c] /\ chosen'[c] = chosen[c]
          /\ \A p \in Cores : state[p] = "signalled" => state'[p] # "running"

LEMMA RankFact ==
  /\ NotifierRank["tap"] = 14 /\ NotifierRank["profile"] = 13
  /\ NotifierRank["options"] = 12 /\ NotifierRank["blame"] = 1
  /\ NotifierRank["idle"] = 0
  /\ CallRank["cancel"] = 11 /\ CallRank["exit"] = 10
  /\ CallRank["cancelAgain"] = 9 /\ CallRank["pause"] = 9
  /\ CallRank["exitAgain"] = 8 /\ CallRank["exists"] = 7
  /\ CallRank["convert"] = 6 /\ CallRank["which"] = 5
  /\ CallRank["spawn"] = 4 /\ CallRank["adopt"] = 3
BY DEF NotifierRank, CallRank

\* A step of a call takes it forward, or ends it, and moves no other call.
LEMMA CallOnward == ASSUME AdapterTypeOK, NEW c \in Calls, Step(c)
                    PROVE  /\ pc'[c] = "idle" \/ CallRank[pc'[c]] < CallRank[pc[c]]
                           /\ pc'[c] = "idle" => CallRank[pc[c]] > 1
                           /\ \A d \in Calls : d # c => pc'[d] = pc[d] /\ waited'[d] = waited[d]
                           /\ \A p \in Cores : state[p] = "signalled" => state'[p] # "running"
<1> USE RankFact DEF AdapterTypeOK, Goto, Returns, Fails, os
<1>1. CASE CheckFile(c) BY <1>1 DEF CheckFile
<1>2. CASE SetupConfig(c) BY <1>2 DEF SetupConfig
<1>3. CASE FindBinary(c) BY <1>3 DEF FindBinary
<1>4. CASE Spawn(c) BY <1>4 DEF Spawn
<1>5. CASE Adopt(c) BY <1>5 DEF Adopt
<1>6. CASE Kill(c) BY <1>6 DEF Kill
<1>7. CASE StopAgain(c) BY <1>7 DEF StopAgain
<1>8. CASE Stopped(c) BY <1>8 DEF Stopped
<1>9. CASE Pause(c) BY <1>9 DEF Pause
<1>10. CASE StartAgain(c) BY <1>10 DEF StartAgain
<1> QED BY <1>1, <1>2, <1>3, <1>4, <1>5, <1>6, <1>7, <1>8, <1>9, <1>10 DEF Step

LEMMA WaitStep == ASSUME AdapterTypeOK, WaitInv, UNCHANGED denied, NEW c \in Calls, Step(c)
                  PROVE  WaitInv'
<1> USE NoneAssumption DEF AdapterTypeOK, WaitInv, Live, Goto, Returns, Fails, os
<1>1. CASE CheckFile(c) BY <1>1 DEF CheckFile
<1>2. CASE SetupConfig(c) BY <1>2 DEF SetupConfig
<1>3. CASE FindBinary(c) BY <1>3 DEF FindBinary
<1>4. CASE Spawn(c) BY <1>4 DEF Spawn
<1>5. CASE Adopt(c) BY <1>5 DEF Adopt
<1>6. CASE Kill(c) BY <1>6 DEF Kill
<1>7. CASE StopAgain(c) BY <1>7 DEF StopAgain
<1>8. CASE Stopped(c) BY <1>8 DEF Stopped
<1>9. CASE Pause(c) BY <1>9 DEF Pause
<1>10. CASE StartAgain(c) BY <1>10 DEF StartAgain
<1> QED BY <1>1, <1>2, <1>3, <1>4, <1>5, <1>6, <1>7, <1>8, <1>9, <1>10 DEF Step

\* A step outside the service keeps WaitInv and moves at most one operation,
\* forward.
LEMMA OutsideOnward ==
  ASSUME IInv, WaitInv, UNCHANGED adapterVars, NEW c \in Calls,
         NEW profile \in Configs \cup {None},
         \/ Toggle(c) \/ Reconnect(c) \/ Quit(c) \/ SwitchProfile(c, profile)
         \/ Tapped(c) \/ ReadProfile(c) \/ Refused(c) \/ Blame(c)
  PROVE  WaitInv' /\ Onward
<1> USE RankFact DEF IInv, TypeOK, AdapterTypeOK, adapterVars, call, os
<1>1. UNCHANGED denied
  BY DEF Toggle, Reconnect, Quit, SwitchProfile, Tapped, ReadProfile, Refused, Blame
<1>2. WaitInv' BY <1>1 DEF WaitInv, Live
<1>3. CASE Toggle(c) \/ Reconnect(c)
  BY <1>2, <1>3 DEF Toggle, Reconnect, ReconnectTo, Begin, At, Free, Onward
<1>4. CASE Quit(c) \/ SwitchProfile(c, profile)
  BY <1>2, <1>4 DEF Quit, SwitchProfile, ReconnectTo, Begin, At, Free, Onward
<1>5. CASE Tapped(c) BY <1>2, <1>5 DEF Tapped, At, Free, Rank, Onward
<1>6. CASE ReadProfile(c) BY <1>2, <1>6 DEF ReadProfile, At, Free, Rank, Onward
<1>7. CASE Refused(c) BY <1>2, <1>7 DEF Refused, At, Free, Rank, Onward
<1>8. CASE Blame(c) BY <1>2, <1>8 DEF Blame, At, Free, Rank, Onward
<1> QED BY <1>2, <1>3, <1>4, <1>5, <1>6, <1>7, <1>8

LEMMA CallServiceOnward == ASSUME IInv, WaitInv, NEW c \in Calls, CallService(c)
                           PROVE  WaitInv' /\ Onward
<1> USE DEF IInv, TypeOK, AdapterTypeOK
<1>1. /\ ui[c] = "options" /\ At(c, "service") /\ UNCHANGED <<job, chosen, denied>>
      /\ pc'[c] \in {"exists", "cancel"}
      /\ \A d \in Calls : d # c => pc'[d] = pc[d] /\ action'[d] = action[d]
      /\ UNCHANGED <<waited, state>>
      /\ pc'[c] = "cancel" => action'[c] \in {"stop", "restart"}
  BY WhichCall DEF CallService, Start, Stop, Restart, Goto, os
<1>2. WaitInv' BY <1>1 DEF WaitInv, Live
<1>3. Rank(c)' < Rank(c) BY <1>1, RankFact DEF Rank, At
<1>4. \A d \in Calls : d # c => ui'[d] = ui[d] BY <1>1 DEF At
<1> QED BY <1>1, <1>2, <1>3, <1>4 DEF Onward

LEMMA ServeOnward == ASSUME IInv, WaitInv, NEW c \in Calls, Serve(c)
                     PROVE  WaitInv' /\ Onward
<1> USE DEF IInv, TypeOK
<1>1. WaitInv' BY WaitStep DEF Serve
<1>2. \A d \in Calls : d # c => ui'[d] = ui[d] BY DEF Serve, At
<1>3. Rank(c)' < Rank(c)
  <2>1. CASE pc'[c] # "idle"
    <3>1. ui[c] = "service" /\ ui'[c] = "service" BY <2>1 DEF Serve
    <3> QED BY <2>1, <3>1, CallOnward DEF Rank, Serve
  <2>2. CASE pc'[c] = "idle"
    <3>1. ui[c] = "service" /\ ui'[c] \in {"idle", "blame"} BY <2>2 DEF Serve, At
    <3>2. Rank(c)' \in {0, 1} BY <3>1, RankFact DEF Rank
    <3>3. Rank(c) = CallRank[pc[c]] BY <3>1 DEF Rank
    <3>4. pc[c] \in Awaits \ {"idle"} BY StepEffect DEF AdapterTypeOK, Serve, Idle
    <3>5. Rank(c) \in Nat /\ Rank(c) > 1 BY <3>3, <3>4, RankFact DEF Awaits
    <3> QED BY <3>2, <3>5
  <2> QED BY <2>1, <2>2
<1>4. /\ \A d \in Calls : d # c => pc'[d] = pc[d] /\ waited'[d] = waited[d]
      /\ \A p \in Cores : state[p] = "signalled" => state'[p] # "running"
      /\ UNCHANGED <<job, chosen>>
  BY CallOnward DEF Serve
<1> QED BY <1>1, <1>2, <1>3, <1>4 DEF Onward

LEMMA NextOnward == ASSUME IInv, WaitInv, [Next]_vars PROVE WaitInv' /\ [Onward]_vars
<1>1. ASSUME NEW c \in Calls,
             \/ Toggle(c) \/ Reconnect(c) \/ Quit(c)
             \/ Tapped(c) \/ ReadProfile(c) \/ Refused(c) \/ Blame(c)
             \/ \E profile \in Configs \cup {None} : SwitchProfile(c, profile)
      PROVE  WaitInv' /\ Onward
  <2>1. UNCHANGED adapterVars
    BY <1>1 DEF Toggle, Reconnect, Quit, Tapped, ReadProfile, Refused, Blame, SwitchProfile
  <2> QED BY <1>1, <2>1, OutsideOnward
<1>2. ASSUME NEW c \in Calls, CallService(c) \/ Serve(c) PROVE WaitInv' /\ Onward
  BY <1>2, CallServiceOnward, ServeOnward
<1>3. CASE ChangeTun
  BY <1>3 DEF ChangeTun, adapterVars, call, os, WaitInv, Live, Onward
<1>4. ASSUME NEW p \in Cores, CoreExits(p) PROVE WaitInv' /\ Onward
  BY <1>4 DEF CoreExits, Exit, call, notifier, WaitInv, Live, Onward, IInv, TypeOK, AdapterTypeOK
<1>5. CASE UNCHANGED vars
  BY <1>5 DEF vars, adapterVars, call, os, notifier, WaitInv, Live
<1> QED BY <1>1, <1>2, <1>3, <1>4, <1>5 DEF Next, Continue

LEMMA WaitInvariant == Spec => []WaitInv /\ [][Onward]_vars
<1>1. Init => WaitInv BY DEF Init, AdapterInit, WaitInv
<1>2. IInv /\ WaitInv /\ [Next]_vars => WaitInv' /\ [Onward]_vars BY NextOnward
<1> QED BY <1>1, <1>2, Invariant, PTL DEF Spec

\* No operation is stuck: it has a step, or awaits a process that was told to
\* end and that nobody can bring back.
THEOREM CallsGoOn == Spec => [](\A c \in Calls : Free(c) \/ CanContinue(c) \/ AwaitsExit(c))
<1>1. TypeOK /\ WaitInv => \A c \in Calls : Free(c) \/ CanContinue(c) \/ AwaitsExit(c)
  BY DEF TypeOK, Places, WaitInv, CanContinue, AwaitsExit, Exited, Free
<1> QED BY <1>1, TypeCorrect, WaitInvariant, PTL

\* No operation goes in circles or is thrown back by another, and a process
\* that was told to end is never running again.
THEOREM CallsAdvance == Spec => [][Onward]_vars
BY WaitInvariant, PTL
=============================================================================
