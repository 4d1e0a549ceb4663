----------------------------- MODULE Connection -----------------------------
(***************************************************************************)
(* ConnectionNotifier and ConnectionRepositoryImpl over ClashAdapter: what *)
(* the connection button, the tray, the active profile, the options and    *)
(* closing the window do with the service.  An operation reads the state   *)
(* shown, awaits the haptic motor, the preferences, the profile and the    *)
(* options, and only then calls the service, whose call has its name.      *)
(*                                                                         *)
(* The notifier shows AsyncLoading until the status stream has an event.   *)
(* Seeded says that the stream gives its listener the current status, as   *)
(* FFISingboxService and PlatformSingboxService do; ClashAdapterService    *)
(* has a broadcast stream that does not.                                   *)
(***************************************************************************)
EXTENDS ClashAdapter

CONSTANTS Seeded, \* does a listener get the current status?
          Flaky   \* can reading the options, or the privilege check, fail?

ASSUME FlagsAssumption == Seeded \in BOOLEAN /\ Flaky \in BOOLEAN

VARIABLES shown,   \* ConnectionNotifier.state: loading, error or a status
          ui,      \* ui[c]: where operation c is
          job,     \* job[c]: connect, retry (from an error), disconnect, reconnect
          chosen,  \* chosen[c]: the profile it connects to
          active,  \* the profile the active profile provider holds, or None
          startedByUser, \* the preference
          denied,  \* is TUN mode on without the privilege for it?
          quitting \* the operation that closes the window, or None

notifier == <<shown, ui, job, chosen, active, startedByUser, denied, quitting>>
vars == <<adapterVars, notifier>>

Jobs == {"connect", "retry", "disconnect", "reconnect"}
Places == {"idle", "tap", "profile", "options", "service", "blame"}

TypeOK == /\ AdapterTypeOK
          /\ shown \in Statuses \cup {"loading", "error"}
          /\ ui \in [Calls -> Places]
          /\ job \in [Calls -> Jobs]
          /\ chosen \in [Calls -> Configs \cup {None}]
          /\ active \in Configs \cup {None}
          /\ startedByUser \in BOOLEAN
          /\ denied \in BOOLEAN
          /\ quitting \in Calls \cup {None}

Init == /\ AdapterInit
        /\ shown = IF Seeded THEN "stopped" ELSE "loading"
        /\ ui = [c \in Calls |-> "idle"]
        /\ job = [c \in Calls |-> "disconnect"]
        /\ chosen = [c \in Calls |-> None]
        /\ active \in Configs \cup {None}
        /\ startedByUser = FALSE
        /\ denied = FALSE
        /\ quitting = None

Free(c) == ui[c] = "idle"
AllFree == \A c \in Calls : Free(c)
MayBegin == quitting = None /\ (Serial => AllFree)
At(c, place) == ui' = [ui EXCEPT ![c] = place]
Begin(c, j, place) == /\ MayBegin /\ Free(c)
                      /\ job' = [job EXCEPT ![c] = j]
                      /\ At(c, place)
Shows(value) == shown' = value

-----------------------------------------------------------------------------
(* The operations of the notifier.                                         *)

\* Mutant: the tap connects whatever is shown.
ToggleConnects(c) == /\ shown # "loading" /\ Begin(c, "connect", "tap")
                     /\ UNCHANGED <<adapterVars, shown, chosen, active, startedByUser,
                                    denied, quitting>>

\* toggleConnection, from the button or the tray; while the status is
\* switching or unknown it does nothing.
Toggle(c) == /\ \/ shown = "error" /\ Begin(c, "retry", "tap")
                \/ shown \in {"stopped", "failed"} /\ Begin(c, "connect", "tap")
                \/ shown = "started" /\ Begin(c, "disconnect", "tap")
             /\ UNCHANGED <<adapterVars, shown, chosen, active, startedByUser, denied, quitting>>

\* The haptic feedback and the preference come first; a retry from an error
\* leaves the preference alone.
Tapped(c) == /\ ui[c] = "tap"
             /\ At(c, IF job[c] = "disconnect" THEN "options" ELSE "profile")
             /\ startedByUser' = CASE job[c] = "connect" -> TRUE
                                   [] job[c] = "disconnect" -> FALSE
                                   [] OTHER -> startedByUser
             /\ UNCHANGED <<adapterVars, shown, job, chosen, active, denied, quitting>>

ReadProfile(c) == /\ ui[c] = "profile"
                  /\ IF active = None
                     THEN At(c, "idle") /\ UNCHANGED chosen
                     ELSE At(c, "options") /\ chosen' = [chosen EXCEPT ![c] = active]
                  /\ UNCHANGED <<adapterVars, shown, job, active, startedByUser, denied,
                                 quitting>>

\* reconnect(profile), which does nothing unless the state shown is Connected.
ReconnectTo(c, profile) ==
    IF profile = None
    THEN /\ Begin(c, "disconnect", "options")
         /\ UNCHANGED <<startedByUser, chosen>>
    ELSE /\ Begin(c, "reconnect", "options")
         /\ startedByUser' = TRUE
         /\ chosen' = [chosen EXCEPT ![c] = profile]

\* The options changed, the subscription of the active profile was updated,
\* or the user asked: all reconnect to the active profile.
Reconnect(c) == /\ shown = "started"
                /\ ReconnectTo(c, active)
                /\ UNCHANGED <<adapterVars, shown, active, denied, quitting>>

\* Mutant: nobody listens to the active profile.
SwitchOnly(c, profile) == /\ MayBegin /\ profile # active
                          /\ active' = profile
                          /\ UNCHANGED <<adapterVars, shown, ui, job, chosen, startedByUser,
                                         denied, quitting>>

\* Another profile becomes active; the listener of the notifier ignores the
\* first one.
SwitchProfile(c, profile) ==
    /\ MayBegin /\ profile # active
    /\ active' = profile
    /\ IF active # None /\ shown = "started"
       THEN ReconnectTo(c, profile)
       ELSE UNCHANGED <<ui, job, chosen, startedByUser>>
    /\ UNCHANGED <<adapterVars, shown, denied, quitting>>

\* Mutant: closing the window aborts only what is starting.
QuitStarting(c) == /\ MayBegin /\ Free(c)
                   /\ quitting' = c
                   /\ IF shown = "starting"
                      THEN Begin(c, "disconnect", "options")
                      ELSE UNCHANGED <<ui, job>>
                   /\ UNCHANGED <<adapterVars, shown, chosen, active, startedByUser, denied>>

\* Closing the window aborts the connection, then ends the app.
Quit(c) == /\ MayBegin /\ Free(c)
           /\ quitting' = c
           /\ IF shown \in {"started", "starting"}
              THEN Begin(c, "disconnect", "options")
              ELSE UNCHANGED <<ui, job>>
           /\ UNCHANGED <<adapterVars, shown, chosen, active, startedByUser, denied>>

\* TUN mode is switched on without the privilege, or that is over.
ChangeTun == /\ Flaky /\ MayBegin
             /\ denied' = ~denied
             /\ UNCHANGED <<adapterVars, shown, ui, job, chosen, active,
                             startedByUser, quitting>>

-----------------------------------------------------------------------------
(* The repository's connect, disconnect and reconnect.                     *)

\* getConfigOption, and except for reconnect the check of the privilege, and
\* for connect the setup.  A failed connect withdraws the preference first.
Refused(c) == /\ ui[c] = "options" /\ Flaky
              /\ IF job[c] \in {"connect", "retry"}
                 THEN At(c, "blame") /\ startedByUser' = FALSE /\ UNCHANGED shown
                 ELSE At(c, "idle") /\ Shows("error") /\ UNCHANGED startedByUser
              /\ UNCHANGED <<adapterVars, job, chosen, active, denied, quitting>>

\* The service's call begins, and its first event is shown.
CallService(c) == /\ ui[c] = "options"
                  /\ denied => job[c] = "reconnect"
                  /\ CASE job[c] = "disconnect" -> Stop(c)
                       [] job[c] = "reconnect" -> Restart(c, chosen[c])
                       [] OTHER -> Start(c, chosen[c])
                  /\ Shows(status') /\ At(c, "service")
                  /\ UNCHANGED <<job, chosen, active, startedByUser, denied, quitting>>

\* A step of the call.  Those that end it, and the one that goes from the
\* stopping to the starting half of a restart, add an event; a call that
\* returns an error leaves it to be shown.
Serve(c) == /\ ui[c] = "service"
            /\ Step(c)
            /\ IF pc'[c] = "idle" \/ pc[c] = "pause" THEN Shows(status') ELSE UNCHANGED shown
            /\ IF pc'[c] # "idle"
               THEN UNCHANGED <<ui, startedByUser>>
               ELSE IF status' = "failed"
               THEN At(c, "blame") /\ startedByUser' = FALSE
               ELSE At(c, "idle") /\ UNCHANGED startedByUser
            /\ UNCHANGED <<job, chosen, active, denied, quitting>>

\* state = AsyncError, after the failure's own event.  For a reconnect both
\* happen in one run of the microtasks, and either may be the later.
Blame(c) == /\ ui[c] = "blame"
            /\ \/ Shows("error")
               \/ job[c] = "reconnect" /\ UNCHANGED shown
            /\ At(c, "idle")
            /\ UNCHANGED <<adapterVars, job, chosen, active, startedByUser, denied, quitting>>

CoreExits(p) == Exit(p) /\ UNCHANGED notifier

-----------------------------------------------------------------------------
Continue(c) == \/ Tapped(c) \/ ReadProfile(c) \/ Refused(c)
               \/ CallService(c) \/ Serve(c) \/ Blame(c)

Next == \/ \E c \in Calls : \/ Toggle(c) \/ Reconnect(c) \/ Quit(c) \/ Continue(c)
                            \/ \E profile \in Configs \cup {None} : SwitchProfile(c, profile)
        \/ ChangeTun
        \/ \E p \in Cores : CoreExits(p)

Spec == Init /\ [][Next]_vars

\* The event loop completes every await, and a core obeys SIGTERM.
Fairness == /\ \A c \in Calls : WF_vars(Continue(c))
            /\ \A p \in Cores : WF_vars(state[p] = "signalled" /\ CoreExits(p))
FairSpec == Spec /\ Fairness

-----------------------------------------------------------------------------
\* One operation at a time, with options that can be read: what a patient
\* user of a healthy system does.
Steady == Serial /\ ~Flaky

\* The button is disabled and toggleConnection does nothing while the status
\* shown is switching, so that status is shown only while a call of the
\* service is under way that will replace it, however operations overlap.
BusyOnlyInService == shown \in Switching => \E c \in Calls : ui[c] = "service"

\* Whatever the user does, the button is enabled again.
ButtonReturns == []<>(shown \notin Switching)

\* In a steady app nothing runs while the state shown invites to connect.
ShownDown == Steady /\ shown \in {"stopped", "failed", "error"} => Live = {}

\* In a steady app the core that runs when no operation is under way runs the
\* active profile, whichever profiles were switched to before.
RunsActive == Steady /\ AllFree /\ shown = "started"
                  => \A p \in Live : running[p] = active

\* In a steady app nothing runs on once the abort of a closing window is over.
CleanExit == Steady /\ quitting # None /\ AllFree => Live = {}

\* The connection is the adapter, called as the adapter's promises need it.
CallsAdapter == AdapterSpec

\* Unless the app is closed first, the state of the connection becomes known
\* (INTEGRATION_STATUS.md:38 calls the adapter fully compatible with the
\* SingboxService interface, and :69 the status listening normal).
StatusKnown == <>(shown # "loading" \/ quitting # None)
=============================================================================
