# FLClashWith in TLA+

FLClashWith is a proxy client: a Flutter app (`src/lib`), a Go core built on mihomo
(`src/clashcore`), and native shells for Android (`src/android`), iOS (`src/ios`) and the
desktops. This directory holds a verification project for it: TLA+ modules translated from the
source, TLC configurations that check them on small instances, and theorems checked by TLAPS.

Contents: 1 the system, 2 the modules, 3 what is checked, 4 fairness, 5 what is proved,
6 where code and documents disagree, 7 what is not modelled, 8 the plan, 9 how to run it.

## 1. The system

### Components, their state and their operations

| component | state | operations | hard behaviour |
|---|---|---|---|
| Core dispatcher, `clashcore/{action,hub,common}.go` | `currentConfig`, `isRunning`, the open listeners, the tunnel's configuration, the selection of a group, `runLock` | one per action: initClash, startListener, stopListener, shutdown, setupConfig, updateConfig, changeProxy, the providers, closeConnections, crash | each action has a goroutine; some handlers take no lock, some answer from a second goroutine |
| TUN bridge, `clashcore/lib_android.go` | `tunHandler` with its callback, listener and semaphore; the socket hooks; `runTime` | startTUN, stopTun, getRunTime; the hooks of every dial | hooks use a Java reference that stop releases; a mutex and a weighted semaphore |
| Profile store, `lib/features/profile` | rows of the database, a configuration file and a temporary file per profile | add by url or content, update, save, select, delete, cancel | chains of awaits over shared rows and files; a kill between two writes |
| Connection, `lib/features/connection`, window, button | the state shown, the active profile, `startedByUser` | toggle, reconnect, abort, quit | what was read before an await is used after it; taps overlap |
| Clash service, `lib/clash/clash_adapter_service.dart`, `simple_clash_core.dart` | the status stream, `_process`, config.yaml, operating system processes | start, stop, restart | no lock; a process that is slow to exit, or dies, or is missing |
| Android service, `android/.../bg/BoxService.kt` | status LiveData, `boxService`, `fileDescriptor`, `commandServer`, the receiver, `startedByUser` | onStartCommand, stopService, serviceReload, stopAndAlert | main thread, coroutines and the core's command thread; an exception at every step |
| Android network monitor, `android/.../bg/DefaultNetwork{Listener,Monitor}.kt`, `LocalResolver.kt` | the actor's listeners, network and pending requests; `defaultNetwork` | start, stop, get; the system's put, update, lost | an unbuffered channel; notices that come after a stop; an exception in the actor ends the process |
| Dart port bridge, `dart-bridge/`, `clashcore/lib.go`, the log of `hub.go` | the table of the Dart VM's functions, the message port, `logSubscriber` | initialise, attach, post; startLog, stopLog | a version that does not match; a port that is closed; a variable without a lock read by a goroutine |
| Desktop runners, `windows/runner`, `linux/` | a named mutex or bus name, windows, engines, the message loop | launch, hand over a link, show, hide, close | launches that race, and a first instance that is coming up or going down |
| Singbox services, `lib/singbox/service` | a native library's, outside the repository | the interface the Clash service implements too | differ in their status stream and in what validation does |
| Profile updater, `profiles_update_notifier.dart` | a scheduler, the time of the last run | tick, trigger | a run in progress against operations of the user |
| Panel orders and payment, `lib/features/panel/xboard` | the order chosen, dialogs, timers that poll | subscribe, cancel unpaid orders, order, pay, poll | requests that time out and are repeated, taps and polls that overlap |
| Panel account and subscription, `lib/features/panel/xboard` | token, base url, login state | login, register, logout, refresh the subscription | token expiry with requests under way |
| Converters, `config_converter.dart`, `panel_subscription_adapter.dart`, `link_parsers.dart`, `profile_parser.dart` | none | pure functions | formats with defaults, fallbacks and failures |
| Options, preferences, database migrations | key-value store, schema version | edit, import, migrate | a migration that fails half way |
| Geo assets, app update, logs, stats, proxies in the app | small tables, streams | download, select, poll | as for profiles, smaller |
| iOS VPN, channels, tile, shortcut | NEVPN status | start, stop, reload | status notifications out of step |

### How they interact

* The connection calls the service (start, stop, restart) through `ConnectionRepository` and
  listens to its status stream. The active profile, which the profile store's rows decide,
  triggers a reconnect. The window's quit aborts the connection with a timeout of two seconds.
* The profile store validates a download through the same service interface, which writes the
  profile's file as a side effect. The connection passes that file to the service when it starts.
* The Clash service writes config.yaml and starts a process; the process reads it once, at its start.
* On Android the app sends intents and broadcasts to the service and reads a copy of its status
  over a binder; the service owns the core, and the core calls back for the TUN descriptor.
  In the Go core, startTUN hands over a Java callback, and the dialer's hooks call into it.
* The Android service starts and stops the network monitor; the core's DNS asks it for the network.
* On the desktops the core answers actions and sends its log through one port of the Dart VM.
* A second launch of a desktop app hands its link to the window of the first.
* A purchase awaits the panel's server for each step and shows a dialog between two of them; a timer
  nobody holds asks for the order's status.

### What makes each correct

* Core: an open port is one that is wanted, and a wanted port is open; the tunnel runs the current
  configuration; an answer of success is true; every request is answered.
* TUN bridge: no call into a released callback, no second release, hooks exactly while there is a
  device, nothing left over, no deadlock between stops and hooks.
* Profile store: at most one active profile, a file for every row, no temporary file left, no
  deleted profile back, what is validated is what is stored.
* Connection and service: no core that stop cannot reach, nothing runs while the state shown says
  so, the core runs the active profile, the button always comes back.
* Android service: whole when it is started, clean when it is stopped, never stuck between the two.
* Network monitor: nobody waits for a network for ever, the one in use is the system's, and the
  actor does not die of a caller.
* Port bridge: no subscription is lost, no line is posted twice, the log flows, nothing is called that
  the VM does not have.
* Desktop runners: one instance; a launch has a window, reaches one, or ends.
* Purchase: nobody is asked to pay beside an order left unpaid; success is told of a paid order.

The hazards behind these properties are listed, each at its line, under `hazards` in
`PROJECT.json`, with the properties that cover them or the reason why none does.

## 2. The modules

| module | models | proofs |
|---|---|---|
| `CallbackLease` | abstract specification: a callback is granted once, borrowed while granted, and revoked once while nobody borrows it | |
| `TunHandler` | the TUN bridge | `TunHandlerProofs` |
| `CoreHub` | the dispatcher of the core | `CoreHubProofs` |
| `MessagePort` | the Dart port bridge and the log subscription of the core | `MessagePortProofs` |
| `ProfileStore` | the profile store | `ProfileStoreProofs` |
| `ClashAdapter` | the service and the core process | `ConnectionProofs` |
| `Connection` | the notifier, the repository, the window; EXTENDS `ClashAdapter`, whose calls it makes | `ConnectionProofs` |
| `BoxService` | the Android service | `BoxServiceProofs` |
| `NetworkMonitor` | the actor of the default network, the monitor, the resolver's queries | `BoxServiceProofs` |
| `DesktopRunner` | a launch of the program on Windows or Linux | `DesktopRunnerProofs` |
| `PanelPurchase` | buying a plan, from the tap to the end of the polling | `PanelPurchaseProofs` |
| `MCCoreHub`, `MCMessagePort`, `MCProfileStore`, `MCConnection` | symmetry sets and small tables for TLC | |

Every definition that stands for code is listed with its lines under `map` in `PROJECT.json`.
Definitions whose comment begins with "Mutant" are not part of any specification: each is a
plausible bug in the definition that follows it, kept to show that a property can fail.

**History variables.** Where a property holds only of calls that wait for each other, the model lets
them overlap all the same and remembers that they did: `overlapped` (TunHandler, MessagePort,
ProfileStore), `interfered` (BoxService), `stale` and `orphaned` (NetworkMonitor), `piled`
(PanelPurchase). One run then checks what holds always and what holds of patient callers. `witness`
(DesktopRunner) is the set of processes that have had a window ever since a launch began.

**TunHandler.** A start call, the handler it makes, its Java callback and its listener have one
name. `pc` has a step for every statement of `handleStartTun`, `handleStopTun` and `close` that
another goroutine can see. `tunLock` is the mutex; `limit[h]` the holders of the semaphore of
handler `h`; `ahead` the hooks queued before a waiting `close()`, because the weighted semaphore
serves its waiters in order. `configured` is whether `currentConfig` is nil, and `panicked` the
end of the process by a nil dereference.

**CoreHub.** `HandleAction` takes a request; `Lock` and `Unlock` are `runLock`; the rest are the
handlers, split where another goroutine can see the difference: a failed parse before the default
is parsed, the apply, the patch of the selection, the listeners. A configuration is its name, and
its port starts as that name; `updateConfig` may put another port there. Requests are well formed
except for a configuration that cannot be parsed, which the code handles. `isRunning` survives a
shutdown as it does in the code, so a later setup opens the ports again.

**ProfileStore.** An operation has a kind, a target, the entity it was called with (`base`), which
is as stale as in the code, and a place in its chain of awaits. A transaction is one step. `service`
says which implementation validates: the native one reads the temporary file and writes the
profile's file, `ClashAdapterService` reads the profile's file and writes the temporary one.
`Contains` is the LIKE query of `getByUrl`. `CancelAdd` disposes the notifier: the download ends,
a later step does not. `Kill` ends the app once; rows and files stay.

**ClashAdapter.** Each step runs from one await to the next. Events reach their listener in
microtasks, which run before the next I/O completes, so an event is received in the step that adds
it. A process reads config.yaml when it is spawned (`running[p]`). A signalled process exits when
it likes, and any process may exit by itself. A missing binary, a failed conversion and a missing
file are alternatives of their steps. `Serial` says that callers take turns and start only what
is down: it is the environment that the properties of a single call need, and `Connection` is
shown to be such an environment when it is steady.

**Connection.** An operation of the notifier has a job and a place: `tap` (haptics and preference),
`profile`, `options` (options and privilege), `service`, `blame` (the left branch that writes an
error to the state). `shown` is the notifier's state. `Serve` is a step of the adapter taken by the
operation of the same name. `Seeded` says that the status stream gives its listener the current
status; `Flaky` that the options or the privilege may fail; *steady* means `Serial` and not `Flaky`.

**BoxService.** Jobs are starts, stops and reloads; what a job opens has its name. `status` is the
LiveData, `pending` the value that `postValue` has left for the main thread, `posted` who has left
it (what the same job sends to the main thread later runs later). `"asked"` is the lag of the
copies of the status that callers test: a reload that was decided on a started service may begin
at any time after. `interfered` is a history variable: a reload met another job or a service that
was not started, or an exception ended a job beside another one. `alert` and `failed` are jobs
whose exception led to `stopAndAlert`, which closes nothing. From `"get"` to `"create"` a start is in
`DefaultNetworkMonitor.start`. From Android 6 on it reads the network there is; before (the app
supports 5), it asks the actor and, without a network, waits at `"network"` until a `Put`, which
may never come. `monitored` says whether the actor has a listener. Where another job has taken it
away the actor's check fails and the process dies (`GetUnheard`).

**NetworkMonitor.** The channel has no buffer: `channel` holds the messages whose senders are
suspended, in order, and a sender goes on when its message is received, before it has been handled.
`notices` is what the system has posted to the callback, whose thread waits for its send. A notice
says of which registration it is. The job starts or stops one service after another; a query may
outlive its core. The branches on the Android version are those of 23 and of what is older.

**DesktopRunner.** A process is a launch; its steps end at the calls into the operating system another
process could come between. `WM_DESTROY` is handled inside `DestroyWindow`. `errorKept` is what the
source cannot say: whether a `FindWindowA` that finds nothing leaves the last error of `CreateMutex`.
On Linux the bus gives the name of the application to one process, and the others ask it to
activate. A process may be killed anywhere.

**MessagePort.** A start call, its subscription and its goroutine have one name. `logSubscriber` is
tested, closed, cleared and assigned in separate steps, and the goroutine reads it when it begins to
range. The observable of the core is external: it hands an event to each buffer in turn and waits
where one is full. `pointers` is the function table: empty if the version differs, with holes if a
symbol is missing.

**PanelPurchase.** A flow is a tap of the subscribe button, which nothing disables. A request awaits a
reply; on a timeout or an error it is sent once more, and what was given up may be handled by the
server later. The server refuses as it likes. `dialogs` is the stack of payment dialogs; `tradeNo`
is the one field of the view model that flows share. Ticks of the monitor's timer begin polls,
which may overlap.

## 3. What is checked

TLC runs, all of them exhaustive:

| run | instance | properties | what it shows |
|---|---|---|---|
| `tun` | 2 starts, 2 stops, 2 hooks, 1 reader, 2 permits | NoUseAfterRelease, HookIffListening, NothingLeaked, CallsComplete, LeaseSpec | the callback is safe in every order, nothing stays behind, no deadlock, the bridge implements the lease |
| `hub` | any 3 of 14 actions, 2 configurations, 1 patch, 2 proxies | PortsFollow, TunnelRunsCurrent, SelectionAnswered, Answered | ports, tunnel and answers follow the configuration; every request is answered |
| `port` | 2 starts and 1 stop of the log, 1 port, 2 lines, buffers of 1, every VM of a small table | SubscriptionTracked, DeliveredOnce, BridgeSafe, LogFlows | the log arrives once, and nothing is called through an empty slot |
| `profiles` | 2 operations, 3 ids, 2 urls, either service | AtMostOneActive, RowHasFile, NoTempLeft, ActiveUnlessDeleted, NativeSaves, NoResurrection, NothingAdded | rows and files agree in every interleaving; only a deletion loses the active profile |
| `profiles_clash_saves` | the same, Clash validation | ValidatedIsSaved | violated: see 6 |
| `connection` | 2 operations, 2 processes, 1 profile, flaky | BusyOnlyInService, ButtonReturns | the button is disabled only while the service works, and comes back |
| `connection_steady` | 2 operations in turn, 2 processes, 2 profiles | NoOrphan, ShownDown, RunsActive, CleanExit, CallsAdapter | what is shown is what runs; implements the adapter's environment |
| `connection_clash` | 1 operation, unseeded stream | StatusKnown | violated: see 6 |
| `box` | 3 jobs | RunsWhole, NoOrphan, StoppedClean, Settles | whole, clean, and stuck between the two only for want of a network |
| `listener` | 2 networks, 1 query, versions 22 and 23, 3 changes, 2 services | ActorLives, Fresh, GetsAnswered | the actor dies only of a query that has outlived its core, the network in use is the system's, no query is forgotten |
| `desktop` | 3 launches, Windows and Linux | SingleInstance, RelaunchReaches, LaunchSettles | one instance, which a later launch reaches if it has been up all the time |
| `panel` | 2 taps, 3 orders, 2 polls | NothingLeftUnpaid, SuccessMeansPaid, FlowsEnd | the unpaid orders go first, success is told of a paid order, no flow waits for ever |

Type correctness is proved (section 5).

Why the bounds are enough. Every interesting case here takes two actors and what one of them left
behind. `tun`: a second start closes the first handler and a second stop closes the last one
again; two hooks fill two permits, so a close can wait behind one and before another. `hub`: three
requests are a configuration, a start and the one that interferes (an update, a shutdown, a second
setup); three is also what it takes for a shutdown to cut into a setup that follows a start.
`port`: a stop and a second start can each find the first subscription anywhere in its life, and a
second line finds the buffer full. `profiles`: every operation can run beside every other one, on one
profile or on two, with a third id for an addition; `Kill` happens once. `connection`: a tap can
overlap a tap, a switch or a quit, and each can have a process. `box`: a job, the one that meets
it, and one that finds what they left; a name is used again once nothing has it, so the history is
unbounded. `listener`: a service, its stop and the next one, over a network that comes, changes and
goes. `desktop`: an instance that goes down, one that comes up, and one that meets both. `panel`: two
flows with an order each and one that a repeated request has made; a poll that overlaps the next;
the bound on polls is the code's own (120) made small. Deadlock checking is off, because calls,
operations and names run out: the systems really stop when all has been done.

Properties restricted to callers that take turns, or to jobs that do not interfere, are so because
the code does not give them otherwise. Without the restriction TLC shows in a few steps that:

* two overlapping startTUN calls leave a device and a callback behind (`NothingLeaked`);
* overlapping updates can leave no profile active (`ActiveUnlessDeleted`), and an update can
  report success with another one's content stored (`ValidatedIsSaved`);
* two taps before the first event start two cores, of which stop reaches one (`NoOrphan`);
* a tap in the error state starts a core over one that runs (`ShownDown`);
* a profile that is switched while the service connects is ignored (`RunsActive`);
* a reload that races a stop brings up the core of a stopped service (`NoOrphan` in `box`);
* two overlapping starts of the log leave a subscription that no stop reaches (`SubscriptionTracked`);
* the start of the monitor may overwrite a newer network with the one it has read (`Fresh`);
* two polls under way tell of one payment twice (`SuccessMeansPaid`);
* if `FindWindowA` clears the last error, two launches become two instances (`SingleInstance`).

## 4. Fairness

Safety properties use no fairness. Liveness assumes weak fairness of each actor that something
schedules, and never that a user does anything or that a step succeeds:

* `CallsComplete`: each start, stop and hook goes on (the Go scheduler runs every goroutine; a
  callback into Java returns). No fairness between hooks and close is assumed: the queue of the
  semaphore, which the code uses, is in the model.
* `Answered`: each handler goes on. A mutex that is free is obtained by some waiter, and as
  requests are finite, in the end by each.
* `ButtonReturns`, `StatusKnown`: each operation goes on (the Dart event loop; futures of files,
  preferences and the platform complete), and a process that has been signalled exits. This last
  one is an assumption about the core: the code sends SIGTERM and waits without a timeout.
* `Settles`: each job and the main looper go on (Android's dispatchers and message queue). Starts,
  stops and reloads themselves are not fair, and neither is the network (`Put`): that no job waits
  for one for ever is the premise of the property. Without the premise it does not hold, as on
  Android 5 a start without a network shows Starting for as long as there is none, and cannot be
  stopped.
* `GetsAnswered`: while the process lives, the callback's thread, the actor, the job and the queries
  under way go on, and the system delivers what it has posted. Changes of the network are not fair.
* `LogFlows`: the handlers, the goroutines and the observable go on (the Go scheduler). Nothing is
  assumed of Dart.
* `LaunchSettles`: a process that has been launched goes on, up to its message loop, and leaves it on
  WM_QUIT or with its last window. Users and window_manager do as they like.
* `FlowsEnd`: the one event loop of the app goes on: some answer, timeout or tick that is due is
  handled. The server promises nothing, and the user need not close a dialog.

## 5. What is proved

Each `...Proofs` module proves its component for every value of the constants, under the
assumptions named in the component's module (`...Assumption`: disjoint names, of calls and log
lines too, a null that is no message, flags that are Booleans, a positive number of permits, a
LIKE query that matches a url with itself). Every safety invariant that a run checks is a theorem.
All have the same shape: an inductive invariant `IInv`, `Init => IInv`, one lemma per action for
`IInv /\ [Next]_vars => IInv'`, and `IInv => Property`, combined by PTL.

* **TunHandlerProofs** — type correctness, NoUseAfterRelease, HookIffListening, NothingLeaked; and
  four facts no run states: a callback is released once, a close excludes the hooks of its handler,
  nobody is deadlocked, and nobody goes in circles. `IInv` adds who is inside the mutex (`Mutex`), who holds permits of
  which handler (`Semaphore`), and the life of a callback (`Lifetime`): the properties alone are not
  inductive because nothing in them says that a hook inside a handler holds one of its permits.
  NothingLeaked needs `LeakInv`: while starts wait for each other, one that is past its stop finds
  no device and no callback when it builds its own, and an open device has the listener that will
  close it, so stops in between only take away. NoDeadlock holds of every state of `IInv`: whoever
  owns the mutex goes on or waits for permits, whoever has a permit waits for nothing, and a hook
  that gets none has one before it that has. It is
  what CallsComplete rests on besides fairness, with `CallsAdvance`: no call goes back, and while a
  close waits no hook joins those it waits for, so its waiting is bounded.
  `ImplementsLease` proves that every step is a step or a stutter of `CallbackLease`, with or
  without overlapping starts.
* **CoreHubProofs** — type correctness, TunnelRunsCurrent, SelectionAnswered, PortsFollow, and that only
  a request before the first configuration panics. `IInv` says which places are inside the critical
  section and, by the place of the lock's owner, what may lag behind what. `AnsweredOnce` (an answer
  is final) and `EndedIsAnswered` (a handler of a known method has answered when it ends) come
  from the places after an answer (`AnswerInv`); `NobodyIsStuck` says that who waits waits for the
  mutex, whose owner does not wait.
* **MessagePortProofs** — type correctness, SubscriptionTracked, BridgeSafe, DeliveredOnce. `IInv`
  says, by the place of a log call, how the variable and the source's subscriptions differ.
  `SourceNeverStuck`: while no calls overlap, a full buffer never holds up the source for good,
  because every subscription has the goroutine that reads it (`SubscriptionsRead`, from `ServedInv`)
  and that one has a step.
  DeliveredOnce needs `EventInv`, that while nothing overlaps a line is in one place: at one
  position of one buffer (`BufferInv`), in one goroutine's hand (`HandInv`), or received once
  (`ReceivedInv`). The step that could double it is the source's, which hands a line to every
  subscription, and there is one (`OneListener`).
* **ProfileStoreProofs** — type correctness and every safety property of the run: AtMostOneActive,
  RowHasFile, NoTempLeft, NoResurrection, ActiveUnlessDeleted, NativeSaves, NothingAdded, for both services.
  `IInv` adds that an addition's id has no row and no other operation (`FreshInv`), that what is about
  to be inserted has its file (`SavedInv`), and that a temporary file has an operation that will
  clean it up (`TempInv`). `ServiceInv` is relative to it: while nothing has overlapped one operation
  is under way (`SoloInv`), so its entity is as active as the row (`KeptInv`) and what the native side
  saved is what it wrote (`NativeInv`); with the Clash service an addition's file never
  appears (`ClashInv`), which contradicts `SavedInv` where the row would be inserted.
* **ConnectionProofs** — of the adapter: a switching status ends for all overlaps, NoOrphan and that a
  stopped core is down for callers that take turns. Of the connection: type correctness and
  BusyOnlyInService for all overlaps; `Implements`: a steady connection implements `AdapterSpec` (the
  identity refinement, whose content is that the connection calls in turns and starts only what is
  down), from which ShownDown follows; RunsActive and CleanExit, from what a start (`StartInv`), a
  settled connection (`RunInv`) and a closing window (`QuitInv`) know of the core.
  `CallsGoOn`, for all overlaps: an operation that has no step awaits the exit of a process that has its SIGTERM (`WaitInv`), so the assumption
  that such a process exits (section 4) is the only one ButtonReturns makes of the core.
* **BoxServiceProofs** — type correctness, RunsWhole, NoOrphan, StoppedClean, and that the setting read
  at boot follows the status. `IInv` holds nothing but types and kinds once jobs have interfered,
  and until then says that one job is at work, what its place means for what is open, and what
  the status and the posted value mean. NeverAbandoned has no such condition: however jobs interfere,
  a status of starting or stopping is followed by a job at work or by a posted value, because
  Starting is posted only by a reload that waits for it at its notification (`PostedInv`).
  `RequestsHeard`: unless jobs have interfered, the actor has a listener whenever a start asks it for a
  network or waits for one, so the process does not die of it and the first network is told.
  `JobsGoOn`: a job has a step, or waits for a posted value or for a network, and for nothing else.
  `StatusInOrder`, an action property: unless jobs have interfered the app is not shown a status that
  goes backward (started without starting, or a stop taken back by a value posted before it).
  The condition is needed: TLC reaches some of these steps where a reload or an alert meets
  another job.
* **BoxServiceProofs, second half: the network monitor**, which belongs to the service. The module
  extends both `BoxService` and `NetworkMonitor`, whose Init, Next, Spec and type invariant carry the
  prefix Monitor for that reason. It rests on NetworkMonitor's assumptions: the job is no query,
  null is neither a network nor a message, bounds and versions are numbers.
  Three invariants build on each other:
  * `LiveInv`, for ActorLives: a request in the channel is where its sender waits for it and the only
    one of its sender (`ChannelInv`), a request received or set aside is not in the channel any more
    (`RequestInv`), a job past its Start finds the monitor listening or the Start received (`ListenInv`), and
    a query that is no orphan has a core, which is closed before the Stop is sent (`CoreInv`). So a Get
    that finds nobody listening is an orphan's.
  * `HeldInv`, for RequestsKept: whoever waits has its request in the channel, in the actor's hands or
    set aside. It is the safety half of GetsAnswered, which leaves to fairness only that the actor
    goes on and a network comes.
  * `WayInv` and `FreshInv`, for Fresh: the notices received, on their way and posted form one sequence
    (`Pipe`), which the callback thread and the actor hand on without changing it, which grows where
    the system posts and shrinks where a notice is handled. `WayOK` says what it promises at every
    moment: those of an earlier registration come first and find no network to be lost, a network
    that is reported lost is the one the actor has by then, and the last change leads to the
    system's network. `ToldInv` says the same of what the resolver has been told. Once the sequence is
    empty this is Fresh.
* **DesktopRunnerProofs** — type correctness, SingleInstance, RelaunchReaches, and that an engine lives
  inside a window. `IInv` says that of two processes that hold the mutex one saw the other's, that only
  one that saw none makes a window (`MutexInv`), that only the owner of the name has windows on
  Linux (`OwnerInv`), and that a witness is the process a forwarded launch has found (`WitnessInv`).
  `LaunchesGoOn`: a process that has not settled has a step that nobody else need make possible, because on Windows
  one in its loop quits on close, and has WM_QUIT in its queue once its window has gone (`QuitInv`).
* **PanelPurchaseProofs** — type correctness, NothingLeftUnpaid, SuccessMeansPaid. `IInv` says that the
  server numbers its orders (`MadeInv`), that what a flow found unpaid is settled or left to cancel
  (`CancelInv`), that a dialog waits for its flow's choice (`DialogInv`), and that a success told is of a
  paid order, beside which a poll still under way has piled up (`MonitorInv`).
  `FlowsAdvance`: no answer, timeout or tick throws a purchase back, and each that is handled takes its own nearer to its
  end: to a later place, or with fewer orders to cancel, its first attempt used up, or less of the
  monitor's time left.

Only model-checked: all liveness (CallsComplete, Answered, LogFlows, ButtonReturns, StatusKnown, Settles,
GetsAnswered, LaunchSettles, FlowsEnd), which needs fairness and ENABLED, out of the prover's reach.
What is proved is the part of it that is safety, for every number of actors:

| Liveness checked by TLC | Nobody is stuck | Nobody goes in circles |
|---|---|---|
| CallsComplete (TunHandler) | NobodyDeadlocked | CallsAdvance |
| Answered (CoreHub) | NobodyIsStuck | HandlersAdvance |
| ButtonReturns (Connection) | CallsGoOn | CallsAdvance |
| Settles (BoxService) | JobsGoOn, NeverAbandoned | JobsAdvance |
| GetsAnswered (NetworkMonitor) | RequestsKept | |
| LogFlows (MessagePort) | SourceNeverStuck | |
| LaunchSettles (DesktopRunner) | LaunchesGoOn | LaunchesAdvance |
| FlowsEnd (PanelPurchase) | | FlowsAdvance |

A theorem of the second column says that an actor that has not ended has a step, or whom it waits
for and that this one has; a predicate (`CanHandle`, `CanRun`, `CanContinue`, `CanRead`, `CanProceed`)
states when an action is enabled in terms of the state, as ENABLED cannot be cited in a proof; TLC
found each of them equivalent to ENABLED, for an actor that has begun, in all reachable states of
its run's instance. One of the
third column says that every step leaves an actor where it is or takes it to a place of lower rank;
`HandlersAdvance` and `FlowsAdvance` also say of which actor's step it is that the rank falls. The empty places: an actor that serves one message after another has no end to come
nearer to, and that a purchase under way has a timeout or a tick due is plain.

ValidatedIsSaved, which the code violates, is refuted by its run; NativeSaves is what holds of it,
and is proved.
No module uses RECURSIVE operators, and no theorem needs induction over data.

## 6. Where code and documents disagree

* `profiles_clash_saves`: the service interface says that validation saves the validated
  configuration in `path` and reads `tempPath`; `ClashAdapterService.validateConfigByPath` has them
  the other way round. An update succeeds without its content being read, and no profile can be
  added (`NothingAdded` in `profiles`).
* `connection_clash`: INTEGRATION_STATUS.md says that the adapter is fully compatible with the
  service's interface; its status stream has no first event, so the connection stays loading
  and no tap does anything.

One more is in the models without a run of its own: a comment in `simple_clash_core.dart` says that a
basic HTTP proxy is simulated where there is no core binary; the code returns, and the service
reports started (`FindBinary` in `ClashAdapter` ends so).

## 7. What is not modelled

`PROJECT.json` lists every component with its status and the reason. In short: generated code and
vendored headers; widgets, routes, themes, translations; logging, analytics and notifications;
everything behind an external interface (libbox, mihomo, the database,
the secure storage), of which the models have what the code relies on. The C of the repository is for
the most part the vendored headers of the Dart VM (`dart_api.h`, `dart_tools_api.h`): five thousand
lines of declarations without behaviour, of which the models have the types and functions the
bridge uses. In the modelled parts:

* CoreHub: delay tests, geo updates, traffic, the transports; the content of providers and
  configurations beyond port, group and name; `quickStart`, which sends two answers where its setup
  fails (`lib_android.go:218`), and actions of the platforms.
* TunHandler: VPN options and DNS; what a hook asks Java. The race of `getRunTime` is in the model, and
  ends it: nothing promises that it does not happen.
* MessagePort: the entry points of the C libraries of Android, which answer by value.
* ProfileStore: the fields of a row other than url and activity; the order of the list; the scheduler
  of updates, whose single updates are operations here. The deletion of an earlier "Hiddify WARP"
  that `AddProfile.add` begins and does not await (`profile_notifier.dart:83`) is a `BeginDelete` beside the
  addition, and counts as an overlap.
* ClashAdapter: the log, stats and group streams, which the code gives fixed values.
* Connection: haptics and the review prompt; the content of the options.
* BoxService: proxy mode, the notification, the power state. The app stays bound to the service, so
  there is one instance of it. Of the monitor `BoxService` has the wait for a network and the check
  that fails without a listener; `NetworkMonitor` has its channel and its notices, for jobs that do
  not meet. The receiver's SERVICE_RELOAD (`BoxService.kt:122`) is left out, as nothing in the
  repository sends it.
* NetworkMonitor: the interface's name and index that are told to the core; the answers of DNS.
* DesktopRunner: geometry, themes, the scaling of the display.
* PanelPurchase: the rules of the server; the session itself (every caller of the expiry handler passes
  no ref, so the app goes on as signed in without credentials, and a late error deletes those of a
  new login); a payment from the balance whose answer is lost, which nobody is told of; what a
  closed dialog does with `onPaymentSuccess`.

## 8. The plan

Done, in order of importance: the connection and its service, the Android service, the TUN bridge,
the core's dispatcher, the profile store; then the network monitor, the log and its port, the desktop
runners, the purchase. Next:

1. `PanelSession`: token storage, login, expiry and logout against requests under way, with the
   constructor of the login state and the start of the app, which both read the storage.
   Properties: a request after logout carries no token; a late error does not end a new session.
2. `ProfileUpdater`: the scheduler, its stored time and its forced run over `ProfileStore`;
   property: a profile that is due is updated in the end, which the `finally` branch endangers.
3. `VPNManager`: the iOS manager and tunnel provider with reload, in the manner of `BoxService`.
4. Converters as functions on abstract proxies and rules: `ConfigConverter`, `PanelSubscription`,
   `LinkParser`, `ProfileParser`, checked in one run against what a conversion must keep (every
   proxy that is kept has a name that is unique, groups name only proxies that exist).
5. `Preferences`: migrations as steps with a failure in each; `ConfigOptions`: edit, import, reset.
6. Compositions: `Connection` with `ProfileStore` (the profile that is active, its file, and the core
   that runs it), `BoxService` with `NetworkMonitor`, whose jobs may then meet.

Abstract specifications worth stating: a *session* (nothing authorised after logout) for 1, a
*switch* (up, down, and moving between them) that both `BoxService` and `VPNManager` implement, of
which `StatusInOrder` is the safety part for `BoxService`, and a *mailbox* (each request is answered
once) that `NetworkMonitor` implements, to be proved from `Kept`.

## 9. How to run it

    tlc -workers 2 -config MCCoreHub.cfg MCCoreHub
    tlc -workers 2 -config DesktopRunner.cfg DesktopRunner
    tlapm TunHandlerProofs.tla

Each run's module and configuration are under `runs` in `PROJECT.json`. The long ones are `hub`,
`profiles`, `box` and `panel`, one to three minutes each.
