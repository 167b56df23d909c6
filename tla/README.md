# surfswarm in TLA+

surfswarm loads a network from many agents at once and charts what they report.
A server (`cmd/server`, `internal/server`) starts and stops tests over one
websocket per agent; an agent (`cmd/agent`) runs a test's traffic engine
(`internal/engine`) and sends reports back. The control connection rides on the
network being loaded, so it is expected to break while a test runs. This
directory models that control plane, the figures the server makes of the reports,
the pages that follow it, the engine, the URL lists and the installation of the agent,
checks them with TLC, and proves with TLAPS every safety property that TLC checks.

## Inventory

| Component | Source | State | Operations | What makes it correct |
|---|---|---|---|---|
| Test manager | `internal/server/tests.go` | tests, order, current; per test its status, agents, Done flags, stop time | Start, Stop, OnProgress, OnDone, OnPresence, a tickLoop per test | one active test; every test closes and stays closed; Done means the agent's part is over |
| Figures of a test | `tests.go` | Latest, AgentHistory, AgentErrors, History, Totals, Events | OnProgress, OnDone, computeTick, noteWifi | the last report is the newest; totals agree with it; caps hold |
| Hub | `internal/server/hub.go`, `handleAgent` in `server.go` | one entry per agent, one AgentConn per connection | Register, Unregister, Send, Close, writeLoop | an online agent has a living handler; replaced connections end; outages are noted |
| Agent test control | `cmd/agent/agent.go` | testID, testCancel | startTest, stopTest, the engine's goroutine | a stop reaches whatever runs; one test at a time loads the network |
| Outbox and session | `cmd/agent/agent.go` | queue of frames, wake token | push, pop, unpop, the writer, runForever | bounded, ordered, no lost wakeup, drains when connected |
| Engine | `internal/engine/engine.go` | counters, windows, error classes, slots | worker, pacedWorker, dispatch, fetch, record, snapshot, Run | reports add up; the final report comes after the last request |
| List store | `internal/server/lists.go` | texts, files, check jobs | Save, Reset, StartCheck, runCheck | memory and files agree; one check per list |
| UI subscribers | `internal/server/events.go` | set of tabs, a bounded queue each | add, remove, Broadcast, handleEvents | a slow tab is dropped, never waited for |
| HTTP API, UI password | `internal/server/server.go` | a session token | routing | stateless |
| Wi-Fi telemetry | `internal/wifi` | none | Current and its parsers | parsing |
| Installation | `cmd/agent/main.go` | the executable, the configuration, the registered service, the agent it runs | install, uninstall, start, stop, restart | a registered service finds whole files; a run without failures repairs what others left; one agent per device |
| Agent configuration, identity | `cmd/agent/main.go` | flags, environment, the id file | read once at the start | |
| Programs, scripts, pages | `cmd/server`, `cmd/urlcheck`, `build.sh`, `scripts`, `static` | none | | |

How they interact. An HTTP request calls `TestManager.Start`, which asks the hub
who is online, sends `start_test` through `Hub.Send` to each agent's connection,
and then publishes the test. Each connection is served by a goroutine that
registers it with the hub, hands reports to the manager and unregisters it at
the end; the hub tells the manager about both (`OnPresence`). On the agent a
reader goroutine handles frames one at a time, each engine has a goroutine of its
own, and both push frames to the outbox, which the writer goroutine of the current
session empties. `tickLoop` adds up the reports and closes the test. Changes of the
hub are broadcast to the browser tabs, each of which has a queue and a writer. The
service manager of the device starts the agent that `install` registered.

What is hard here: critical sections that are left and entered again (`Start`,
`Stop`, `startTest`), callbacks made outside the lock, connections whose two ends
notice a break at different times, frames that are lost without an error, engines
that wind down beside their successors, retries (`unpop`, repeated stops,
reconnects), deadlines racing late reports, logs and queues at their caps, and files and
services left half replaced. The hazards in `PROJECT.json`
list each at its line.

## Modules

| Module | Models | Built from |
|---|---|---|
| `SwarmBase` | the agents and the ids of tests | |
| `TestManager` | Start, Stop, the reports that set Done, ticks and the clock | `SwarmBase` |
| `AgentTest` | an agent's handle, startTest, stopTest, engines, crashes | `SwarmBase` |
| `Hub` | Register, Unregister and the handlers of connections | `SwarmBase` |
| `Presence` | the presence callbacks and the events they leave | `Hub` |
| `Tabs` | a browser tab: subscription, snapshot, queue, writer; the broadcasts | `Presence` |
| `Figures` | what the manager makes of reports: latest, history, errors, link events, totals | `TestManager` |
| `Swarm` | everything above over connections | `TestManager`, `AgentTest`, `Hub` |
| `Outbox` | the outbox, its writer and its signal | |
| `LossyQueue` | what the outbox promises, as an abstract specification | |
| `Engine` | one run of the traffic engine: workers, dispatcher, counters, snapshots | |
| `ListStore` | Save, Reset and the checks of URL lists, files and restarts | |
| `Install` | install, uninstall, start, stop, restart, the files and the service manager | |
| `MC*` | the instances TLC checks | |
| `TestManager_proofs`, `Figures_proofs`, `Tabs_proofs` (with `Presence`), `Outbox_proofs`, `Engine_proofs`, `ListStore_proofs`, `Install_proofs`, `Swarm_proofs` (with `AgentTest` and `Hub`) | theorems and proofs | the module they are named for |

Definitions named "X, if ..." in their comment (`TickClosesFirst` beside
`Tick`, for one) are variants of X with a mistake in them. No specification
uses them; each shows that a property would notice the mistake.

### TestManager

`status`, `members`, `arDone`, `current` and `stopRequested` are the fields of
`Test` and `TestManager` that decide a test's life. A call of `Start` is
`StartCheck` (lines 179-184), then `StartReject` or `StartPrepare` (186-265), one
`StartSend` for each agent, and `StartPublish` (273-285): `tm.mu` is free in
between. A call of `Stop` is `StopMark` and one `StopSend` for each agent.
`OnProgress` is the report that has Done set, `OnDone` is test_done. `TickFinish`
is the tick that closes a test. Time is what a tick compares it with: `overdue`
(the duration and 90 s have passed) and `stopRequested` (never, recent, old).
Alone, the manager sees any online agents, any result of Send and any report.

### AgentTest

`testID` and `testCancel` are the agent's fields; the cancel function is the test
it cancels. `HandleStart` is `handle` and `startTest` up to the call of
`stopTest`, `InstallTest` the rest: the reader holds `a.mu` in neither the gap nor
around both. An engine is running, has reported, has exited, or was killed by a
crash. A context that is cancelled is in `cancelled`; the engine notices later.

### Hub and Presence

A connection's handler waits for hello ("none"), reads, or is gone. `Register`
and `Unregister` are the code's critical sections with the Close that follows;
`WriteFails` is `writeLoop` closing a connection under its reader. `Presence`
adds the callbacks, which run after the lock is released: `joining` and `leaving`
hold the connections whose callback is due, and a handler makes its own one after
the other. `events` is the agent's list of events in the current test, which
`addEvent` caps at 200 (`maxEvents`) and which the link's events (`LinkNoted`) share, so
that they may push an outage out. Tests follow one another (`TestOver`, `TestPublished`).

### Tabs

`tab` is where `handleEvents` is: its queue subscribed, its snapshot taken, the
snapshot sent, then waiting for the tab to go. One tab is open at a time; another
may open when it has gone, and tests come and go meanwhile. `queue` is `uiConn.send` with the frame
the writer holds in front, `shut` says that `close` has run (by the writer, after a
write that failed or timed out, or by `remove`). A list of agents is the number of the
last change it shows (`version`). After its presence callback a handler lists the agents
and broadcasts the list under two different locks (`due`, `listed`), so lists may
be broadcast in another order than they were taken. `SendSnapshot` is the
blocking send of the code and can wait for ever (`Stuck`); `Broadcast` never waits.
Progress broadcasts of a test only compete for the queue's room, which `dropped` notes.

### Figures

Extends the manager: `Take` is `OnProgress` or `OnDone` with what it does to the
agent's result, in the code's order (`noteWifi` before `Latest` is replaced, errors, then
history). Reports are numbered; a connection brings those of an agent in order or loses
them, and replaced connections may hold any number of them back and bring them late, in
any order (`held`). `Tick` is
the whole of a tick of `tickLoop`: totals first, then the close. Totals are kept as
requests; bytes and errors are summed by the same loop. A report brings any number
of failed requests, often none, each named for its report and its place. The link's
events (`LinkEvents`) and the connection's (`OnPresence`) go through `AddEvents` into one list
with one cap, as in the code. `passed`, `failed` and `noted` are history variables: what
the manager took, which failures that brought, and every event, in order. The error
log and the events are the newest of the last two. `NewestOf` says the same of the history,
which is for `Advances` (running reports newer than any before them).

### Swarm

Composes the three and adds the connections: `dialled` and `session` are the
agent's end, `hubConn` and `handler` the server's, `up` and `down` what is on the
way, `outbox` the final reports not written yet. `Hub.Send` returns false only
without a connection, on one closed by the server, or when the queue is full
(`CanSend`); true is no promise. A hang-up loses what is on the way down, a drop
what is on the way up, and a write into a connection that the server has left
succeeds and is lost. Hellos may be read out of order, and a replaced handler goes
on reading what its connection still holds.

Abstractions: the final report and test_done are one entry of the outbox, since
either sets Done; other reports, heartbeats and pings change nothing kept here;
the server's send queue and the socket behind it are one bounded sequence; ids are
never reused; a frame the reader handles just after its session has ended counts as
read just before; and a request names each agent once. `Start` does not check the last
(tests.go:197-214): to an agent that a request names twice it sends two starts, and
`Stop` two stops. The agent ignores the second start while the test runs (agent.go:276,
which `HandleStart` has); one that came after the end of the test would run it again, and
one that could not be sent would mark an agent Done that runs. `StartPrepare` says that it takes requests
without repeats, and what is said of `Swarm` and `Figures` is said of those.

### Outbox and LossyQueue

Frames are numbered in the order of their pushes. `push` is two steps (append
under the lock, signal after it), `flush` is `Pop` and `WriteSucceeds` or
`WriteFails` until `FlushReturns`. The connection may break at any time
(`LinkBreaks`); a write succeeds or fails on it until the session ends. What had been
sent by then is not gone: each connection has its own `wires` and its own handler at
the server (`Server`), which goes on reading after the agent has dialled again, until it
reads an error or is closed. So frames of two connections may arrive in any order, and
`InOrder` does not say otherwise: it says that no connection brings a frame that an earlier
one was given, or is older than one it was given.
`LossyQueue` promises the same in the abstract. It has a lane for each connection; it pushes
at the end of the last, delivers from the front of any, may lose any frames, and takes what
has not been sent over to the next lane. `Outbox` implements it with the wire of
the present connection, the writer's hand and the outbox in a row as the last lane.
Two writers at once are assumed absent: a session's
connection is closed before `runForever` waits a second and dials again, and a
writer on a closed connection returns at its next write.

### Engine

`requests`, `errors`, `bytes`, `winBytes` and `skipped` are the engine's atomic
counters, `window` what `e.mu` guards (`winReqs`, how many `pendingErrs`, the sum of
`errClasses`), `slots` how much the channel `sched` holds. A worker's `pc` follows
`fetch`, `countingReader.Read` and `record`; `cause` is how its fetch ended. Each
atomic operation and each critical section is a step, in `record` (requests, errors,
window) as in `snapshot` (window, winBytes, then the totals in the order of the
literal). `over` says that the workers' context is done, by the test's
duration or by a cancel; how much time is left is not kept, so the limiter may refuse a
wait at any time (a test without a duration is one in which it never does). A chunk
is one read of a body. The paced worker's select may take a slot although the test is
over, as in the code; the fetch that follows is forgotten unless its URL is no good. The channel
holds as many slots as there are workers, so slots that come due while all are busy wait
in it and a burst of them may start when workers come back (`engine_slots`).

Abstractions: think time and stagger are waits of any length, durations,
percentiles and the number of active workers are left out, and the error classes
are summed. The stall timer is one of the reasons for a failure.

### ListStore

`texts`, `files` and `checks` are the store's maps and its directory, `jobs` the
checks this process has started, listed or not. A Save under `WriteFile` is
`saving`; it holds `s.mu`, so nothing else happens to the store but the end of the
process. A file whose write broke off is "short", whatever it then holds. `Loaded`
is what `NewListStore` makes of the files and the shipped lists. A job carries its
`runCheck`: `sem` and `wg` are the channel of places and the WaitGroup, and `fetching`,
`recorded` and `released` say how many of its goroutines are at each of their three
steps (the fetch with its result, the place given back, the WaitGroup told). Names and texts
that `Save` rejects leave no trace and are not modelled.

### Install

Every step of `install` and `uninstall` that can fail is an action with its failure, in the
order of the code: the status of the old service, stop (error ignored), remove, copy to
`.tmp`, rename, configuration cut and written, register, start. A run may be interrupted
between any two, and the device may reboot. `service` is the run that registered the
service, `agent` the executable and configuration of the process the service manager
has up. `strays` are agents whose service was removed under them. What a platform's
service manager does is modelled from how the code uses it: it refuses a second
registration, forgets the process of a removed service, and starts a registered service at
boot.

## Runs

| Run | Bounds | Shows |
|---|---|---|
| `figures` | 2 agents (2 running reports; none), 1 start, 1 stopper, 1 test, history of 1, 2 errors, 2 events, batches of 0 to 2 failed requests, 1 drop or return of a connection | `TypeOK`, `LogsAreNewest`, `EventsTellTheLink`, `EveryTestCloses`, `TotalsAreFinal`, `TotalsNeverFall` |
| `swarm` | 1 agent, 2 tests, 2 connections, crashes before the last, 1 stop, send queue 2 | `TypeOK`, `DoneMeansOver`, `ClosedMeansOver`, `LiveIsCancellable`, `StopReaches` |
| `tabs` | 1 agent, 2 connections, tests and tabs in turn, a queue of 2, 2 events | `TabsTypeOK`, `OnlineIsServed`, `SupersededIsClosed`, `OutageIsNoted`, `NewestReachesTab`, `LeaversAreForgotten`, `TabsHoldUpNobody` |
| `outbox` | outbox of 2, 5 frames, 3 sessions | `TypeOK`, `KeptIsBounded`, `NoLostWakeup`, `InOrder`, `StableLinkDrains`, `ImplementsLossyQueue` |
| `engine` | 2 workers, 2 requests, 1 chunk, 3 slots, paced or not, limited or not | `TypeOK`, `IntervalsWithinTotals`, `FinalAddsUp`, `StopIsNoFailure`, `RunReturns` |
| `lists` | 1 list (bundled or not, with a directory or not), 2 texts, 3 saves and resets, 2 checks of up to 2 URLs, 1 place, 1 restart | `TypeOK`, `ListsSurvive`, `ChecksAddUp`, `ChecksEnd` |
| `install` | 3 runs of install | `TypeOK`, `RegisteredIsComplete`, `OneAgentPerDevice`, `CleanRunInstalls`, `InstalledComesUp` |
| `two_starts` | 1 agent, 2 overlapping starts, 2 tests | `AtMostOneActive` fails |
| `stale_stop` | 1 agent, 2 tests, 1 stop | `CancelledForAReason` fails |
| `presence_order` | 2 connections | `LastEventIsTrue` fails |
| `engine_slots` | 2 workers, 3 requests, 3 slots | `BusySlotsAreSkipped` fails |
| `engine_limiter` | 1 worker, 2 requests, 2 chunks | `StopIsNeverFailure` fails |

Why the bounds are enough to meet the interesting cases. Two tests are what a
stale stop, a late report and an engine winding down beside its successor need.
Two connections are what a replaced handler and a lost start need, and what makes
two callbacks and two broadcasts of an agent overlap; that the hub's entry stays served
with any number of them is proved. In `tabs` a queue of 2 fills up before the snapshot, and two events are an
outage and a return, or an outage that the link's news push out. In
`figures` three reports of an agent outgrow a history of one and an error log of two, and
a roam, a lost link and a drop of the connection outgrow the events in every order; the
second agent reports only its end, so a tick can find one done and the other not; all
three reports may be held back at once and come in any order. An outbox of two with five
frames overflows while the writer holds a frame it will put back. Its three sessions let frames of two
replaced connections arrive beside those of the present one. The send queue of the
code holds 64 frames and is full here at 2; a stop that finds it full is dropped. Three installs let one
that failed follow one that went well, with the last repairing it. Two workers with a
request each let one be anywhere in `record` while the other is elsewhere and the snapshot
between two of its steps; three slots fill a channel of two and overflow it. A check
with one place and two URLs must give the place back, and two checks run beside each
other after a Reset. Lists do not affect each other, so one is enough. The theorems below hold for every bound.
Behaviours that run out of a bound stop, so those runs do not check deadlock; `tabs`,
where connections run out but tests and tabs do not, checks it. Distinct states: `figures` 723,424,
`swarm` 722,215, `tabs` 633,179, `outbox` 223,671, `lists` 188,251.

What the properties except is said in their comments, and each exception is something
the code does: `TotalsAreFinal` and `TotalsNeverFall` speak of agents whose reports were
taken in order, because a late one overwrites `Latest` with an older one (tests.go:340);
`ClosedMeansOver` of tests that closed by their reports (tests.go:534 also closes by the
deadline and the grace period); `StopReaches` of agents whose connection is not cut and whose send queue is
not full (tests.go:308 sends once); `ListsSurvive` of a list whose write did not break
off (lists.go:214); `OutageIsNoted` of a list of events that is not full (tests.go:393);
`NewestReachesTab` of a tab that lost no frame; `LeaversAreForgotten` of a tab that
is not stuck in its snapshot (server.go:383); `RegisteredIsComplete` of an install that
could read the status (main.go:257); `OneAgentPerDevice` of services that could be stopped.

The five runs that fail are findings: in each the code does something a comment
or the README says it does not.

- `two_starts`: the check in `Start` and the publication are separate critical
  sections, so two requests at once start two tests.
- `stale_stop`: the agent does not compare the id of a stop_test, so a Stop whose
  frames are sent after its test has closed, in whatever way, cancels the next test.
- `presence_order`: callbacks of two connections may run in the wrong order, and
  the events then end with "offline" for an agent that is online.
- `engine_slots`: a slot that comes due while every worker is busy is queued, for as many
  slots as there are workers, and taken late; the README, the comment of `dispatch` and that
  of `Skipped` say that it is skipped and counted.
- `engine_limiter`: near the deadline the limiter refuses a wait at once, before the
  context is done, and `fetch` counts a failed request (class "read") where the
  comment says that a test that stops mid-request is not a failure.

## Fairness

`EveryTestCloses` assumes that the ticker fires and the wall clock passes a
test's deadline (`tickLoop` never stops before the test is done), and nothing of
agents, callers, reports or the grace period. `StopReaches` assumes that goroutines with
work to do are run, as far as a stop needs it: a call of Stop that is sending goes on, frames
that arrived are handled, and an engine whose context is cancelled returns (every wait in
the engine selects on its context). It assumes no connection, no stop and no end of
an engine nobody cancelled. The property excuses an agent whose connection is cut
later, or whose send queue is full: the stop is not sent again. `StableLinkDrains` assumes that a
pusher signals after its append, the writer runs, `runForever` dials again and each
handler at the server reads or ends; it speaks of behaviours in which the connection stays up from some
point on.

`RunReturns` assumes that workers go on (a fetch ends at the latest by its
stall timer, and chunks, which put that off, end in the bound as bodies do) and
that the select of `Run`, which chooses at random between its ticker and the end of
the workers, takes the latter at some time: strong fairness. It assumes nothing of the
dispatcher. `LeaversAreForgotten` and `TabsHoldUpNobody` assume that a handler in its
callbacks, the tab's handler and its writer go on when they can (a write ends, or times
out after 10 s); browsers, agents and tests need do nothing. Since tabs follow one
another, `LeaversAreForgotten` says that again and again no tab that has left is still
subscribed. `InstalledComesUp` assumes that the
service manager starts what it is to keep up (`KeepAlive` and `Restart` in the service's
options), not that commands end or that failures stop. `ChecksEnd` assumes that a Save ends and that the goroutines
of a check get the lock however often saves take it in between (Go's mutexes do
not starve a waiter) and that a fetch ends by its timeout.

## Proofs

Every safety invariant and every action property the passing runs check, and the
refinements of `TestManager`, `Hub`, `Presence` and `LossyQueue`, are theorems, for any number of
agents, tests, connections, callers, workers, frames and lists. The assumptions on
constants are that bounds are natural numbers, that the agents are finitely many
(`AgentsAssumption`: they register one at a time; `Figures` sums over them) and what
each module says of its other parameters. The eight modules follow the components;
`Swarm_proofs` holds those of `AgentTest` and `Hub` too, `Tabs_proofs` those of `Presence`.
Safety is proved of specifications without their fairness (`Safety`, `TMSafety`), so
the specification with it has it as well.

- `TestManager_proofs`. `DoneStaysDone`: only a publish could
  reopen a test, so the invariant `FreshInv` says that ids from `nextTest` on are
  unpublished, that the test a call of Start is sending for is below `nextTest` and
  unpublished, and that no two calls send for the same one. `ClosedOnReports`: a test that
  closed without a deadline or a grace period has a Done of every agent, which needs
  that its members are fixed by the publish. `OneActiveTest` assumes
  that calls of Start do not overlap (`OneStarter`); the invariant `SerialInv` says
  that whatever is active is current and that nothing is active while a call is
  past its check. `two_starts` shows that the hypothesis cannot be dropped.
- `Figures_proofs`. `FiguresImplementManager`: the figures never change what the manager
  does, which carries `FreshInv` and the theorems above over. The rest follows from
  `FigInv`. Its core is `Good`, of one agent in one test and the reports taken of it
  (`passed`): the latest report is the last one taken, the history ends at the greatest
  running report taken, the error log and the list of events have the newest of what came,
  and the link events among those kept lead up to the link now shown, whatever drops and
  returns of the connection stand between them or have pushed them out. `LogsAlwaysNewest` and `EventsAlwaysTellTheLink` are parts of it. It
  needs `Unsent` (a call of Start sends to each agent once, and a new test's start has reached
  nobody), `Silent` (an agent the start did not reach says nothing of the test) and `Ended`
  (an agent that it reached is Done when its final report was taken).
  `TotalsOnlyGrow` needs `Counted`: the totals are at most what the next tick would
  find; it holds while reports come in order, which is the property's hypothesis.
  `ClosesOnFinals`: the tick that closes a test sums first. A sum over agents is a recursive
  function that takes its agents in no particular order; what the proofs need of it (equal figures
  have equal sums, greater figures no smaller one) is shown by a smallest counterexample
  among the finite sets of agents.
- `Tabs_proofs`. `OutageAlwaysNoted`: an agent that was online when the test began and
  is offline now, with no callback due, has an offline event or a full list.
  `OutageIsDue`, which every
  step keeps, says that the event is there or the callback of a handler that left is due.
  `TabsImplementPresence` and `TabsImplementHub`: a tab changes nothing the hub or the
  manager sees, though tabs and tests run beside each other; `OutageNotedWithTabs` follows. `NewestAlwaysReachesTab` is about handlers that may broadcast lists in
  another order than they took them. `NotAhead` says that no list, taken, queued or shown,
  is newer than `version`; `Followed`, that the newest version has been shown, is
  in the queue, or is in the hands of a handler or of the tab's own snapshot. `version` counts
  the callbacks made (`VersionCounted`), so it stays within its type without a bound
  in any guard.
- `Outbox_proofs`. `MemoryBounded` needs the outbox and the writer's hand counted
  together, since unpop does not look at the limit. `WakeupNeverLost` counts the
  pushers between append and signal. `OrderKept` states the order over every
  place a frame can be (the outbox, the writer's hand, and for each connection what is under
  way on it and what its handler has read) and needs every frame to be at most `pushed`.
  `OutboxIsLossyQueue`: under the mapping above each step is a push, a reconnect, a
  delivery, a loss in one lane or a stutter; in a push a full outbox loses its oldest frame,
  and a reconnect takes the hand and the outbox over to the new lane.
- `Engine_proofs`. `ReportsInv` says that the totals of requests and bytes are what
  was told, what a snapshot holds, what is in the window, and what the
  workers between two steps of `record` or `countingReader.Read` have yet to add; errors
  are in their classes or with such a worker. Since a snapshot takes the window
  before it reads the totals, and a worker adds to the totals first,
  `IntervalsAlwaysWithinTotals` follows for any number of workers. `FinalAlwaysAddsUp`: the final
  report is taken when every worker has returned.
  `CutOffIsNoFailure`: without a rate limit no request that the end of
  the test cut off is recorded. The invariant
  `CutOffInv` says that such a fetch is still before its check of the context and that
  the test is over by then, which is where the limiter breaks it: it cuts a fetch off
  while the test is not over.
- `ListStore_proofs`. `ListsAlwaysSurvive`: what a restart would load is what the store
  has, unless a write broke off. The invariant `FilesAgree` says so of every state, those in the
  middle of a Save included. `ChecksAlwaysAddUp`: a check that says it is done has every
  result, and fetches keep to their places. Neither is a guard of the model: `runCheck` looks
  only at its channel and its WaitGroup, and the invariant (`Tally`, of every job)
  says that these count the goroutines at each of their steps, for lists of any length.
- `Install_proofs`. `RegisteredAlwaysComplete` relates each place of the command to what is
  on disk: the old service is gone before the first file is touched, and nothing is
  registered before both files are whole, for any number of runs that failed or broke off.
  `OneAgentAlways` needs that a service is removed only after its stop was tried.
  `CleanRunsInstall`: a run that met no failure has replaced everything, by `CleanInv`,
  which says what such a run has done by each place of the command.
- `Swarm_proofs`. Of the agent alone, which assumes that no start of a test comes after its end:
  `NoStrayEngine`, an uncancelled engine is the one the agent
  can cancel. It is inductive only together with `CancelMatchesID` (the id and the
  cancel function come and go together) and `StartingIsClear` (nothing is installed
  between the two critical sections of startTest). `OneLiveEngine` follows.
  Of the hub alone: `OnlineAlwaysServed` and `SupersededAlwaysClosed`, from each other
  and the types, whatever the order in which handlers come and go.
  Of the system, `DoneAlwaysOver` is what it is about: when the server
  counts an agent as done with a test, no engine runs it and no start is on its way. For
  every agent and test the invariant `PairInv` says that the pair goes through waiting at
  the server, in the connection's queue, between the two critical sections of
  startTest, running, ended, and enters no place again that it has left; a stop,
  a crash or a lost connection may leave it without an end. It needs `FreshInv` (two
  calls of Start never send for the same test) and `Once`
  (a queue holds a start once). `SwarmImplementsManager` and `SwarmImplementsHub`
  show that every step of the system is a step of each part alone
  or leaves it as it is; the lemma `SwarmImplementsAgent` is the same of the agent, by
  the assumption that requests name each agent once. So the theorems of the parts hold in the system: `SwarmDoneStaysDone`,
  `SwarmLiveIsCancellable`, and, with `ClosedOnReports` and `DoneAlwaysOver`,
  `ClosedAlwaysOver`.

Only model-checked: liveness (`EveryTestCloses`, `StopReaches`, `LeaversAreForgotten`,
`TabsHoldUpNobody`, `StableLinkDrains`, `RunReturns`, `ChecksEnd`, `InstalledComesUp`).
It rests on fairness, and so on ENABLED, which is out of the prover's reach. What the
runs that expect a violation check is false of the code and has no theorem.

## Not modelled

- HTTP API, pages and the UI password: routing and stateless handlers; the calls they make
  are the inputs of `TestManager`, `Hub` and `ListStore`.
- Wi-Fi telemetry (`internal/wifi`): runs a platform tool and parses free text, without
  state. What the manager makes of the readings is in `Figures`.
- Agent configuration and identity: flags, environment and the id file, read once
  before anything runs beside it.
- Programs, `cmd/urlcheck`, build and scripts: flag parsing and I/O.
- Of the test manager: the rates of a tick and the test's own history of ticks, which are
  averages of the moment that nothing reads again; the agents' clocks behind them
  (tests.go:484); the order in which a tab sees the snapshots of a test (tests.go:311);
  requests that name an agent twice.
- Of the hub: the moment between the change of an entry and the Close that follows it
  (hub.go:135-139, 158-159), in which the replaced connection is open still; it is one step
  here. Of the agent, that `cancel` is called just after the lock is released (agent.go:312-319).
- Of the list store: which text a check was started for (lists.go:256), and the race of the
  copied job with its writer (lists.go:266), which is for the race detector.

`PROJECT.json` has the reason for each component and each uncovered hazard.

## Plan

1. Done: the models of all components listed as modelled, and a theorem for every safety
   property the runs check.
2. `Engine` implements the engine `AgentTest` has: it reports its end once, and nothing
   after it.
3. In `Figures`, the order in which a tab sees the snapshots of a test (tests.go:311).
4. A check of a list that knows the text it was started for, so that a check of an old
   text can be told from one of the new.
