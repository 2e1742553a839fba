# A verification model of the food delivery system

The repository holds five Python programs that play a food delivery service as a
distributed system: an order processor and coordinator (P0), two restaurants (P1,
P2) and two delivery runners (P3, P4).  They stamp their events with vector clocks
and take global snapshots after Chandy and Lamport.  Beside them, `infra/` has a
second transport and the scripts that configure, start and analyse a run.

This directory is a TLA+ model of that code: modules translated from the source,
TLC runs on small instances, and proofs that TLAPS checks for every instance.

```
tlc -workers 2 -config Cut.cfg MCSnapshotCut      # one run; the others alike
tlapm FoodDeliveryProofs.tla                      # the proofs
```

`PROJECT.json` lists the runs, the source lines of every definition (`map`), for
every property a mutant of the code that violates it, the hazards of the code and
the properties that cover them, and the disagreements between code and
documentation.

## 1. Inventory

    P0 --ORDER, MARKER--> P1 --DELIVERY, MARKER--> P3 --DELIVERY, STATE--> P0
     \--ORDER, MARKER--> P2 --DELIVERY, MARKER--> P4 --DELIVERY, STATE--> P0
                     P1, P2 --STATE--> P0

| component | source | state | operations | hard part | what makes it correct |
|---|---|---|---|---|---|
| vector clock | `src/vector_clock.py` | one vector under a lock | increment, send, receive, internal event | used by all threads of a process | it never knows an event that has not happened, never goes back |
| coordinator P0 | `src/p0.py` | orders, collected states | dispatch an order, trigger a snapshot, check the snapshots in the store, take DELIVERY and STATE | main thread against handler threads, no lock on the store | the verdict is given, given once all states are there, and true |
| snapshot object | `src/snapshot.py` | per snapshot: recorded state, channels being recorded, their messages, completion | initiate, record a message, take a marker, report | some reads without the lock, a lock held while sending | the reports form a cut, each process reports once |
| restaurants P1, P2 | `src/p1.py`, `p2.py` | clock, snapshot object | cook an order, hand it over, pass a marker on | threads of orders and markers | each order is handed over |
| runners P3, P4 | `src/p3.py`, `p4.py` | clock, one order status and label, snapshots recorded | deliver an order, report a snapshot | threads of several orders share the status; unlocked second read | records fit the clock; one report |
| one-shot connections | `send_message`, `_send_json`, `handle_conn` | none | one connection and one thread per message | messages overtake each other; a failed send is dropped | no order between messages may be relied upon |
| messaging transport | `infra/messaging.py` | links, locks of links, inbox | connect, send, read, close | threads racing to connect, reconnection, stale links | in order and exactly once until something fails |
| run analyser | `infra/analyse_run.py` | the report it reads at the moment | parse logs, sort events, check cuts, judge snapshots | rows are attributed to the header read last; reports cross log files; P0's threads print at once | sorting respects causality, the check goes both ways, a snapshot is complete only if P0 had it complete |
| host configuration | `infra/configure_hosts.py` | hosts file and backup | apply, restore | the backup is taken once, the file is truncated and rewritten in place | what was there before the first call can be brought back |
| demo launcher | `infra/run_demo.py` | list of programs, log files, `run-meta.json` | start in order, wait, stop, save | interrupts anywhere, also in the finally block; programs that swallow a signal | a launcher ends, no program is left behind, the meta file describes the logs |
| readiness check, config loading | `infra/preflight.py`, `team_repo.py`, the loaders of the programs | none that lasts | check the file and the ports | checked state that is stale when used | a passed check means something for the next run |
| cluster set-up and checks | `setup_cluster.py`, `verify_cluster.py`, `cluster_config.py` | `cluster.json` | probe and print | none | not modelled |

The programs share nothing; they interact by messages only.  Inside a program the
threads share the clock, the snapshot object and the module's variables.  No
program stores anything on disk, so a restart begins from nothing.

The tools of `infra/` share the file system with the programs: `configure_hosts.py`
rewrites `config/hosts.cfg`, which preflight, the launcher and every program read when
they start; the launcher makes a log file of what each program prints and a meta file of
the run; and the analyser reads both.

No program under `src/` imports `infra/messaging.py`: it is a component of its own,
and the two are not composed.

## 2. Modules

    VectorClock <- SystemState <- Coordinator \
                               <- Restaurant   >- FoodDelivery <- SnapshotCut <- MCSnapshotCut
                               <- Runner      /   |    ^    ^---- MCFoodDelivery ---^
                          OrderWay, SnapshotWay <-'    |--------- FoodDeliveryProofs <- SnapshotProofs
                              (refinements)            |                             <- OrderWayProofs
                                                       '--------- RunLog <- MCRunLog
    VectorClock <- AnalyseRun  (used by SnapshotCut and RunLog)
    SnapshotCut, RunLog, SnapshotProofs <- CausalityProofs
    ReportLog <- MCReportLog
              <- ReportLogProofs
    FleetRunner <- MCFleetRunner
                <- FleetRunnerProofs
    Link  <-(refinement)-  Transport <- TransportProofs
    HostsConfig <- Launcher <- Demo <- MCDemo
                                    <- DemoProofs

**VectorClock** has the operations of a clock as operators on vectors.  The class
guards each of them with a lock and returns a copy, so an operation is atomic.

**SystemState** declares the state of the five programs and what their steps have in
common.  The network (`net`) is a set of messages, because each message has a
connection of its own; a process is a set of threads, each with the message it
handles, the name of its next step and the one clock a handler keeps in a local
variable.  Messages differ by their clocks, so a set is enough.  A step is one
section under the clock's lock or a snapshot lock, with whatever follows that no
other thread can see before the next such section.

**Coordinator**, **Restaurant** and **Runner** have one action per such section.

| code | actions |
|---|---|
| `send_order` | `CreateOrder`, `DispatchOrder` (two clock events of the main thread) |
| `trigger_snapshot`, `initiate_snapshot` | `InitiateSnapshot`, `RecordOwnState` (its clock is read), `StoreOwnState` |
| `dispatch` of P0, DELIVERY | `ReceiveDelivery`, `ConfirmDelivery` |
| `dispatch` of P0, STATE; `handle_state` | `ReceiveState`, `HandleState`, `CountStates` |
| `check_snapshot_consistency` | `CheckSnapshotConsistency` if all states are collected; `ViewSnapshots`, `CheckViewed` for menu option 4, which checks every snapshot in the store, complete or not |
| `dispatch` of a restaurant, `record_channel_message` | `AcceptOrder` |
| `handle_order` | `HandleOrder`, `OrderConfirmed`, `PreparingFood`, `FoodReady`, `HandToRunner` |
| `handle_marker` of `snapshot.py` | `ReceiveMarker`, `RecordMarker`, `ForwardMarker`, `NothingToComplete` or `CompleteSnapshot` |
| `send_state_to_coordinator` | `CompleteSnapshot` (its clock is read there), `SendState`, `ReleaseLock` (its send has returned) |
| `handle_delivery_handoff`, `process_delivery` | `ReceiveHandoff`, `PickedUp`, `InTransit`, `Delivered`, `SendDelivery` |
| `handle_marker` of a runner | `ReceiveRunnerMarker`, `CheckMarker`, `ReportState` |
| failed `send_message` or `_send_json` | `Lose` |

The lock of a restaurant's snapshot object is held from `CompleteSnapshot` to
`ReleaseLock`; `LockFree` says that no thread is in between.  The STATE may be received, lost or
still on its way when the send returns.  `verdict` holds the verdicts printed of a snapshot, each with
its reason: all states are collected, or the operator looks at it in the menu.

**FoodDelivery** composes them into `Spec`, and `FairSpec` for liveness.  It also has
`TypeOK` and the properties of the whole.

**OrderWay** is an abstract specification of what the five programs do for an order: it
is at one place at a time (with P0, in a message, in a thread), goes from P0 to one
restaurant, to that restaurant's partner and back to P0, and only a send that fails ends
it before.  `PlacesOf` in `FoodDelivery` is the refinement mapping: the places of an order are
the things that hold it, so that an order held twice, by two messages or by a message and
a thread that has not ended, would be at two places.  `OrdersOnTheirWay` says that
`FoodDelivery` implements it.

**SnapshotWay** is the same for a snapshot.  Its marker goes from P0 to the restaurants and
from each to its runner; a process that it has reached reads its clock once, the report is under way
and then collected, or lost with the send that carries it; P0 reads its own clock, and again if
the snapshot is triggered again.  A verdict on the collected snapshot is given only when everything
is collected; for the menu a snapshot is judged as far as it is collected (`Judge`).  Either way the
verdict is about the clocks that P0 holds at the moment, and it says what their comparison in one
direction may say (`Finding`): so an operator who reads CAUSALLY CONSISTENT after option 4 knows nothing
of the states that are missing.  SnapshotWay does not say which locks, threads and messages see to that, nor how many steps
it takes.  `ReportPlaces` in `FoodDelivery` is the refinement mapping: everything that holds
the clock a process reports, which is that process until it has read it (`HasCut`), a restaurant's thread
that is about to send it, a STATE message, the thread of P0 that is about to store it, P0's main
thread, or the store.
`Marked` has the processes whose snapshot object, or `recorded_snapshots`, knows the snapshot.
`SnapshotsOnTheirWay` says that `FoodDelivery` implements it.

**SnapshotCut** adds history variables: which message on its way was sent after its
sender's cut, which messages are orphans of a cut (sent after it, received before it)
and which cross it (sent before, received after).  A process is cut when it reads the
clock it reports.  The history is computed from the steps, never from what clocks say of
each other, so it says what the clocks ought to say.  No action reads it.  A message is known
by the event in which it was stamped (`SendEvent`), and late if that event came after the cut:
a runner stamps its STATE in `CheckMarker` and sends it in `ReportState`, other threads run in
between, and with several snapshots under way the moment it enters the network is too late to tell.

**AnalyseRun** has the algorithms of the run analyser as operators on events and recorded
clocks.  `VerifyConsistency`, which compares each pair in both directions, is the test
that `SnapshotCut!CriterionExact` calls exact; `Concurrent` compares the clocks of two lines.
`happens_before` is left out, as nothing calls it.  **RunLog** adds to `FoodDelivery` the
lines that the programs print of their events, and the true order of events as history.
A restaurant prints the receipt of an order with a clock read afresh
(`PrintReceipt`), so a line may tell of an event that happened under another kind: the
report then counts an event too many, and the properties hold all the same.

**ReportLog** is P0's log from both ends.  P0's threads print progress lines and reports
line by line without a lock, while the main thread announces the next snapshot and so prints
a banner, two of whose lines end the analyser's current report; `parse_logs` reads them in that order.
`ReadHeader`, `ReadRow`, `ReadProgress`, `ReadEnd` and `ReadVerdict` are what it does with a
line, `Complete` is `build_snapshot_view`.  A print is several writes, so a line may be glued
behind that of another thread, and the patterns then find only one of the two (`Glue`).  A
row's clock is represented by the snapshot it was recorded in: the algorithms on clocks are
in `AnalyseRun`, and what can go wrong here is that they are given another cut.

**FleetRunner** models one runner in more detail: `order_status` and
`current_order_label`, which the threads of all orders write, the record made under
`state_lock` and the summary read without it.  Its clock counts the stages of each
order, which are the only events its properties speak of.

**Link** is an abstract specification of what a transport promises; **Transport** is
`infra/messaging.py` between one sending node with several threads and one receiving
node.  The promise is that messages arrive in the order they were sent in until a connection
fails, and that from then on they may be lost or overtake each other, but none arrives twice.
`Transport!KeepsPromise` is the refinement: messages on their way are the frames of the
connections, those that a reader has in its hands and those behind it in the stream.

**HostsConfig** is the configuration file and the tool that rewrites it.  A write in place
is two steps, and in between the file is empty, which every reader takes for "all on
localhost".

| code | actions and operators |
|---|---|
| `apply_ips` | `ApplyIps`, `CreateBackup`, `CopyBackup`, `TruncateConfig`, `WriteConfig` |
| `restore` | `Restore`, `TruncateConfig`, `WriteConfig` |
| an interrupt of the tool, an editor | `Crash`, `EditByHand` |
| `is_configured`, `is_single_host`, `detect_my_node`, `processes_for_node` | `IsConfigured`, `IsSingleHost`, `DetectMyNode`, `ProcessesForNode` |
| the programs' loading of hosts | `LoadHosts` |

**Launcher** is `run_demo.py` with the programs it starts, seen from outside: a program reads
the file and binds its port, or fails to, and ends when it is told to.  **Demo** is one machine
with all of this at once, and has the properties.

| code | actions |
|---|---|
| `check_conf`, `check_ports` of `preflight.py` | `Preflight` |
| `main` of `run_demo.py`: a program's log, `Popen`, the list | `Start`, `OpenLog`, `Spawn`, `AppendLaunched` |
| the loop that waits, and `OSError` | `TimeIsUp`, `StartFails` |
| Ctrl-C, which the programs get too, in the `try` and in the `finally` | `Interrupt`, `InterruptFinally` |
| SIGINT to the launcher alone, in the `try` | `InterruptAlone` |
| SIGTERM or SIGKILL to the launcher, or SIGINT to it alone in the `finally` | `KillLauncher` |
| the `finally` block | `Terminate`, `WaitOrKill`, `SaveMeta` |
| a program's start, its shutdown handler, the end of P0's `--auto` flow | `StartListener`, `ShutdownHandler`, `FlowEnds` |
| `pkill`, which preflight advises | `Pkill` |

A signal that finds P0 inside `_send_json` runs the shutdown handler there, and the bare
`except` around `sendall` takes its `SystemExit` for a failed send (`snapshot.py:88`): P0 then
goes on and ignores the signals that follow.  Such a P0 is "deaf".

## 3. Runs

| run | instance | shows |
|---|---|---|
| Cut | P0, one restaurant, one runner; one order, one snapshot at any moment, one look at it by menu option 4; the lock held until the send of a STATE returns | the documented test of the reports is exact; no false alarm, of the collected cut or of the part of it that is there; markers are inside the cut; nobody waits for ever for a lock, and the order ends at P0 (fair) |
| Five | all five processes, no order, one snapshot | the test of four reports is exact; all reports are collected (fair), and the verdict is not lost among the threads that count them |
| Retrigger | one branch, two lost sends, and two orders or a snapshot triggered twice and looked at in the menu | types; reports are final, clocks never go back and know only the past, the verdict is not lost; the refinements of OrderWay and SnapshotWay; every step leaves less to be done |
| Fleet | one runner, two orders that may overlap, two markers of one snapshot | the record fits its clock, the summary is not behind, DELIVERED at the end, one report |
| RunLog | all five processes, two orders to one restaurant or to both | at the end of the run: in the timeline causes come before effects, and the concurrent pairs are exact |
| Reports | P0 and two processes that report, two snapshots, one glued line | the analyser finds a snapshot complete only if it is; if nobody else printed in between, it finds complete what P0 checked and judges the cut that P0 collected |
| Transport | two threads of two sends, four connections, one failure or close | refinement of Link, one open connection, usable links, nothing lost without a failure |
| Demo | one machine, two programs of two nodes, two runs, three commands | the configuration can be brought back; a launcher ends and leaves nothing behind; what a passed preflight is worth; the meta file describes the logs |

Handlers of orders wait for the lock that a restaurant holds while it reports a snapshot, until the
send of the STATE returns.  In run Cut an order and a snapshot meet there at every moment: its
`NobodyWaitsForever` says that while a message, a thread or a call of the main thread is left, some
thread can go on, and `OrdersFulfilled` that the order then ends at P0.  That nobody can go on for ever
is `WorkShrinks` in run Retrigger: a message, a thread and a call of the main thread have a number of
steps yet to be taken, with all that they cause elsewhere (`StepsLeft`), and each step that is not a
call of the operator makes the sum smaller.

The other four runs end in a violation, of something the documentation says:

| run | documentation | code |
|---|---|---|
| VerdictSound | a cut that passes the check is causally consistent (`docs/CHANDY_LAMPORT.md:46-51`) | P0 compares each pair in one direction (`p0.py:228`) and misses an orphan order |
| ChannelState | P0 records its incoming channels (`README.md:109`, `BUG-REPORTS.md:69`) | the DELIVERY branch does not (`p0.py:294`) |
| VerdictEventually | with all states collected P0 checks the cut (`README.md:121`) | if P0's own entry comes last, nobody checks (`p0.py:199`) |
| DeliveredInOrder | two sends arrive in the order issued (`infra/messaging.py:287`) | after a reconnection two readers race (`messaging.py:298`) |

There are two more disagreements that have no run of their own.  `docs/ARCHITECTURE.md:78` and `README.md:104`
promise channels on which messages "arrive in the exact order they were transmitted"; but each message
has a connection and a receiver thread of its own (`p0.py:141`, `p1.py:191`, `p3.py:158`), and in the
counterexample of VerdictSound an order overtakes the marker.  With two orders that overlap, the one
status of a runner (`p3.py:219`) does not go through WAITING, PICKED_UP, IN_TRANSIT, DELIVERED
(`docs/ARCHITECTURE.md:36`), but skips stages and goes back.  What is left of it is what run
Fleet shows.

**Bounds.**  `Orders` and `Snapshots` bound how much is asked of P0, `MaxTriggers` how
often one identifier is triggered, `MaxLoss` the failed sends; `MaxSends`,
`MaxConnections` and `MaxFailures` bound Transport.  Nothing else is bounded there: clocks
and threads are finite because orders and snapshots are.  One branch of the topology
has every kind of message and handler, and an orphan needs one order and one snapshot
only; the second branch adds more reports and no other interaction, and that the test of two
branches' reports is as good is what run Five is for.  With one failure and four
connections two threads can lose a link, race to replace it and discard each other's.
Four connections suffice for four sends: a send makes at most one.  Two orders
give RunLog both concurrent restaurants and concurrent threads of one restaurant; they are
interchangeable, which its symmetry uses.  It has no lost send, because one adds nothing: `log`
and `past` only grow, and the lines of a run with a lost message are those of a part of a run in
which that message is late.  Two lost sends are enough for both hops of one order, or one of each of two orders.  The
refinements of OrderWay and SnapshotWay are checked on one branch, and proved for every topology.
`WorkShrinks` needs no bound of its own: what one message sets off is a chain of at most 17 steps
whatever the topology, as only a call of the operator sends to several restaurants.

Constraints keep the runs apart, each named for what it leaves out of one run and another run has:

| constraint | runs | leaves out | where that is checked, or why it does not matter |
|---|---|---|---|
| `MCOrderOrSnapshots` | Retrigger | states with both an order and a snapshot | Cut has both; the two share only the clocks, a restaurant's lock and channel states that no handler reads |
| `MCNoLook` | Five | menu option 4 | it changes nothing but `verdict`, and the properties of Five read no verdict of the menu; Cut and Retrigger have it |
| `MCOneLook`, `MCLookAtOnce` | Cut | what comes after a look, and steps during it | a look changes only `verdict`, and reads the store once, as there is one snapshot; orphans are never taken back, so an alarm that was true stays true |
| `MCReleaseAtOnce` | Five | a send of a STATE that returns later than it is stamped | what others do while the lock is held for longer they can do after an early release too; Cut and Retrigger have it |
| `MCReleaseSoon` | Cut | the same, unless an order waits for the lock | the order is the only one that could; a second marker is in Retrigger |
| `MCStagesAtOnce` | Cut | other steps between the events of one process on the order, from one message to the next (creation and dispatch, the stages, the confirmation) | nobody hears of these events before the next message, so that a cut between them has the orphans of one before them; Retrigger has the steps without cuts, the violation runs and the theorems have all |
| `MCOneCutOff` | Demo | two of the things that end a launcher early: a kill, a cut-short `finally`, an interrupt that leaves a program unlisted | the second run, the last one, is then an ordinary one and meets what the first left behind; or the first was |

The theorems of section 4 have none of these constraints.

`Reports` has two snapshots because the report that does not end itself meets the next one,
two remote processes because two threads may both count a full store, and one glued line
because each glued line is lost in the same way; `MaxGlued` bounds them.  `Demo` has two runs,
so that programs of the first may be in the way of the second, and `MaxCalls` = 3 commands in
all: as many as it takes to apply, be stopped half way and launch or restore.  Its three
entries make this machine the owner of P0, of P1, or the only one, with one address for both.  Two programs are enough for one
that is in the list, one that is about to be, or never is as an interrupt comes first, and the order
between them; P0 is the one that can go deaf.  One Ctrl-C in the `try` and one in the `finally` are all that a launcher can get, as
the second ends it.

All runs switch the deadlock check off: when everything asked for is done, the
programs wait for the operator, and the bounded models have no step left.

**Fairness.**  The operator need not do anything, and no send need fail, so `Command`
and `Failure` have no fairness.  The machines run their threads: weak fairness of "some
thread or connection takes a step", and of "P0's main thread takes a step".  The main thread has a condition
of its own because the operator can ask for menu option 4 again and again, and a machine that did nothing
else would satisfy a single one.  That is as much as an operating system gives, and
it suffices for each thread because a thread has finitely many steps and the steps of
one disable those of another only as long as a lock is held.  `Transport` is alike.  In `Demo` only the launcher's own steps are fair
(`WF_vars(LauncherStep)`): it is one running program, and each of its waits has a timeout.
The programs need not do anything, so `EveryRunEnds` holds even if none of them heeds a signal.

## 4. Proofs

Eight modules prove theorems of the specifications for every value of the constants.

**The system of five programs**, for every topology that satisfies `TopologyAssumption`
(finitely many restaurants and runners, any partner function) and any orders, snapshots and
bounds (`IdentifierAssumption`: an order and a snapshot never have the same identifier, as the
one is a number and the other a string):

* `TypeCorrect` (`FoodDeliveryProofs`): `TypeOK` is invariant.  It is inductive as it stands.
  The part that is not routine is that a thread is always in its place (`InPlace`): handlers of
  the same step name run at different processes, and only the type of the message and its
  receiver tell them apart.
* `KnowledgeIsPast` (`FoodDeliveryProofs`): `ClocksKnownOnly`, that no clock anywhere is ahead
  of its owner.  It is inductive together with `TypeOK`, but only because it covers the clocks of
  messages, threads and stored reports too: without them a receive step could bring in
  knowledge of the future.
* `VerdictNotLost` (`SnapshotProofs`): `NoLostVerdict`.  The invariant `VerdictInv` says that a
  full store whose last entry is not P0's has a verdict or a thread that has still to count or
  to check it: the thread that stored the last entry counts after it.  P0's own entry is the
  exception because the main thread stores and does not count.
* `OneReportEach` (`SnapshotProofs`): `ReportsFinal`.  The invariant `OnceInv` counts the
  ways in which a process's report is under way, as a message, in the thread that is about to
  send it and in the one that is about to store it: at most one, none once it is stored, and
  each only if the process has marked the snapshot as its own (`recorded_snapshots`,
  `completed`), which it never takes back.  A restaurant clears `completed` when it opens a
  snapshot, so that the invariant also needs that a thread past that point has opened it.
* `ClocksGoForward` (`SnapshotProofs`): `NeverBackwards`.  Only P0's own entry is ever replaced,
  and with a clock that is not behind it (`OwnEntryPast`).
* `ImplementsOrderWay` (`OrderWayProofs`): the refinement `OrdersOnTheirWay`.  The invariant
  `OnePlaceInv` says that each order has one holder or none, and that its messages are routed as the
  topology says.  A step then settles every order, or moves one by one place; one lemma for each
  kind of step (`GoingOn`, `Ending`, `OrderReceived`, `HandedOn`) says which.

* `SnapshotWayImplemented` (`SnapshotProofs`): the refinement `SnapshotsOnTheirWay`.  `OnceInv` gives that a report
  has one holder or none, and each way in which it can be held has a place (`HeldBy`, `OnePlace`).
  What is missing is where markers come from: by `SourceInv` a marker on its way, and a thread
  that takes it up, come from a process that the marker has reached, and a thread that gives the verdict of a
  collected snapshot has a full store, which stays full (`CollectedStays`); what the menu checks is not empty.  A step then leaves all reports alone (`QuietRun`), marks one process (`MarkStep`) or
  moves one report by one place (`ReportGoes`, `OthersAlone`); one lemma for each kind of thread
  says which (`SurveyMain`, `SurveyArrival`, `SurveyCoordinator`, `SurveyRestaurant`, `SurveyRunner`).
  That the verdict is what SnapshotWay allows holds of the entries of the store in any order: a
  pair of clocks each of which is ahead of the other is found whichever comes first.
* `WorkAlwaysShrinks` (`FoodDeliveryProofs`): `WorkShrinks`.  `Work` has a pair for every step that something outstanding
  has yet to cause, so that its size is the sum of `StepsLeft` without a fold to reason about.  It is
  finite because finitely many messages and threads are outstanding (`FiniteInv`), which needs that there
  are finitely many restaurants.  A step takes one thing away, and what it adds has fewer steps
  left in all.

**Cuts and causality** (`CausalityProofs`), for every topology, with any number of orders and
snapshots under way at the same time and any number of lost sends, that is, for more than the
runs Cut, Five and RunLog can hold:

* `CriterionIsExact` and `AlarmsAreTrue`: `CriterionExact` and `NoFalseAlarm`.  Every step is one of
  three (lemma `Events`): no clock event, an event of one process in which it may stamp messages, or
  the receipt of one message.  `CutClocks` collects the clock that a process has cut with,
  wherever it is on its way to P0's store, and the invariant `CutInv` relates these clocks to the
  history.  As long as a snapshot has no orphan, no process knows more of another than that one
  has cut with (`Ordered`): what could tell it is a message stamped after the cut (`LateInv`), and
  to take it before one's own cut makes it an orphan.  Once there is an orphan, some process
  knows more than another's cut, and never forgets it (`KnowsMore`).  The store is full when the
  test is made, so that it compares exactly these clocks.
* `MarkersInside`: `MarkersInsideCut`, if each restaurant has a runner of its own (`PartnersDiffer`,
  as P1 has P3 and P2 has P4; with a shared runner the second restaurant's marker may arrive after the
  cut).  The invariant `MarkerInv` follows the one marker of a restaurant and that of its runner:
  neither has cut before its marker is received, nor has its sender before it is stamped.
* `ConcurrencyExact`: `ConcurrentExact`.  The
  invariant `LogInv` says that the clock of a message, a process or a line counts exactly the
  events that are in its past (`ClocksTell`), so that to compare clocks is to compare pasts.  It
  holds at every moment of a run; `Over` is only when the logs are read.
* `TimelineIsCausal`: `TimelineCausal`, from the same invariant.  The timeline sorts by the sum of a clock
  first, and the clock of an effect is above that of its cause, so that its sum is greater (`SumGrows`).
  The sum is defined as the number of events that a clock counts (`ClockSum`), because to reason about
  a fold needs an induction that the prover cannot do.

**The machine of the demo** (`DemoProofs`), for any nodes, processes, addresses, entries and
numbers of commands and runs that satisfy `HostsAssumption` and `LauncherAssumption`:

* `TypeCorrect`: `TypeOK`, together with: a launcher at work is at work on a run.
* `BackupIsKept` and `EmptyIsRecoverable`: `OriginalKept` and `Recoverable`, from `BackupInv`, which
  says at which step of the tool the backup may be missing, empty or torn, and that the file is
  not touched before.
* `FinallyCleansUp`: `NoneLeftBehind`.  The invariant `LifeInv` says that every program of the
  run that is alive is in the launcher's list, or is the one just started; that after
  `Terminate` only a deaf one is alive, and after `WaitOrKill` none.  A killed launcher, a
  cut-short one and a program started as its launcher was interrupted alone (`unlisted`) are the
  exceptions, and why the property has them.
* `MetaIsOfItsLogs`: `MetaDescribesLogs`, as a log is opened before its program enters the list.
* `PreflightHolds`: `PreflightMeans`, from `ReadyInv`: from the check to the bind of the last program,
  the ports of those still to be started are free of all other runs, no program of another run
  is starting, and all programs read one and the same file.

**The log of P0 and its analyser** (`ReportLogProofs`), for any finite set of processes, any snapshots
and any number of glued lines, from `ReportAssumption`:

* `TypeCorrect`: `TypeOK`, which is inductive as it stands.
* `CompleteIsSound`: `CompleteSound`.  The analyser attaches a row to whichever report it has seen
  last, so the invariant `FullInv` speaks of all of them: a thread prints a report, and
  counts N, only after the store is full; the analyser's current report, the reports it has
  rows of and the progress lines that show all are of full stores.  It is why mixed lines can cost a
  report its rows, and put them into another one, but never make up a complete snapshot.
* `AnalysisIsExact`: `AnalyserExact`.  The invariant `ExactInv` says that what the analyser has read of a
  snapshot has a verdict, or a thread that will print one (`Reporting`); and that until a report is
  disturbed, or is being printed after it was (`Doomed`), the thread that prints one is the only one that
  prints, and the analyser has every row of it so far (`Undisturbed`).

**A runner** (`FleetRunnerProofs`), for any orders and any number of markers.  `IInv` is inductive and
gives all its properties: `TypeCorrect`, `RecordsExact` (`RecordExact`), `SummariesNotBehind`
(`SummaryNotBehind`), `DeliveredInTheEnd` (`QuiescentDelivered`), `ReportsOnce` (`OneReport`).  Its parts say
how many stages each order's thread has counted on the clock (`Counting`), what the
status is as long as orders have not overlapped (`OneByOne`) and when all have finished (`AllFinished`), when
the clock and the status of a record and of a summary were read (`ClockRead`, `StatusRead`), and that one
marker at most has claimed the snapshot (`OneClaim`).

**The transport** (`TransportProofs`), for any number of sending threads, sends, connections and
failures, whether or not the node may close:

* `TypeCorrect`, `LinksUsable` (`LinkUsable`) and `OneConnectionLeft` (`OneConnection`).  A connection
  that a thread has made and not registered is known to that thread alone (`Own`), which is why the loser of the
  race may close it; as long as nothing has failed the registered one is never replaced (`OneLink`, `AllThere`).
* `ImplementsLink`: the refinement `KeepsPromise`.  The invariant says that each message is in
  one place of one connection (`OnceEach`), that a connection keeps the order of sending
  (`InOrder`), and that without a failure there is one connection only.  A step leaves the frames
  of all connections alone, appends a new message to one, takes the first of one or drops
  the rest of one (`FramesNext`), and these are a stutter or the steps `Send`, `Arrive` and
  `Drop` of Link.

Each step of a specification has a case or a lemma of its own, under the disjuncts of `Next`.

**Only model-checked:** `NobodyWaitsForever`, which is about ENABLED, and liveness (`OrdersFulfilled`,
`SnapshotCollected`, `EveryMessageArrives`, `EveryRunEnds`), which is out of the prover's reach altogether.
Of the argument that the five programs come to rest, the theorem `WorkAlwaysShrinks` has the half that does not need
them: only finitely many steps are left.  The other half, that one of them can be taken, is `NobodyWaitsForever`.
Every other property of the passing runs is a theorem.  The properties of the other four runs do not hold.

## 5. What is abstracted, and what is not modelled

* A message enters the network at its `send_event`.  The time until `sendall` is a
  longer stay in the network.  The send of a restaurant's STATE, which is made under its lock, returns
  in a step of its own (`ReleaseLock`), at any time after.
* A merge of steps is named where it is made: `InitiateSnapshot` (no other thread
  reads what its section writes), `CheckMarker` (a thread in between finds the snapshot
  recorded), `SendFails`.  `CheckSnapshotConsistency` and `CountStates` read the store in
  one step; in between only P0's own entry could change.  `CheckViewed` does so in the main thread: it judges
  the entries that are there when their names are taken (`p0.py:226`), which no other thread replaces.
* The channel states hold messages, and a snapshot's local state is only its
  identifier: nothing reads the rest.  The clock inside `local_states` is sent along
  and never read.
* An order is one call of `send_order`.  In the code identifiers may repeat (menu option
  6 always uses 101 and 102).
* The topology makes some branches unreachable, as it does in the code: a restaurant
  has one incoming channel, so `NothingToComplete` finds no open one, P0 gets no
  MARKER, and a runner gets a second marker only if its restaurant forwards two.
  `DuplicateMarker` and `FleetRunner` keep that branch.
* In `Demo` the tool and the editor are not used at the same moment, nor two tools or two
  launchers: one person works on the machine.  `Preflight` is one step, and counts only when no
  program is starting, because a port may be bound between its check and the end of the script.
  With one address for all nodes `detect_my_node` takes this machine for the first of them
  (`team_repo.py:218`), so `PreflightMeans` then speaks of P0's port only.
* In `ReportLog` a snapshot is triggered once, there is no menu, as the input of a P0 whose output the
  launcher logs is empty, and its own log file is the one that is read.
* The analyser's lines of kind snapshot are left out of RunLog: they carry a clock and are
  no event of it.
* Not modelled, of the five programs: a program that is restarted while the others go on (its
  clock starts at zero again, and nothing in the code handles that); the `RuntimeError` of
  menu option 4, which iterates over the store in the main thread and would end P0 (that of a handler's
  thread is a count that came too early, see `CountStates`); the `--order` and `--snapshot` modes, in which P0
  ends after one call.
* Not modelled, of `infra/`: `--keep-logs`, the threads that copy output into the log files, the
  `[ports]` section, `find_repo`, the probes of Python and of the network in preflight, the
  scripts around `cluster.json`, which no program under `src/` reads, the analyser's marker and
  channel lines, its checklist and its HTML page.  Regular expressions are modelled by what
  they find.
* Not modelled: how long anything takes.  That the listeners are there before the senders is
  a matter of sleeps (`run_demo.py:236`), and a message that comes too early is lost as one
  whose send fails.

## 6. Plan

Done: the core (`VectorClock` to `SnapshotCut`), `FleetRunner`, `Link` and `Transport`,
`AnalyseRun`, `RunLog` and `ReportLog`, `OrderWay` and `SnapshotWay`, and the tools around the programs
(`HostsConfig`, `Launcher`, `Demo`), with the theorems of section 4.  Next, in this order:

1. A second sending node of the transport, and the handshake with its rejection, with the theorems of
   `TransportProofs` carried over.
2. Restarts: what the properties of `FoodDelivery` are worth when a program starts again from nothing
   while the others go on.
