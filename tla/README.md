# A verification project for kafka-docker

kafka-docker runs Kafka brokers in Docker containers on *virtual hosts* and
administers them from one *tech host*. The two sides meet in ZooKeeper, under
`/dockerized`. This directory holds TLA+ modules of its programs, TLC
configurations that check them on small instances, and proofs checked by TLAPS.

Source references are `file:line` of the repository.

## 1. The system

```
 virtual host                                  tech host
 +-- container ---------------------+          dockmon.py  (daemon.py)
 | PID 1: start-kafka.sh            |             | watches /dockerized, asks the
 |   |- Kafka broker                |             | Docker API of the host, writes
 |   |- create-topics.sh            |             | the mapped port into the entry
 |   `- kafka-watchdog.sh ----------+--\          |
 +----------------------------------+   \   +-----------+
                                         >--| ZooKeeper |--- recentdocks.py, zk_tools.py
    /dockerized/<container>             /   +-----------+    (readers)
        {virthostip, virtHostPort, ...}                    addbroker / removebroker /
    /dockerized/<container>/brokers/<id>                   addhost / removehost .sh
        {heartbeat}                                        kafka-move-leadership.sh
```

### Inventory

| component | state | operations | hard behaviour | what makes it correct |
|---|---|---|---|---|
| `k/start-kafka.sh` | the line it is at, KAFKA_PID, WATCHDOG_PID | start, TERM handler, `wait` | a signal at any command; the order in which it stops two children; its death kills them | a stop request ends the container; it leaves no entry |
| `k/kafka-watchdog.sh` | BROKER_ID, the subtree in ZooKeeper | remove, create, locate, poll, publish, heartbeat, trap | traps between commands; restarts over an old subtree; commands that fail unnoticed; kills | only the own broker's id; never an id without an address; nothing left after an exit; what is lost is repaired |
| `lib/dockmon.py` | list of docks, two locks, the entries' data | callback, rounds, handler | two threads and two locks; a one-shot watch; data read, used and written back; fork with threads; a handler that locks | no change lost, no entry answered twice, no deadlock, every serving container answered in the end |
| `lib/daemon.py` | the pid file | start, stop, restart | a file that outlives its writer; a signal repeated until the process is gone; pids used again | one daemon; it can be found; stop stops |
| `lib/kafka-move-leadership.sh` | the plan | list, replace, draw | ids compared as text; a loop that ends by luck; one partition failing after others | the plan covers what the broker leads as far as it was listed, keeps the data, ends |
| `removebroker.sh`, `status.shlib` | the reassignment's progress | plan, execute, poll, decommission | tests of `$?` that are constant; partial failure | Kafka never gets half a plan; the script ends and says how |
| `addbroker.sh`, `compose.shlib`, `docker.shlib` | scale files | add, scale up and down, look up | read-modify-write; several hosts | the scale file agrees with what runs |
| `lib/recentdocks.py` | the containers Docker listed, the entries still to be read | list the brokers of new containers | reads entries one by one, in two requests each, beside their two writers | a list that is printed misses nothing; asking again helps |
| `lib/devopsclient.py` | the brokers, leaders and partitions it knows | load metadata, look up a leader, split a request over the leaders, wait for a topic | a cache that is out of date; brokers that fail before or after others have answered; answers about brokers it must not use | an answer or error for each payload; it recovers; a specific broker's client talks to no other; calls end |
| `sync_producer.py`, `sync_consumer.py`, `brockercheck.py`, `funcchecks.shlib` | the broker and role of the check, the client's leaders | produce, consume, next broker | the cluster changes between lookup, metadata, request and answer; verdicts that rest on exceptions; a consumer that waits for ever | an exit status of 0 is earned |
| `clusterstatus.sh`, `containercheck.sh`, `zkcheck.py`, `ip_tools.py` | the servers still to be asked, the answer so far | ask, report, go on to the next check | answers that replace each other; a server that says nothing | no server is lost from the report; the report ends |
| `k/create-topics.sh` | seconds waited | wait, create | a limit | waits no longer than it says |

They interact in these places: the TERM that PID 1 passes to the watchdog; the
watchdog's `kill -0` on Kafka; the subtree under `/dockerized`, written by
watchdogs and by dockmon without versions; dockmon's watch; the pid file; and
the plan that `removebroker.sh` hands to Kafka.

## 2. Modules

| module | what it is | uses |
|---|---|---|
| `DockRegistry` | abstract: the life of an entry as its readers may rely on it | |
| `Watchdog` | `start-kafka.sh`, Kafka as the scripts see it, `kafka-watchdog.sh` | instance of `DockRegistry` |
| `WatchdogProofs` | theorems of `Watchdog` | extends `Watchdog` |
| `System` | both ends at one tree: the scripts of `Watchdog` and the monitor of `Dockmon` | extends `Watchdog`, instance of `Dockmon` |
| `WatchdogRefinement` | that `Watchdog` implements `DockRegistry`; theorems of `System` | extends `WatchdogProofs`, `System`; instance of `DockmonProofs` |
| `Dockmon` | `dockmon.py` against containers that behave as `DockRegistry` says | extends `DockRegistry` |
| `RecentDocks` | `recentdocks.py` beside the monitor and the containers | extends `Dockmon` |
| `DockmonProofs` | theorems of `Dockmon` and `RecentDocks` | extends `RecentDocks` |
| `PidFile` | `daemon.py` and the daemon's answer to SIGTERM | |
| `PidFileProofs` | theorems of `PidFile` | |
| `MoveLeadership` | `kafka-move-leadership.sh` | |
| `BrokerRemoval` | `removebroker.sh` and `status.shlib` around it, with Kafka's reassignment | extends `MoveLeadership` |
| `RemovalProofs` | theorems of `MoveLeadership` and `BrokerRemoval` | extends `BrokerRemoval` |
| `DevopsClient` | `devopsclient.py` and the cluster it asks | |
| `DevopsClientProofs` | theorems of `DevopsClient` | |
| `DevopsClientHealing` | its type, and the bound on failed requests | extends `DevopsClientProofs` |
| `ZkCheck` | `zkcheck.py` and `ip_tools.py` against servers in any state | |
| `BrokerCheck` | the producer and consumer checks against a cluster that changes | |
| `ClusterStatus` | `clusterstatus.sh`, or one check alone | extends `ZkCheck`, `BrokerCheck` |
| `ClusterStatusProofs` | theorems of the three | extends `ClusterStatus` |
| `MC*` | the small sets the runs use | |

### DockRegistry

The owner of an entry goes through the phases `down`, `up`, `enrolled`,
`serving`, `leaving`. It may create the entry when the old one is gone, write
the address once, publish an id after the address, and remove leaves before
the entry; the container can end in any phase and leave the tree as it is.
Another program may write the entry's data meanwhile (`Recorded`).

### Watchdog

One action is one command of a script; a `zookeeper-shell` command that touches
several znodes (`rmr`, the chain of creates in `zk_ensure`) is one action per
znode. `init` and `wd` are program counters, named for the next command:

* PID 1: `SetTrap` (l. 71), `ForkKafka` (73), `NoteKafkaPid` (74), `ForkWatchdog`
  (75), `NoteWatchdogPid` (76), `WaitReturns` (78). bash runs the handler between
  two commands, so `HandleTermAtWait`, `HandleTermEarly` and `HandleTermAtOnce`
  are what `term_handler` does with the variables it finds assigned.
* the watchdog: `Begin` (l. 104-114), `RemoveNode`/`RemoveReturns` (`zk_cleanup`, at
  the start, in the trap and at the end), `Enrol` (117), `Locate` (118), `Poll` (121),
  `Look`/`Retire`/`EnsureNode`/`EnsureReturns`/`Beat`/`Answer` (`getBrokerId`), `Sleep`.
  `Proceed` handles a pending trap; `getBrokerId` runs in a command substitution,
  which is one command of the main shell, so no trap runs inside of it.
* the environment: `DockerStart`, `DockerStop`, `DockerKill`, `KafkaCrashes`,
  `WipeLogs`, and `ShellFails`, a lost `zookeeper-shell` command anywhere.

A detail that matters: `STAMP` is assigned inside the substitution, so the main
shell's value never changes and every round counts as an update. That is what
makes the loop repair what failed commands left out (`IdIsPublished`; the
variant `Look_OnChange` shows that the obvious "fix" would break it).

`ImplementsRegistry` maps `init` and `wd` to a phase (`PhaseOf`), the sets `docks`
and `located` to the entry's data (`InfoOf`), and `ids` to `shown`.

### Dockmon

Two threads, `main` and `callback`, with a program counter each (`pc`), the two
locks and the local variables of `update_zk_context`. `Bootstrap` is the
callback's first call, made by the main thread; `Notice` is kazoo's thread
taking the event of a one-shot watch; `Round` is an iteration of `run()`;
`Get`, `AskDocker` and `Set` are the three steps between which an entry can be
changed; `NoNode` and `DockerFails` are the exceptions, which end the callback
or, in the main thread, the process; `Daemonize` is the fork, which copies
neither kazoo's threads nor frees a lock one of them holds; `Terminate`,
`Cleanup` and `Close` are the handler. The initial state chooses `start`: in the
foreground or as a daemon, with `/dockerized` there or not.

### RecentDocks

`getDockInfo` takes running containers, of which those that are recent are left
open; `ListDocks` is the request for the children after the sleep; `ReadDock` the
read of an entry, and `ReadBrokers` that of its ids. The entry may be gone, or
list nothing, at either: the exception ends the command, which may be given
again. Monitor and owners take their steps in between. `steady` is a history
variable: the containers that have been ready all the time since the listing.

### System

`Watchdog` knows of an entry whether the address was written, and `Dockmon` knows
containers as `DockRegistry` describes them. Here the entry has its data (`info`,
`DataAfter`: they go with their znode, and the watchdog's `zk_set` replaces them,
an answer of the monitor too), a container has its port, and the monitor is an
instance of `Dockmon` for which `phase` is `PhaseOf` and an id is shown where one is
listed (`TechHost`). `AtContainer` is a step of the scripts with what it does to the
data and the watch, `OnTechHost` one of the monitor. So the monitor's environment is
the scripts with their failing commands, not the protocol.

### PidFile

`Give` starts a command; `Refuse`, `Fork`, `ReadsEmpty`, `NotRunning`, `ReadsPid`,
`KillDaemon`, `KillStranger`, `NoSuchProcess`, `Exists`, `RemoveFile` are the steps
of `start()`, `stop()` and `restart()`; `Interrupt` is Ctrl-C. The daemon boots,
creates and writes its pid file (two steps: the file is empty in between),
sleeps or is in a round with `zk_lock`, and answers SIGTERM as `dockmon.py:22-25`
and `73-75` do, or with the default action if it was started by `restart`. Pids
are used again, also by strangers.

### MoveLeadership

`Describe` is the line that `kafka-topics.sh` prints of one partition, and passes through
`grep` (`Matches`) or not; `ListingEnds` is the end of the listing, or its failure before
any partition: the status of the pipeline (l. 279) is not looked at. Then, for each
listed partition, one of `Keep`, `GiveUp` or `StartDrawing`, and `Draw`, makes up
`replace_broker`. `Elect` changes leaders meanwhile, also between two lines.
Ids are numbers;
`Digits`, `Characters`, `TextLength` and `Matches` compute what the script learns from them
as text.

### BrokerRemoval

`Execute` hands the plan to Kafka, or what there is in its place: the script's
tests of the exit status (l. 55, 61, 67) are constant, so nothing keeps it from
going on. `Reassign` is Kafka, which moves a partition or gives it up. `StatusLoop` is
one look of `status_loop` with its outcome: since its tests are constant too, the
first look is the last and reports an error, and the broker is never stopped
(`decom_broker` is not reached, and not modelled).

So a removal ends with 1 and the message "Partition reassignment ... failed" also
when every partition has moved. `removebroker.sh:68, 79`, the success branch of
`status.shlib:135-139` and `doc/README.txt:70-72` ("Removes the broker with specified ID
from the cluster") say otherwise. One line decides it, whatever the state; what is
checked is what takes several steps: that nothing half planned is executed and that
the removal ends (`RemovalEnds`). With the tests as they were meant it would wait for
Kafka, and a partition that Kafka gives up would keep it waiting (`StatusLoop_Waits`).

### DevopsClient

`StartLoad`, `SkipHost`, `AskHost` and `NoHostLeft` are `load_metadata_for_topics` with the
request that tries one host after the other; `then` says who waits for the answer:
the constructor, a leader lookup or `ensure_topic_exists` (`EnsureTopicExists`,
`EnsureTriesAgain`, `EnsureEnds`). A request goes through `Request`, `LookUp` for each
payload (`AssignLeader`, or a refresh and `LeaderAfterRefresh`), `StartSending`, then
`SendTo`, `SendToNobody` or `SendToUnknown` for each leader, `Receive` for each future,
and `Return`, with what is forgotten (`Forgotten`) and raised (`Raised`).

The cluster is one flag. Before `Settle`, each connection may fail and each answer
may be anything a broker with an old view says; so every history of elections,
failures and late propagation is covered without a state of its own. Afterwards
`up` and `leader`, chosen then, are what connections and answers go by, but for the
connections in `_conns` (l. 67-80) that are broken without the client's knowledge:
each of those (`stale`) fails once, when a request is sent over it or answered
(`Fails`, `Accepts`), and is closed and opened anew (`Drop`).

Before `Settle` an answer may name a leader that it does not list, the case l. 580-585
are written for. Such a leader has no host; l. 251 raises, resets nothing, and finds
the same leader the next time (`SendToUnknown`). That is not forgotten by any rule of
the code, so no property says that it heals: `HealsSoon` counts the requests whose
errors the caller is told of. And a broker may have the id 1010, which l. 531 gives to
a specific broker that is not listed; ids that Kafka allocates (`start-kafka.sh:11-13`)
count up from 1001. Its partitions are then asked of the specific broker, which
answers with an error (`LeaderMetadata`): what a specific broker's client is answered
always came from that broker's address, also then (`PassedByItself`).
`topics_to_brokers` leaves out the keys whose value is `None`: the code never
tells them from absent ones.

An answer may hold an error of another kind than the two the code expects
(`Broken`): then the load raises, also a refresh of everything, and what the answer
said of the topics before stays in the caches (`LoadRaises`). So l. 487, "Exceptions
*will not* be raised in a full refresh", is true of those two kinds only.

An exception nobody catches (`KeyError` in l. 126, `get_ip_port_afi(None)` in l. 251)
ends the request and resets nothing. With a specific broker that is what happens
for each partition another broker leads, so that the file's first line, "a
specific Broker, including replicas", holds only for a replica that leads
(l. 569 says "we never talk to replicas, only the leader"). And since l. 543-546
no longer look at `ignore_leadernotavailable`, the `LeaderNotAvailableError` that l. 501
announces never leaves `load_metadata_for_topics`.

### ZkCheck, BrokerCheck, ClusterStatus

`StartZk` finds each server of `ZK_LIST` in some state and each entry written in
some form (`get_ip_port_afi`: what cannot be taken apart raises); `Probe` is one round
of `leader_detect`, in the order `collect_hosts` has shuffled the servers into.

A check of a broker goes through `GetBroker`, `Connect` and `Produce` as a producer, and
through `GetBroker`, `Connect` and `FetchOffsets` (the consumer asks each leader for the
group's position, and raises if one is down), and then one of `FetchRaises`, `Match`,
`Mismatch` and `ReadCluster`, as a consumer. A message that was read is gone for the
group, or comes again (`Read`): positions are committed now and then. `script` says who runs it, since the same exception ends the command
(`sync_producer.py`), the whole of `brockercheck.py`, or nothing, as nobody looks
at the producer's status in `funcchecks.shlib` (`Raise`). `Move` changes the cluster between any
two of these steps. Of the client only two facts are used, which `DevopsClient` shows:
it has no host for another broker than its own, and its leaders are those of
its last metadata (`HasHost`, `known`).

After the check of a container `brockercheck.py` closes a consumer it has not
made (l. 53), so that no container ever passes; `containercheck.sh` looks at no
status, and ends with 0.

## 3. Runs

| run | instance | shows |
|---|---|---|
| `system` | one container, 2 lost commands, 2 emptied log directories; the monitor in the foreground beside it as long as there are none | `TypeOK`; `OwnBrokerOnly`, `GoneMeansAbsent`, `IdsAreUsable`; `ImplementsRegistry`, `ImplementsDockmon`; `HostIsPublished`, `StopCompletes`, `IdIsPublished` |
| `watchdog_crash` | one container | violated: `CrashUnregisters` |
| `dockmon` | one container and a second one that keeps its place, one port, 1 failing Docker call, all four ways to start, recentdocks at any time | `RecentTypeOK`, `DocklistIsCurrent`, `NoneIsMissed`, `RecordedOnce`, `LocksAreHandedOn`, `StopBetweenRounds`, `CatchesUp`, `ServingIsPrinted` |
| `dockmon_stale` | 2 ports | violated: `AnswerIsRight` |
| `dockmon_daemon` | | violated: `DaemonCatchesUp` |
| `pid_file` | one operator who waits, 3 pids | `PidTypeOK`, `OneDaemon`, `DaemonIsNamed`, `StopIsThorough` |
| `pid_file_stop` | one pid | violated: `StopReturns` |
| `move_leadership` | 2 partitions on brokers 1, 10, 11; broker 1 goes; 3 ranges | `RemovalTypeOK`, `PlannedListsAreSound`, `PlanIsComplete`, `NothingByHalves`, `DrawCanEnd`, `RemovalEnds` |
| `move_leadership_prefix` | the same | violated: `BrokerIsExcluded` |
| `devops_client` | brokers 1 and 1010, 2 topics of one partition, requests of up to 2 payloads, with and without a specific broker | `ClientTypeOK`, `AllAnswered`, `AnswersAreFinal`, `HealsSoon`, `PassedByItself`, `CachesAgree`, `CallReturns` |
| `cluster_status` | 2 servers, 2 brokers, 2 partitions, one leftover message, 2 changes, 1 failed request | `StatusTypeOK`, `OnlyLeadersAreLost`, `ZeroIsEarned`, `ReportEnds` |
| `cluster_status_two` | 2 brokers that do not change, no leftover message | violated: `HealthyPasses` |

Every property of a run that passes has a *variant* of one definition (`X_Something` before `X`, a
dropped guard, a missing reset, an off-by-one) under which TLC finds it violated.
The variants are not part of any specification.

### Bounds, and why they are enough

* *One container.* The containers of `Watchdog` share nothing but the sequence
  broker ids are drawn from; the properties of `system` speak of one container
  each, and the one that speaks of two (`IdsAreDisjoint`) is proved, as the others are,
  for any set. dockmon treats its entries one by one; with one
  container every window between listing, reading, asking and writing is there.
  What two entries in one loop add (an exception at one abandons the other) is
  the case "the loop was abandoned" for the other, which `DockerFails` gives.
* *Two containers in `dockmon`* (`Bounded` in `MCRecentDocks`): recentdocks reads its entries
  one by one too, and one that fails ends the command for all, so `ServingIsPrinted`
  needs a second one. It is down for good, or serves before the first one and the
  monitor have begun, with an id or without one; then it stays as it is, the
  first container comes up beside it, and Docker answers. Without the premise that
  every entry which stays lists an id, TLC finds the property violated here.
  Beside a daemon recentdocks is not run.
* *`system`* (`Watched` in `MCSystem`): the scripts alone lose commands, lose their
  directories and crash; from when the monitor has begun they are only started,
  stopped and killed, and a kill leaves the entry to the next run, and its data to
  the monitor. Left out are the daemon and the monitor that finds no `/dockerized`
  (`MCSystemInit`), the subject of `Dockmon`'s own runs, and failing calls of Docker,
  which `dockmon` has; the proofs leave nothing of this out. The monitor may sleep
  for ever, so the liveness properties are those of the scripts.
* *`MaxLost = 2`*: one lost command per removal or creation, and one more in its
  repair. *`MaxWipes = 2`*: an id changes, and changes again while the first
  entry is still there. Starts, stops, kills and crashes are not bounded.
* *`Ports = {1, 2}`* in `dockmon_stale`: an earlier run's port and this run's. The
  properties of `dockmon` do not tell ports apart, only from 0.
* *`MaxFaults = 1`*: the callback is abandoned once; a fault in the main thread ends it.
* *3 pids*: a dead daemon's, a new daemon's and a stranger's; each is used again.
* *Brokers 1, 10, 11*: an id that is a prefix of the others and two lengths of
  text; the ranges are the brokers that stay, a cluster of one broker (no
  replacement), and a broker that has just joined. `MaxReplicas = 2`.
* *2 servers, 2 brokers, 2 partitions*: one is asked or checked after the other, and
  a partition is led by the broker of the check or by another one. The cluster
  may start in any state, so *2 changes* are two between the steps of the checks.
  The leftover message is that of the last check: one that no check before it
  looks for.
* *2 brokers, 2 topics*: a request is split, one part fails and one is answered; one
  topic is forgotten and the other one kept. One of the brokers has the id of the fake
  one, and one partition at a time a leader that was not listed (`OneUnlisted`); two
  would be two topics that never heal instead of one. Two partitions of one topic differ
  from two topics only in being forgotten together. `MaxTries = 1`: a round of
  `ensure_topic_exists` and its timeout. `HealsSoon` counts failed requests up to one
  more than it tolerates, five (`Tolerated`); four are reached.

### Fairness

* `Watchdog!FairSpec`: the scripts are scheduled, Kafka takes an id and obeys
  TERM, a `zookeeper-shell` command returns. Weak fairness per process suffices:
  a process's next command stays enabled until it is run. Nobody has to start,
  stop, crash or kill anything, and no lost command has to happen.
* `DockmonFairSpec`: weak fairness for the two threads and the delivery of
  events; strong fairness for taking `zk_lock`, because the main thread releases
  it in each round and sleeps for minutes before it takes it again, so that the
  callback, blocked in `acquire`, gets it.
* `PidSpec`: commands go on, and a daemon that is closing or exiting ends.
* `MoveSpec`: the script goes on, and `shuf` in the end draws an id that is not
  excluded, if there is one. `RemovalSpec`: both scripts go on, and Kafka moves each
  partition of a plan it has taken, or gives it up.
* `RecentSpec`: the fairness of `DockmonFairSpec`, and a command goes on once it was given.
  `MCRecentSpec` and `MCSystemSpec` are the specifications with the bounds above.
* `StatusSpec`: the tools go on; nothing is assumed of servers, brokers and messages.
  A server or a broker that is waited for stops them, since no timeout is set.
* `ClientSpec`: a call goes on. Connections have a timeout (l. 82), requests have one
  (`request_timeout_ms`, l. 73), and a future that fails is done. The caller need not
  make a call, and the cluster need not settle.

### What the violated properties say

Each is a sentence of a comment or a document; `findings` in PROJECT.json quotes
it.

1. `CrashUnregisters`: after a crash of Kafka, PID 1 ends with it, and takes the
   watchdog with it before that has removed the entry.
2. `AnswerIsRight`: `update_zk_context` writes back without a version; the port of
   a container's earlier run can land in the entry of the next, for good.
3. `DaemonCatchesUp`: as a daemon the monitor has lost kazoo's threads in the
   fork (`bootstrap()` is called before `start()`), and records nothing.
4. `StopReturns`: the SIGTERM handler takes a lock that the interrupted thread, or
   the handler itself interrupted by the next SIGTERM, holds.
5. `BrokerIsExcluded`: `grep "Leader: 1"` also finds `Leader: 10`, and only the
   partition's own replicas are excluded from the draw; so the broker that is
   to go can be given a partition.
6. `HealthyPasses`: the client of one broker has no host for what other brokers lead
   ("including replicas" holds only for replicas that lead), so with two healthy brokers
   `brockercheck.py` ends with 1. It ends with 0 only if it has listed one broker
   (theorem `OnlyOnePasses`).

More weaknesses are in the models, and are what properties have premises for:
an entry removed between listing and reading ends the monitor in its main thread
(`Alive` in `CatchesUp`); a monitor started before the first container finds no
`/dockerized` and never looks again (`start.root`); `start` returns before the daemon
has written its pid file, so that a second command given at once finds none
(`Patient`, `OneOperatorWaits`); one entry without an id ends `recentdocks.py` for all
(`docks \subseteq shown` in `ServingIsPrinted`); a listing of `kafka-topics.sh` that is cut short
goes unnoticed (`listed` in `NothingByHalves`, `led` in `PlanIsComplete`); and a leader
that was not listed ends each request for its partition (`SendToUnknown`).

## 4. Proofs

`WatchdogProofs`, for every set of containers and all values of the bounds, from
`BoundsAssumption` only:

* `TypeCorrect`, `OwnBroker`, `CleanExit`, `LocatedFirst`: `[]TypeOK`, `[]OwnBrokerOnly`,
  `[]GoneMeansAbsent`, `[]IdsAreLocated`; and `DisjointIds`, `[]IdsAreDisjoint`: no id is
  listed under two containers, whatever is restarted, emptied or lost.

None of the properties is inductive: `OwnBrokerOnly` says nothing of the states
in which the old entry is being removed. The inductive invariant `IInv` adds

* the *shape* (`ShapeOK`): an id in the tree needs `brokers`, which needs the entry;
  which processes can be alive at which line of PID 1; an id that the watchdog's
  shell remembers is the one on its broker's disk,
* with no command lost, what is in the tree at each command (`NoLossOK`): nothing
  at `enrol`, the entry at `locate`, the address in the loop,
* *ownership* (`OwnershipOK`): an id that is listed or on a disk is below `nextId`,
  and belongs to one container.

`TypeStep`, `ShapeStep`, `NoLossStep` and `OwnershipStep` show the four parts to be
preserved, one step per action; `InvStep` joins them; the theorems follow by
temporal reasoning.

`WatchdogRefinement` proves `Implements`, `Spec => ImplementsRegistry`: the initial states
are the registry's, and each step up to the first failed command is a step of its
owner or leaves what readers see as it was. `IInv` does not suffice: `AllForkOK` adds that
a watchdog is forked only where none runs, and that an id that is retired is not
the broker's own. The steps of a container are first reduced to nine *outcomes*, which
say what becomes of phase, entry and ids; then each outcome is shown to be a
step of the registry, once, instead of once for each of the scripts' commands.

The second half is about `System`, for any containers and ports and any number of
lost commands and failing calls. `ListSurvivesLosses`, `[]ListIsCurrent`, and
`AnsweredOnceOverall`, `AnsweredOnce`, are the monitor's promises without the protocol:
`DockmonProofs` proves all of its invariant but `EntriesOK` for any environment that
writes no answers of its own (`Outside`), and `ScriptsAreOutside` says the scripts are
one, failed commands included. `UsableIds`, `[]IdsAreUsable`, needs `DataOK`: where the
watchdog has written an address the data hold one, whatever the monitor has
written over them. `ImplementsOverall`, `SystemSpec => ImplementsDockmon`, is the
refinement: while no command failed, the whole takes steps of `Dockmon` or none
that it sees. So what is said of `Dockmon` there is said of the scripts as they are.

`DockmonProofs`, for any containers, ports and number of failing calls: `TypeCorrect`,
`LocatedWhenShown`, `NoChangeIsLost`, `AnsweredOnce`, `SteadyIsPrinted`, that is `RecentTypeOK`,
`ShownIsLocated`, `DocklistIsCurrent`, `RecordedOnce` and `NoneIsMissed`; and `NoCircularWait`, `[]HoldersGoOn`: whoever holds a lock is at
a line where it waits for none, but for the owner of `docklist_lock` at `zk_lock`, whose
holder waits for nothing. That is why `LocksAreHandedOn` can hold. The invariant has what an entry holds in
each phase of its owner (`EntriesOK`); that a thread between `Get` and `Set` holds
`zk_lock` and an entry that is not answered for (`LocksOK`, which makes `RecordedOnce` an
invariant's consequence); what SIGTERM leaves (`StopsOK`); and what the listing in hand
is worth while the watch has not fired (`ListingOK`).

`RemovalProofs`, for any partitions, ids, ranges and lengths of lists: `TypeCorrect`, `SoundLists`,
`CompletePlan`, `AllOrNothing`: wherever the listing ended, what the broker led as far as it got
is planned, and nothing of what was listed is left out of what Kafka gets. The invariant has what the loop is past (`LoopOK`), that the broker
is among the replicas of what it led (`LedOK`: without it nothing would be left out),
and that Kafka gets the plan only at the end (`StageOK`). Two more theorems are about ids as text:

* `DrawsEnd`, `[]DrawCanEnd`: once `other_broker` draws, there is an id that is not excluded,
  so that the loop does not depend on luck alone. The script compares the *lengths* of
  two texts; the text of a set of ids is counted as the set of its `Characters`,
  which grows with the set.
* `ExcludedByItsId`, `NoLongerId => (RemovalSpec => []BrokerIsExcluded)`: the condition
  under which the violated property is true. `NoLongerId` says that no other id
  begins with the broker's digits, as in a cluster of brokers 1 to 9. A listed
  partition is then one that the broker led (`OnlyLed`).

`ClusterStatusProofs`, for any servers, brokers, partitions, leftovers and bounds: `TypeCorrect`,
`NoneIsForgotten`, `NoEmptyPass`, `OnlyOnePasses` (what follows from the violated `HealthyPasses`
for any number of brokers). The invariant has what is known of the
servers that have been asked (`ReportOK`), what has been heard of which brokers at
each step of the check (`VerdictOK`), and, as long as the cluster has not changed, that a
broker that was heard leads everything (`LeadOK`). `ToolStepsCount`, `EachToolStepCounts`, is the
part of `ReportEnds` that needs no fairness: a step of the tools ends a stage, a check,
a server or a broker of the check, in this order, and brings none back.

`PidFileProofs`, for any set of pids and one operator who waits
(`OneOperatorWaits`): `TypeCorrect`, `AtMostOne`, `AlwaysFound`, `ThoroughStop`. The
invariant is that the file *follows* the daemon (absent, empty, its pid), that
commands wait for it, and that the process being signalled is the one the file
names. The assumption is needed: two operators, or one who does not wait, can
have two daemons.

`DevopsClientProofs`, for any brokers, topics, partitions, payloads and answers, from
`ClientAssumption`:

* `TalksToOne`: `OnlySpecific` is inductive as it stands.
* `EachIsAnswered`, `AnswersStand`: `TodoOK` (what has been looked up and what has not
  make up the payloads) and `AnswersOK` (a payload has an answer exactly if its
  leader is neither to be sent its part nor awaited). `AllAnswered` alone speaks of
  the end only.
* `CachesStayTogether`: `CachesAgree` is inductive; a refresh that stops half way leaves the
  two caches to agree (`AgreeStep`).
* `PassesAreOwn`, `[]PassedByItself`: with a specific broker, what is answered
  and has not failed was sent to that broker's address, whatever id the leader has.

`DevopsClientHealing`, from the same assumption (which says that there are finitely
many topics):

* `TypeCorrect`: `ClientTypeOK`, with `AllReal` (whatever host a client of the cluster keeps is
  a broker's), `TodoOK` and `AnswersOK` as lemmas. That the payloads
  of a request differ matters: the one at hand has no leader yet (`AtHand`).
* `FailuresAreBounded`: `HealsSoon` is not inductive. `HealOK` adds a measure: after the
  first failure in a settled cluster, the failures, the *stale* topics (with a leader of
  old that has a host, in the cache or chosen for the request under way), the broken
  connections and one more if the request under way has used one of them up (`ToCome`)
  are together no more than the topics, the broken connections at first, and one.
  `Healing` says why the sum never grows: a request made since then fails only at a
  leader of old, or over a broken connection, and its topic, or everything, is forgotten
  as it returns (`CountHolds`, `HealStep`); no answer of the settled cluster makes a topic
  stale again (`AnswerHeals`). The request that was under way at that time may fail
  of anything; that is the one more.
* `StepsCount`, `EachStepCounts`: each step of a call lowers, in this order, the rounds left of
  `ensure_topic_exists`, the payloads not looked up, the stage, and what is left to do in it
  (`Left`). Unlike `HealsSoon` it is about any cluster.

Only model-checked is what needs fairness, which the prover does not handle, nor
`ENABLED`: `HostIsPublished`, `StopCompletes`, `IdIsPublished`, `LocksAreHandedOn`,
`StopBetweenRounds`, `CatchesUp`, `ServingIsPrinted`, `RemovalEnds`, `CallReturns`,
`ReportEnds`. Of four of them the part that is safety is proved: `HoldersGoOn` (no circle
of waiting, for `LocksAreHandedOn`), `DrawCanEnd` (for `RemovalEnds`),
`EachStepCounts` (for `CallReturns`) and `EachToolStepCounts` (for `ReportEnds`). That their
measures end by being bounded below is an induction, and is left to the reader.
Every invariant and every action property of a passing run is proved.

Only proved, and no part of a run, are properties of which another one that is
checked says as much on a small instance: `IdsAreLocated` and `ShownIsLocated` (with the
data as they are: `IdsAreUsable`), `ListIsCurrent` and `AnsweredOnce` (for the scripts what
`DocklistIsCurrent` and `RecordedOnce` are for the protocol), `HoldersGoOn`,
`EachStepCounts` and `EachToolStepCounts` (see above), `OnlySpecific` (`PassedByItself`); and
two that a small instance says little of: `IdsAreDisjoint`, about two containers with all
their scripts, and `OneBrokerPasses`, the other side of `HealthyPasses`.

## 5. Not modelled, and why

* The edits of `server.properties` (`start-kafka.sh:3-47`) run before any other
  process exists; the steps of option parsing; texts, logs and mail.
* Loss of a ZooKeeper session in dockmon (kazoo reconnects; no code here reacts).
* The watchdog's `ifconfig` and JSON texts: an address is there or is not.
* In `devopsclient.py`: `copy`, `reinit` and `close`, which only touch connections, each of which may
  fail at any time; and the requests to the coordinator of a group (l. 128-150,
  306-389, 698-707), which nothing in the repository sends.
* `create-topics.sh`, a child of PID 1 that nobody waits for: it polls Kafka's port and
  calls `kafka-topics.sh`, and writes nothing that another part reads.
* `decom_broker` (not reached) and `removehost.sh`, a loop around `removebroker.sh`.
* `addbroker.sh`, `addhost.sh`, `bootstrap_cluster.sh`, `compose.shlib`, `docker.shlib`: commands in a row
  on files made from templates, and lookups in the output of other programs.
* In `zk_tools.py` the functions that nothing calls.
* Compose files, Dockerfile, installation scripts, documentation: no behaviour.
* `attick/`: scripts out of use.

## 6. Plan

Written, in the order of importance: the registration of containers with its
refinement, its monitor and its reader, both ends at one tree, the daemon's commands, the reassignment plan
and the removal around it, the client, the status checks. What could follow:

1. A measure for a run of the watchdog that is stopped, as for the client's calls,
   for `StopCompletes`.
2. That `recentdocks.py` beside the scripts of `System` misses nothing, by carrying
   `SteadyIsPrinted` over `ImplementsOverall`.
3. `ScaleFiles`: `addbroker.sh` and `compose.shlib`, scale files against what runs.
4. The loss of a ZooKeeper session in dockmon, once its code reacts to one.
