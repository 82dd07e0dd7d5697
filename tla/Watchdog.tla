------------------------------- MODULE Watchdog -------------------------------
(***************************************************************************)
(* One broker container and its registration in ZooKeeper:                 *)
(* k/start-kafka.sh, which is PID 1, the Kafka broker it starts, and       *)
(* k/kafka-watchdog.sh, which keeps the subtree                            *)
(*                                                                         *)
(*     /dockerized/<container>               data: virthostip              *)
(*     /dockerized/<container>/brokers/<id>  data: heartbeat               *)
(*                                                                         *)
(* One action is one command of a script.  A zookeeper-shell command that  *)
(* touches several znodes (rmr, a chain of creates) is one action per      *)
(* znode, since a reader or a kill may come between.  bash runs a trap     *)
(* when the command in progress has returned, a command substitution being *)
(* one command of the main shell; it interrupts only `wait'.               *)
(*                                                                         *)
(* Left out: start-kafka.sh:3-47, which edits server.properties;           *)
(* create-topics.sh, which runs beside; the heartbeat's text.              *)
(***************************************************************************)
EXTENDS Integers, FiniteSets

CONSTANTS
    Containers,   \* the containers of the virtual hosts
    MaxLost,      \* bound: zookeeper-shell commands that may fail
    MaxWipes      \* bound: times an operator empties a broker's log directory

ASSUME BoundsAssumption == MaxLost \in Nat /\ MaxWipes \in Nat

NoId     == -1          \* awk found no meta.properties and printed nothing
BrokerId == Nat \ {0}   \* what Kafka generates; 0 reads as "none" (l. 22)

VARIABLES
    init,       \* init[c]: the line PID 1 stands at
    stopReq,    \* containers with a SIGTERM pending on PID 1
    ended,      \* ended[c]: how a container that is down came down
    kafka,      \* kafka[c]: the broker process
    meta,       \* meta[c]: broker.id in meta.properties, on disk
    nextId,     \* the next id Kafka generates, from its sequence in ZooKeeper
    wipes,      \* log directories emptied so far
    wd,         \* wd[c]: the command the watchdog stands at
    term,       \* containers with a SIGTERM pending on the watchdog
    brokerId,   \* brokerId[c]: BROKER_ID of the watchdog's main shell
    seen,       \* seen[c]: BROKER_ID of the substitution that is running
    docks,      \* containers whose znode exists
    located,    \* containers whose znode holds a virthostip
    dirs,       \* containers whose znode has the child "brokers"
    ids,        \* ids[c]: the children of "brokers"
    lost        \* zookeeper-shell commands that failed so far

pid1Vars == <<init, stopReq, ended>>
kafkaVars == <<kafka, meta, nextId, wipes>>
dogVars == <<wd, term, brokerId, seen>>
treeVars == <<docks, located, dirs, ids>>
vars == <<pid1Vars, kafkaVars, dogVars, treeVars, lost>>

-----------------------------------------------------------------------------
(***************************************************************************)
(* PID 1: "boot" up to the trap (l. 71); "launch" before Kafka is forked   *)
(* (l. 73); "pid" before KAFKA_PID=$! (l. 74); "watch" before the watchdog *)
(* is forked (l. 75); "dogpid" before WATCHDOG_PID=${!} (l. 76); "wait"    *)
(* (l. 78); in the handler "stopDog" (l. 56) and "stopKafka" (l. 63).      *)
(***************************************************************************)
Armed     == {"launch", "pid", "watch", "dogpid", "wait"}
InHandler == {"stopDog", "stopKafka"}
Pid1Pc    == {"down", "boot"} \cup Armed \cup InHandler

(***************************************************************************)
(* The watchdog: "begin" up to its trap (l. 114); then, by the command it  *)
(* stands at, "wipe" (l. 116), "enrol" (l. 117), "locate" (l. 118), "poll" *)
(* (l. 121), "look" (l. 12-22), "retire" (l. 24), "ensure" (l. 26), "beat" *)
(* (l. 27), "answer" (l. 30, 122), "sleep" (l. 127-129), "sweep" (l. 132), *)
(* "trapped" the trap on a signal and "leaving" the trap on EXIT (l. 100); *)
(* "off" not started, "gone" exited, "shot" killed before the trap.        *)
(***************************************************************************)
Removing  == {"wipe", "sweep", "trapped", "leaving"}
Loop      == {"poll", "look", "retire", "ensure", "beat", "answer", "sleep"}
NoProcess == {"off", "gone", "shot"}
WdPc      == {"begin", "enrol", "locate"} \cup Removing \cup Loop \cup NoProcess

\* The commands after which the main shell looks for a pending trap.
Trappable == {"wipe", "enrol", "locate", "poll", "answer", "sleep", "sweep"}

\* The command that follows a zookeeper-shell command, whatever its outcome.
AfterShell == [wipe |-> "enrol", enrol |-> "locate", locate |-> "poll",
               retire |-> "ensure", ensure |-> "beat", beat |-> "answer",
               sweep |-> "leaving", trapped |-> "leaving", leaving |-> "gone"]

TypeOK ==
    /\ init \in [Containers -> Pid1Pc]
    /\ stopReq \subseteq Containers
    /\ ended \in [Containers -> {"never", "term", "crash", "kill"}]
    /\ kafka \in [Containers -> {"none", "alive", "dead"}]
    /\ meta \in [Containers -> BrokerId \cup {NoId}]
    /\ nextId \in BrokerId
    /\ wipes \in 0..MaxWipes
    /\ wd \in [Containers -> WdPc]
    /\ term \subseteq Containers
    /\ brokerId \in [Containers -> BrokerId \cup {NoId, 0}]
    /\ seen \in [Containers -> BrokerId \cup {NoId, 0}]
    /\ docks \subseteq Containers
    /\ located \subseteq Containers
    /\ dirs \subseteq Containers
    /\ ids \in [Containers -> SUBSET BrokerId]
    /\ lost \in 0..MaxLost

Init ==
    /\ init = [c \in Containers |-> "down"]
    /\ stopReq = {}
    /\ ended = [c \in Containers |-> "never"]
    /\ kafka = [c \in Containers |-> "none"]
    /\ meta = [c \in Containers |-> NoId]
    /\ nextId = 1
    /\ wipes = 0
    /\ wd = [c \in Containers |-> "off"]
    /\ term = {}
    /\ brokerId = [c \in Containers |-> 0]
    /\ seen = [c \in Containers |-> 0]
    /\ docks = {}
    /\ located = {}
    /\ dirs = {}
    /\ ids = [c \in Containers |-> {}]
    /\ lost = 0

-----------------------------------------------------------------------------
(***************************************************************************)
(* PID 1.                                                                  *)
(***************************************************************************)
\* `docker start': a fresh process tree; the disk and ZooKeeper are as left.
DockerStart(c) ==
    /\ init[c] = "down"
    /\ init' = [init EXCEPT ![c] = "boot"]
    /\ ended' = [ended EXCEPT ![c] = "never"]
    /\ wd' = [wd EXCEPT ![c] = "off"]
    /\ UNCHANGED <<stopReq, kafkaVars, term, brokerId, seen, treeVars, lost>>

\* One command of the script's main path: it runs when no trap is pending.
Pid1Step(c, from, to) ==
    /\ init[c] = from
    /\ c \notin stopReq
    /\ init' = [init EXCEPT ![c] = to]
    /\ UNCHANGED <<stopReq, ended>>

SetTrap(c) ==
    /\ Pid1Step(c, "boot", "launch")
    /\ UNCHANGED <<kafkaVars, dogVars, treeVars, lost>>

ForkKafka(c) ==
    /\ Pid1Step(c, "launch", "pid")
    /\ kafka' = [kafka EXCEPT ![c] = "alive"]
    /\ UNCHANGED <<meta, nextId, wipes, dogVars, treeVars, lost>>

NoteKafkaPid(c) ==
    /\ Pid1Step(c, "pid", "watch")
    /\ UNCHANGED <<kafkaVars, dogVars, treeVars, lost>>

ForkWatchdog(c) ==
    /\ Pid1Step(c, "watch", "dogpid")
    /\ wd' = [wd EXCEPT ![c] = "begin"]
    /\ UNCHANGED <<kafkaVars, term, brokerId, seen, treeVars, lost>>

NoteWatchdogPid(c) ==
    /\ Pid1Step(c, "dogpid", "wait")
    /\ UNCHANGED <<kafkaVars, dogVars, treeVars, lost>>

\* PID 1 exits or is killed, and the kernel kills what is left in the container.
ContainerEnds(c, how) ==
    /\ init' = [init EXCEPT ![c] = "down"]
    /\ stopReq' = stopReq \ {c}
    /\ ended' = [ended EXCEPT ![c] = how]
    /\ kafka' = [kafka EXCEPT ![c] = "none"]
    /\ wd' = [wd EXCEPT ![c] = IF wd[c] = "gone" THEN "gone" ELSE "off"]
    /\ term' = term \ {c}
    /\ brokerId' = [brokerId EXCEPT ![c] = 0]
    /\ seen' = [seen EXCEPT ![c] = 0]
    /\ UNCHANGED <<meta, nextId, wipes, treeVars, lost>>

\* `docker stop'.  Before the trap is set the signal is lost: PID 1 has no
\* default action for it.  A second one, in the handler, stays blocked.
DockerStop(c) ==
    /\ init[c] \in Armed
    /\ c \notin stopReq
    /\ stopReq' = stopReq \cup {c}
    /\ UNCHANGED <<init, ended, kafkaVars, dogVars, treeVars, lost>>

\* The end of `docker stop''s grace period, the OOM killer, a power loss.
DockerKill(c) == init[c] # "down" /\ ContainerEnds(c, "kill")

\* `kill -s TERM "$WATCHDOG_PID"': fatal until the watchdog has set its trap.
SignalWatchdog(c) ==
    /\ wd' = [wd EXCEPT ![c] = IF wd[c] = "begin" THEN "shot" ELSE wd[c]]
    /\ term' = IF wd[c] \in NoProcess \cup {"begin"} THEN term ELSE term \cup {c}
    /\ UNCHANGED <<brokerId, seen>>

\* Variant: the handler waits for the watchdog without signalling it.
HandleTermAtWait_NoKill(c) ==
    /\ c \in stopReq /\ init[c] = "wait"
    /\ init' = [init EXCEPT ![c] = "stopDog"]
    /\ UNCHANGED <<stopReq, ended, kafkaVars, dogVars, treeVars, lost>>

\* term_handler with both pids known.
HandleTermAtWait(c) ==
    /\ c \in stopReq /\ init[c] = "wait"
    /\ init' = [init EXCEPT ![c] = "stopDog"]
    /\ SignalWatchdog(c)
    /\ UNCHANGED <<stopReq, ended, kafkaVars, treeVars, lost>>

\* term_handler before WATCHDOG_PID is set: the test fails, l. 55-56 are skipped.
HandleTermEarly(c) ==
    /\ c \in stopReq /\ init[c] \in {"watch", "dogpid"}
    /\ init' = [init EXCEPT ![c] = "stopKafka"]
    /\ UNCHANGED <<stopReq, ended, kafkaVars, dogVars, treeVars, lost>>

\* term_handler while KAFKA_PID is 0: nothing to stop, it exits.
HandleTermAtOnce(c) ==
    /\ c \in stopReq /\ init[c] \in {"launch", "pid"}
    /\ ContainerEnds(c, "term")

WatchdogReaped(c) ==
    /\ init[c] = "stopDog" /\ wd[c] \in NoProcess
    /\ init' = [init EXCEPT ![c] = "stopKafka"]
    /\ UNCHANGED <<stopReq, ended, kafkaVars, dogVars, treeVars, lost>>

KafkaReaped(c) ==
    /\ init[c] = "stopKafka" /\ kafka[c] # "alive"
    /\ ContainerEnds(c, "term")

\* The broker ended by itself: `wait' returns and the script runs off its end.
WaitReturns(c) ==
    /\ init[c] = "wait" /\ kafka[c] = "dead" /\ c \notin stopReq
    /\ ContainerEnds(c, "crash")

-----------------------------------------------------------------------------
\* Variant: the ids start at 0.
KafkaTakesId_FromZero(c) ==
    /\ kafka[c] = "alive" /\ meta[c] = NoId
    /\ meta' = [meta EXCEPT ![c] = nextId - 1]
    /\ nextId' = nextId + 1
    /\ UNCHANGED <<pid1Vars, kafka, wipes, dogVars, treeVars, lost>>

(***************************************************************************)
(* The broker and its disk, as far as the scripts see them.                *)
(***************************************************************************)
\* A broker without meta.properties is given an id and writes it down.
KafkaTakesId(c) ==
    /\ kafka[c] = "alive" /\ meta[c] = NoId
    /\ meta' = [meta EXCEPT ![c] = nextId]
    /\ nextId' = nextId + 1
    /\ UNCHANGED <<pid1Vars, kafka, wipes, dogVars, treeVars, lost>>

KafkaCrashes(c) ==
    /\ kafka[c] = "alive" /\ init[c] # "stopKafka"
    /\ kafka' = [kafka EXCEPT ![c] = "dead"]
    /\ UNCHANGED <<pid1Vars, meta, nextId, wipes, dogVars, treeVars, lost>>

\* The answer to the handler's `kill -s TERM "$KAFKA_PID"'.
KafkaStops(c) ==
    /\ kafka[c] = "alive" /\ init[c] = "stopKafka"
    /\ kafka' = [kafka EXCEPT ![c] = "dead"]
    /\ UNCHANGED <<pid1Vars, meta, nextId, wipes, dogVars, treeVars, lost>>

\* An operator empties the log directory of a stopped broker.
WipeLogs(c) ==
    /\ init[c] = "down" /\ meta[c] # NoId
    /\ wipes < MaxWipes
    /\ wipes' = wipes + 1
    /\ meta' = [meta EXCEPT ![c] = NoId]
    /\ UNCHANGED <<pid1Vars, kafka, nextId, dogVars, treeVars, lost>>

-----------------------------------------------------------------------------
(***************************************************************************)
(* The watchdog.                                                           *)
(***************************************************************************)
\* The command in progress returns; a pending TERM is handled in between.
Proceed(c, next) ==
    IF c \in term /\ wd[c] \in Trappable
    THEN /\ wd' = [wd EXCEPT ![c] = "trapped"]
         /\ term' = term \ {c}
    ELSE /\ wd' = [wd EXCEPT ![c] = next]
         /\ term' = term

\* Variant: no removal at the start.
Begin_NoWipe(c) ==
    /\ wd[c] = "begin"
    /\ wd' = [wd EXCEPT ![c] = "enrol"]
    /\ UNCHANGED <<pid1Vars, kafkaVars, term, brokerId, seen, treeVars, lost>>

\* l. 104-114
Begin(c) ==
    /\ wd[c] = "begin"
    /\ wd' = [wd EXCEPT ![c] = "wipe"]
    /\ UNCHANGED <<pid1Vars, kafkaVars, term, brokerId, seen, treeVars, lost>>

\* `rmr /dockerized/<container>' deletes one znode, the leaves first.
RemoveNode(c) ==
    /\ wd[c] \in Removing /\ c \in docks
    /\ \/ /\ \E i \in ids[c] : ids' = [ids EXCEPT ![c] = @ \ {i}]
          /\ UNCHANGED <<docks, located, dirs>>
       \/ /\ ids[c] = {} /\ c \in dirs
          /\ dirs' = dirs \ {c}
          /\ UNCHANGED <<docks, located, ids>>
       \/ /\ ids[c] = {} /\ c \notin dirs
          /\ docks' = docks \ {c}
          /\ located' = located \ {c}
          /\ UNCHANGED <<dirs, ids>>
    /\ UNCHANGED <<pid1Vars, kafkaVars, dogVars, lost>>

\* Variant: `delete' for `rmr'; it refuses a znode with children.
RemoveReturns_Delete(c) ==
    /\ wd[c] \in Removing /\ (c \notin docks \/ c \in dirs)
    /\ Proceed(c, AfterShell[wd[c]])
    /\ UNCHANGED <<pid1Vars, kafkaVars, brokerId, seen, treeVars, lost>>

\* The entry is gone, and the command returns.
RemoveReturns(c) ==
    /\ wd[c] \in Removing /\ c \notin docks
    /\ Proceed(c, AfterShell[wd[c]])
    /\ UNCHANGED <<pid1Vars, kafkaVars, brokerId, seen, treeVars, lost>>

\* Variant: the address is not written.
Enrol_NoAddress(c) ==
    /\ wd[c] = "enrol"
    /\ docks' = docks \cup {c}
    /\ Proceed(c, "poll")
    /\ UNCHANGED <<pid1Vars, kafkaVars, brokerId, seen, located, dirs, ids, lost>>

\* zk_ensure /dockerized/<container>
Enrol(c) ==
    /\ wd[c] = "enrol"
    /\ docks' = docks \cup {c}
    /\ Proceed(c, "locate")
    /\ UNCHANGED <<pid1Vars, kafkaVars, brokerId, seen, located, dirs, ids, lost>>

\* zk_set /dockerized/<container> {"virthostip":...}; without a znode it fails.
Locate(c) ==
    /\ wd[c] = "locate"
    /\ located' = located \cup ({c} \cap docks)
    /\ Proceed(c, "poll")
    /\ UNCHANGED <<pid1Vars, kafkaVars, brokerId, seen, docks, dirs, ids, lost>>

\* kill -0 "${WATCH_PID}"
Poll(c) ==
    /\ wd[c] = "poll"
    /\ Proceed(c, IF kafka[c] = "alive" THEN "look" ELSE "sweep")
    /\ UNCHANGED <<pid1Vars, kafkaVars, brokerId, seen, treeVars, lost>>

\* Variant: an id that has not changed is not ensured again, what keeping
\* STAMP across rounds would amount to.
Look_OnChange(c) ==
    /\ wd[c] = "look"
    /\ \E id \in IF meta[c] = NoId THEN {0, NoId} ELSE {meta[c]} :
          /\ seen' = [seen EXCEPT ![c] = id]
          /\ wd' = [wd EXCEPT ![c] =
                      IF id \notin BrokerId \/ id = brokerId[c] THEN "answer"
                      ELSE IF brokerId[c] # NoId THEN "retire" ELSE "ensure"]
    /\ UNCHANGED <<pid1Vars, kafkaVars, term, brokerId, treeVars, lost>>

(***************************************************************************)
(* getBrokerId up to the two tests (l. 12-23).  STAMP is assigned in the   *)
(* substitution's own process, so the main shell's stays 0 and every round *)
(* counts as an update; without a server.log the function answers 0.  The  *)
(* test on the previous id is an error, hence false, while that is "".     *)
(***************************************************************************)
Look(c) ==
    /\ wd[c] = "look"
    /\ \E id \in IF meta[c] = NoId THEN {0, NoId} ELSE {meta[c]} :
          /\ seen' = [seen EXCEPT ![c] = id]
          /\ wd' = [wd EXCEPT ![c] =
                      IF id \notin BrokerId THEN "answer"
                      ELSE IF brokerId[c] \notin {NoId, id} THEN "retire" ELSE "ensure"]
    /\ UNCHANGED <<pid1Vars, kafkaVars, term, brokerId, treeVars, lost>>

\* zk_cleanup .../brokers/${PREV_BROKER_ID}
Retire(c) ==
    /\ wd[c] = "retire"
    /\ ids' = [ids EXCEPT ![c] = @ \ {brokerId[c]}]
    /\ Proceed(c, "ensure")
    /\ UNCHANGED <<pid1Vars, kafkaVars, brokerId, seen, docks, located, dirs, lost>>

\* zk_ensure .../brokers/${BROKER_ID} creates the missing znodes from the root.
EnsureNode(c) ==
    /\ wd[c] = "ensure" /\ seen[c] \notin ids[c]
    /\ \/ /\ c \notin docks
          /\ docks' = docks \cup {c}
          /\ UNCHANGED <<located, dirs, ids>>
       \/ /\ c \in docks \ dirs
          /\ dirs' = dirs \cup {c}
          /\ UNCHANGED <<docks, located, ids>>
       \/ /\ c \in docks \cap dirs
          /\ ids' = [ids EXCEPT ![c] = @ \cup {seen[c]}]
          /\ UNCHANGED <<docks, located, dirs>>
    /\ UNCHANGED <<pid1Vars, kafkaVars, dogVars, lost>>

EnsureReturns(c) ==
    /\ wd[c] = "ensure" /\ seen[c] \in ids[c]
    /\ Proceed(c, "beat")
    /\ UNCHANGED <<pid1Vars, kafkaVars, brokerId, seen, treeVars, lost>>

\* zk_set .../brokers/${BROKER_ID} {"heartbeat":...}
Beat(c) ==
    /\ wd[c] = "beat"
    /\ Proceed(c, "answer")
    /\ UNCHANGED <<pid1Vars, kafkaVars, brokerId, seen, treeVars, lost>>

\* echo "${BROKER_ID}", and the assignment in the main shell.
Answer(c) ==
    /\ wd[c] = "answer"
    /\ brokerId' = [brokerId EXCEPT ![c] = seen[c]]
    /\ seen' = [seen EXCEPT ![c] = 0]
    /\ Proceed(c, "sleep")
    /\ UNCHANGED <<pid1Vars, kafkaVars, treeVars, lost>>

\* sleep ${SLEEP_TIME} & wait ${!}: the time is up, or a signal ends the wait.
Sleep(c) ==
    /\ wd[c] = "sleep"
    /\ Proceed(c, "poll")
    /\ UNCHANGED <<pid1Vars, kafkaVars, brokerId, seen, treeVars, lost>>

\* A zookeeper-shell command fails, at any of its znodes: nobody looks at its status.
ShellFails(c) ==
    /\ wd[c] \in DOMAIN AfterShell
    /\ lost < MaxLost
    /\ lost' = lost + 1
    /\ Proceed(c, AfterShell[wd[c]])
    /\ UNCHANGED <<pid1Vars, kafkaVars, brokerId, seen, treeVars>>

-----------------------------------------------------------------------------
Pid1(c) ==
    \/ SetTrap(c) \/ ForkKafka(c) \/ NoteKafkaPid(c)
    \/ ForkWatchdog(c) \/ NoteWatchdogPid(c)
    \/ HandleTermAtWait(c) \/ HandleTermEarly(c) \/ HandleTermAtOnce(c)
    \/ WatchdogReaped(c) \/ KafkaReaped(c) \/ WaitReturns(c)

Kafka(c) == KafkaTakesId(c) \/ KafkaStops(c)

Dog(c) ==
    \/ Begin(c) \/ RemoveNode(c) \/ RemoveReturns(c)
    \/ Enrol(c) \/ Locate(c) \/ Poll(c)
    \/ Look(c) \/ Retire(c) \/ EnsureNode(c) \/ EnsureReturns(c)
    \/ Beat(c) \/ Answer(c) \/ Sleep(c)

Environment(c) ==
    \/ DockerStart(c) \/ DockerStop(c) \/ DockerKill(c)
    \/ KafkaCrashes(c) \/ WipeLogs(c) \/ ShellFails(c)

ContainerStep(c) == Pid1(c) \/ Kafka(c) \/ Dog(c) \/ Environment(c)

Next == \E c \in Containers : ContainerStep(c)

Spec == Init /\ [][Next]_vars

(***************************************************************************)
(* The processes of a running container are scheduled; Kafka, once up,     *)
(* takes an id and obeys a TERM; a zookeeper-shell command returns.        *)
(* Nothing obliges anyone to start, stop, crash or kill a container.       *)
(***************************************************************************)
FairSpec ==
    /\ Spec
    /\ \A c \in Containers :
          WF_vars(Pid1(c)) /\ WF_vars(Kafka(c)) /\ WF_vars(Dog(c))

-----------------------------------------------------------------------------
(***************************************************************************)
(* Safety, while no zookeeper-shell command has failed.                    *)
(***************************************************************************)
\* The commands between the removal of what an earlier run left and the end.
Registered == {"enrol", "locate"} \cup Loop

\* Once the watchdog has started anew, its entry lists no broker id but the
\* one in this container's meta.properties, although ids outlive crashes,
\* kills, restarts and emptied log directories (kafka-watchdog.sh:116-130).
OwnBrokerOnly ==
    lost = 0 => \A c \in Containers : wd[c] \in Registered => ids[c] \subseteq {meta[c]}

\* A watchdog that has exited, by TERM in the middle of any command or on
\* seeing Kafka dead, leaves nothing behind: no command of the round it was
\* in may write after the trap's rmr (kafka-watchdog.sh:95-102, 114).
GoneMeansAbsent ==
    lost = 0 => \A c \in Containers : wd[c] = "gone" => c \notin docks

\* A broker id is found only beneath an entry that holds the host's address,
\* whatever the run that wrote it (recentdocks.py:45-54 relies on it).
IdsAreLocated ==
    lost = 0 => \A c \in Containers : ids[c] # {} => c \in located \cap dirs \cap docks

\* No broker id is listed under two containers, also with stale entries and
\* failed commands: a watchdog reads the log directory of its own container, on
\* a volume they may share (kafka-watchdog.sh:20), and recentdocks.py:50-54
\* takes the id beneath a container as that container's own.
IdsAreDisjoint ==
    \A c, d \in Containers : c # d => ids[c] \cap ids[d] = {}

(***************************************************************************)
(* What a comment of the scripts says and the code does not do.            *)
(***************************************************************************)
\* kafka-watchdog.sh:124: when the process is dead the watchdog removes the
\* entry; a container that ended because Kafka died should leave none.
CrashUnregisters ==
    lost = 0 => \A c \in Containers : init[c] = "down" /\ ended[c] = "crash" => c \notin docks

-----------------------------------------------------------------------------
(***************************************************************************)
(* Liveness, under FairSpec.                                               *)
(***************************************************************************)
\* A captured stop request ends the container: the handler, which waits for
\* the watchdog and then for Kafka, never waits for ever, wherever the
\* signal finds them (start-kafka.sh:52-67).
StopCompletes == \A c \in Containers : c \in stopReq ~> init[c] = "down"

\* If a container runs undisturbed for ever its broker id is in the end
\* listed for ever: the loop repairs whatever finitely many failed
\* commands left undone (kafka-watchdog.sh:120-130).
IdIsPublished ==
    \A c \in Containers : <>[](init[c] = "wait") => <>[](meta[c] \in ids[c])

\* The address is written once and not in the loop, so it needs every
\* command to succeed (kafka-watchdog.sh:118).
HostIsPublished ==
    \A c \in Containers :
        <>[](init[c] = "wait") /\ [](lost = 0) => <>[](c \in located)

-----------------------------------------------------------------------------
(***************************************************************************)
(* The registration protocol of a container as its readers see it, and     *)
(* that the scripts implement it.  The commands of the watchdog up to the  *)
(* creation of the entry are the phase "up"; while it runs without a loss  *)
(* a command never meets a tree that the protocol does not foresee.        *)
(***************************************************************************)
PhaseOf(c) ==
    CASE init[c] = "down" -> "down"
      [] init[c] # "down" /\ wd[c] \in NoProcess \ {"gone"} -> "up"
      [] init[c] # "down" /\ wd[c] \in {"begin", "wipe", "enrol"} -> "up"
      [] init[c] # "down" /\ wd[c] = "locate" -> "enrolled"
      [] init[c] # "down" /\ wd[c] \in Loop -> "serving"
      [] OTHER -> "leaving"

InfoOf(c) == [located |-> c \in located, recorded |-> FALSE, port |-> 0]

Registry == INSTANCE DockRegistry WITH
    Ports <- {1},   \* the scripts do not see the port Docker maps
    phase <- [c \in Containers |-> PhaseOf(c)],
    port  <- [c \in Containers |-> 1],
    info  <- [c \in Containers |-> InfoOf(c)],
    shown <- {c \in Containers : ids[c] # {}}

\* As long as no command has failed, every step of the two scripts, of Kafka
\* and of Docker is a step of the registry's protocol or invisible to its
\* readers (start-kafka.sh:49-80, kafka-watchdog.sh:12-34, 95-133).
ImplementsRegistry ==
    /\ Registry!RegistryInit
    /\ [][lost' = 0 => Registry!RegistryNext \/ UNCHANGED Registry!registryVars]_vars
=============================================================================
