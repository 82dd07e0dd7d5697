------------------------------- MODULE Dockmon --------------------------------
(***************************************************************************)
(* lib/dockmon.py: the monitor on the tech host that looks up, for every   *)
(* entry of /dockerized, the host port Docker gave the container and       *)
(* writes it into the entry.  Two threads do so: the main thread on every  *)
(* round of run() (l. 114-119), and kazoo's callback thread when the       *)
(* children of /dockerized change (l. 55-59, 78-86); the first call of the *)
(* callback is made by the main thread, in bootstrap() (l. 94).            *)
(*                                                                         *)
(* The entries themselves come and go as module DockRegistry says.         *)
(* kazoo and the Docker API are modelled from how dockmon.py uses them:    *)
(* get_children with a one-shot watch, get and set of one znode without a  *)
(* version, and a list of the running containers.                          *)
(***************************************************************************)
EXTENDS DockRegistry

CONSTANT
    MaxFaults     \* bound: calls of the Docker API that fail

ASSUME DockmonAssumption == MaxFaults \in Nat

VARIABLES
    start,         \* how the monitor was started; it never changes
    pc,            \* pc[t]: the statement thread t stands at
    docklistLock,  \* the thread that holds docklist_lock, or "free"
    zkLock,        \* the thread that holds zk_lock, or "free"
    docklist,      \* self._docklist
    kids,          \* kids[t]: the argument of the callback t is in
    todo,          \* todo[t]: what is left of the loop over docks (l. 100)
    cur,           \* cur[t]: the dock of the round t is in, as a set
    found,         \* found[t]: the port getDockInfo returned to t
    watch,         \* the watch on /dockerized: "none", "armed" or "fired"
    stopping,      \* SIGTERMs that have reached the monitor
    faults         \* Docker calls that failed so far

lockVars   == <<docklistLock, zkLock>>
localVars  == <<kids, todo, cur, found>>
dockmonVars == <<start, pc, lockVars, docklist, localVars, watch, stopping, faults>>
dockmonAllVars == <<registryVars, dockmonVars>>

Threads == {"main", "callback"}

(***************************************************************************)
(* daemon: `dockmon.py start', not `foreground'; root: /dockerized existed *)
(* before the first container came.                                        *)
(***************************************************************************)
Starts == [daemon : BOOLEAN, root : BOOLEAN]

(***************************************************************************)
(* "boot" the main thread before ChildrenWatch; "idle" asleep in run(), or *)
(* waiting for an event; "docklist" before docklist_lock (l. 79); "zk"     *)
(* before zk_lock (l. 97); "loop" at the head of the loop (l. 100); "ask"  *)
(* in getDockInfo (l. 106); "set" (l. 112); "fork" between bootstrap() and *)
(* start() (l. 168); "cleanup" in the signal handler before zk_lock        *)
(* (l. 74), "closing" with it (l. 75); "dead" the process is gone, or the  *)
(* thread was not copied by fork.                                          *)
(***************************************************************************)
Pc == {"boot", "idle", "docklist", "zk", "loop", "ask", "set", "fork", "cleanup", "closing",
       "dead"}

DockmonTypeOK ==
    /\ RegistryTypeOK
    /\ start \in Starts
    /\ pc \in [Threads -> Pc]
    /\ docklistLock \in Threads \cup {"free"}
    /\ zkLock \in Threads \cup {"free"}
    /\ docklist \subseteq Containers
    /\ kids \in [Threads -> SUBSET Containers]
    /\ todo \in [Threads -> SUBSET Containers]
    /\ cur \in [Threads -> SUBSET Containers]
    /\ found \in [Threads -> Ports \cup {0}]
    /\ watch \in {"none", "armed", "fired"}
    /\ stopping \in 0..2
    /\ faults \in 0..MaxFaults

DockmonInit ==
    /\ RegistryInit
    /\ start \in Starts
    /\ pc = [t \in Threads |-> IF t = "main" THEN "boot" ELSE "idle"]
    /\ docklistLock = "free" /\ zkLock = "free"
    /\ docklist = {}
    /\ kids = [t \in Threads |-> {}]
    /\ todo = [t \in Threads |-> {}]
    /\ cur = [t \in Threads |-> {}]
    /\ found = [t \in Threads |-> 0]
    /\ watch = "none"
    /\ stopping = 0
    /\ faults = 0

-----------------------------------------------------------------------------
(***************************************************************************)
(* The containers, and the watch on the children of /dockerized: it fires  *)
(* once, and says that they changed, not how.                              *)
(***************************************************************************)
Fire ==
    /\ watch' = IF watch = "armed" /\ docks' # docks THEN "fired" ELSE watch
    /\ UNCHANGED <<pc, lockVars, docklist, localVars, stopping, faults, start>>

Owner(c) == OwnerStep(c) /\ Fire

-----------------------------------------------------------------------------
(***************************************************************************)
(* The callback: watch_dock_list, update_docklist and process_added.       *)
(***************************************************************************)
\* kazoo lists the children and sets the watch in one request.
ListChildren(t) ==
    /\ kids' = [kids EXCEPT ![t] = docks]
    /\ watch' = "armed"

\* bootstrap(): ChildrenWatch makes the first call itself.
Bootstrap ==
    /\ pc["main"] = "boot"
    /\ start.root \/ docks # {}
    /\ ListChildren("main")
    /\ pc' = [pc EXCEPT !["main"] = "docklist"]
    /\ UNCHANGED <<registryVars, lockVars, docklist, todo, cur, found, stopping,
                   faults, start>>

AfterBootstrap == IF start.daemon THEN "fork" ELSE "idle"

\* Without a /dockerized ChildrenWatch gives up for good, silently.
BootstrapBlind ==
    /\ pc["main"] = "boot"
    /\ ~start.root /\ docks = {}
    /\ pc' = [pc EXCEPT !["main"] = AfterBootstrap]
    /\ UNCHANGED <<registryVars, lockVars, docklist, localVars, watch, stopping,
                   faults, start>>

\* start(): the daemon is a fork of a fork, and a fork has no other thread.
Daemonize ==
    /\ pc["main"] = "fork"
    /\ pc' = [main |-> "idle", callback |-> "dead"]
    /\ UNCHANGED <<registryVars, lockVars, docklist, localVars, watch, stopping,
                   faults, start>>

\* kazoo makes one call at a time, the one in bootstrap() included.
InBootstrap == docklistLock = "main" \/ pc["main"] \in {"boot", "docklist"}

\* The event is taken; kazoo makes no call if the children are those of last time.
Notice ==
    /\ pc["callback"] = "idle" /\ watch = "fired" /\ ~InBootstrap
    /\ ListChildren("callback")
    /\ pc' = [pc EXCEPT !["callback"] = IF docks = docklist THEN "idle" ELSE "docklist"]
    /\ UNCHANGED <<registryVars, lockVars, docklist, todo, cur, found, stopping,
                   faults, start>>

\* Variant: a list that only shrank is not stored.
UpdateDocklist_IgnoreRemoved(t) ==
    LET added == kids[t] \ docklist
    IN  /\ pc[t] = "docklist" /\ docklistLock = "free"
        /\ IF added # {}
           THEN /\ docklist' = kids[t]
                /\ docklistLock' = t
                /\ todo' = [todo EXCEPT ![t] = added]
                /\ pc' = [pc EXCEPT ![t] = "zk"]
           ELSE /\ pc' = [pc EXCEPT ![t] = IF t = "main" THEN AfterBootstrap ELSE "idle"]
                /\ UNCHANGED <<docklist, docklistLock, todo>>
        /\ UNCHANGED <<registryVars, zkLock, kids, cur, found, watch, stopping,
                       faults, start>>

\* update_docklist: the list is replaced before the added docks are looked at.
UpdateDocklist(t) ==
    LET added == kids[t] \ docklist
    IN  /\ pc[t] = "docklist" /\ docklistLock = "free"
        /\ docklist' = kids[t]
        /\ IF added # {}
           THEN /\ docklistLock' = t
                /\ todo' = [todo EXCEPT ![t] = added]
                /\ pc' = [pc EXCEPT ![t] = "zk"]
           ELSE /\ pc' = [pc EXCEPT ![t] = IF t = "main" THEN AfterBootstrap ELSE "idle"]
                /\ UNCHANGED <<docklistLock, todo>>
        /\ UNCHANGED <<registryVars, zkLock, kids, cur, found, watch, stopping,
                       faults, start>>

-----------------------------------------------------------------------------
\* Variant: the order of locks that l. 116-117 have commented out: with zk_lock
\* held, docklist_lock and then, in update_zk_context, zk_lock once more.
Round_Nested ==
    /\ pc["main"] = "idle" /\ zkLock = "free"
    /\ zkLock' = "main"
    /\ todo' = [todo EXCEPT !["main"] = docklist]
    /\ pc' = [pc EXCEPT !["main"] = "zk"]
    /\ UNCHANGED <<registryVars, docklistLock, docklist, kids, cur, found,
                   watch, stopping, faults, start>>

\* Variant: the loop only sleeps, and leaves the work to the callback.
Round_Asleep ==
    /\ pc["main"] = "idle"
    /\ UNCHANGED dockmonAllVars

\* A round of run() passes the list as it is now, without a lock.
Round ==
    /\ pc["main"] = "idle"
    /\ todo' = [todo EXCEPT !["main"] = docklist]
    /\ pc' = [pc EXCEPT !["main"] = "zk"]
    /\ UNCHANGED <<registryVars, lockVars, docklist, kids, cur, found, watch,
                   stopping, faults, start>>

\* Variant: update_zk_context without zk_lock.
TakeZkLock_Free(t) ==
    /\ pc[t] = "zk"
    /\ zkLock' = t
    /\ todo' = [todo EXCEPT ![t] = IF @ = {} THEN docklist ELSE @]
    /\ pc' = [pc EXCEPT ![t] = "loop"]
    /\ UNCHANGED <<registryVars, docklistLock, docklist, kids, cur, found,
                   watch, stopping, faults, start>>

\* l. 97-99; an empty list is read again.
TakeZkLock(t) ==
    /\ pc[t] = "zk" /\ zkLock = "free"
    /\ zkLock' = t
    /\ todo' = [todo EXCEPT ![t] = IF @ = {} THEN docklist ELSE @]
    /\ pc' = [pc EXCEPT ![t] = "loop"]
    /\ UNCHANGED <<registryVars, docklistLock, docklist, kids, cur, found,
                   watch, stopping, faults, start>>

\* kazoo's own threads carry the requests; without them `get' never returns.
Connected == pc["callback"] # "dead"

\* l. 102-105, the docks in any order: an entry without data, or with a port
\* recorded, is passed over.
Get(t) ==
    /\ pc[t] = "loop" /\ Connected
    /\ \E d \in todo[t] \cap docks :
          IF info[d].located /\ ~info[d].recorded
          THEN /\ cur' = [cur EXCEPT ![t] = {d}]
               /\ pc' = [pc EXCEPT ![t] = "ask"]
               /\ UNCHANGED todo
          ELSE /\ todo' = [todo EXCEPT ![t] = @ \ {d}]
               /\ UNCHANGED <<cur, pc>>
    /\ UNCHANGED <<registryVars, lockVars, docklist, kids, found, watch,
                   stopping, faults, start>>

\* getDockInfo: the mapped port, or 0 if Docker does not list the container.
AskDocker(t) ==
    /\ pc[t] = "ask"
    /\ \E d \in cur[t] :
          found' = [found EXCEPT ![t] = IF phase[d] = "down" THEN 0 ELSE port[d]]
    /\ pc' = [pc EXCEPT ![t] = "set"]
    /\ UNCHANGED <<registryVars, lockVars, docklist, kids, todo, cur, watch,
                   stopping, faults, start>>

\* l. 108-112: the data read in l. 102 are written back with the answer.
Set(t) ==
    /\ pc[t] = "set"
    /\ \E d \in cur[t] \cap docks :
          /\ info' = [info EXCEPT ![d] = Recorded(found[t])]
          /\ todo' = [todo EXCEPT ![t] = @ \ {d}]
    /\ cur' = [cur EXCEPT ![t] = {}]
    /\ found' = [found EXCEPT ![t] = 0]
    /\ pc' = [pc EXCEPT ![t] = "loop"]
    /\ UNCHANGED <<phase, port, docks, shown, lockVars, docklist, kids, watch,
                   stopping, faults, start>>

\* The end of the loop and of the `with' statements around it.
Return(t) ==
    /\ pc[t] = "loop" /\ todo[t] = {}
    /\ zkLock' = "free"
    /\ docklistLock' = IF docklistLock = t THEN "free" ELSE docklistLock
    /\ pc' = [pc EXCEPT ![t] = IF t = "main" /\ docklistLock = t THEN AfterBootstrap ELSE "idle"]
    /\ UNCHANGED <<registryVars, docklist, localVars, watch, stopping, faults, start>>

(***************************************************************************)
(* An exception leaves the `with' statements.  In the callback thread      *)
(* kazoo logs it, and the loop is abandoned; in the main thread nobody     *)
(* catches it, and the process ends.                                       *)
(***************************************************************************)
Raise(t) ==
    /\ pc' = IF t = "main" THEN [s \in Threads |-> "dead"] ELSE [pc EXCEPT ![t] = "idle"]
    /\ zkLock' = "free"
    /\ docklistLock' = IF t = "main" \/ docklistLock = t THEN "free" ELSE docklistLock
    /\ todo' = [todo EXCEPT ![t] = {}]
    /\ cur' = [cur EXCEPT ![t] = {}]
    /\ found' = [found EXCEPT ![t] = 0]
    /\ UNCHANGED <<registryVars, docklist, kids, watch, stopping, start>>

\* NoNodeError: the entry went between the listing and `get', or `get' and `set'.
NoNode(t) ==
    /\ \/ pc[t] = "loop" /\ Connected /\ todo[t] \ docks # {}
       \/ pc[t] = "set" /\ cur[t] \ docks # {}
    /\ Raise(t)
    /\ UNCHANGED faults

\* The Docker API of the host is out of reach, or answers an error.
DockerFails(t) ==
    /\ pc[t] = "ask" /\ faults < MaxFaults
    /\ faults' = faults + 1
    /\ Raise(t)

-----------------------------------------------------------------------------
(***************************************************************************)
(* `dockmon.py stop': SIGTERM to the daemon, whose handler runs in the     *)
(* main thread between two statements of whatever it was doing, the        *)
(* handler included: stop() repeats the signal (daemon.py:106-108).        *)
(***************************************************************************)
Terminate ==
    /\ start.daemon /\ ~Connected
    /\ pc["main"] \notin {"cleanup", "dead"}
    /\ stopping' = stopping + 1
    /\ pc' = [pc EXCEPT !["main"] = "cleanup"]
    /\ UNCHANGED <<registryVars, lockVars, docklist, localVars, watch, faults, start>>

\* cleanup() takes zk_lock ...
Cleanup ==
    /\ pc["main"] = "cleanup" /\ zkLock = "free"
    /\ zkLock' = "main"
    /\ pc' = [pc EXCEPT !["main"] = "closing"]
    /\ UNCHANGED <<registryVars, docklistLock, docklist, localVars, watch,
                   stopping, faults, start>>

\* Variant: the handler returns without exit(0).
Close_Return ==
    /\ pc["main"] = "closing"
    /\ zkLock' = "free"
    /\ pc' = [pc EXCEPT !["main"] = "idle"]
    /\ UNCHANGED <<registryVars, docklistLock, docklist, localVars, watch,
                   stopping, faults, start>>

\* ... and when the connection is closed, or that failed, the process exits.
Close ==
    /\ pc["main"] = "closing"
    /\ zkLock' = "free"
    /\ pc' = [pc EXCEPT !["main"] = "dead"]
    /\ UNCHANGED <<registryVars, docklistLock, docklist, localVars, watch,
                   stopping, faults, start>>

-----------------------------------------------------------------------------
ThreadStep(t) ==
    \/ UpdateDocklist(t) \/ TakeZkLock(t)
    \/ Get(t) \/ AskDocker(t) \/ Set(t) \/ Return(t) \/ NoNode(t)

MainStep == Bootstrap \/ BootstrapBlind \/ Daemonize \/ Round \/ Cleanup \/ Close

MonitorNext ==
    \/ MainStep \/ Notice \/ Terminate
    \/ \E t \in Threads : ThreadStep(t) \/ DockerFails(t)

DockmonNext == (\E c \in Containers : Owner(c)) \/ MonitorNext

DockmonSpec == DockmonInit /\ [][DockmonNext]_dockmonAllVars

(***************************************************************************)
(* Both threads are scheduled, kazoo delivers its events, ZooKeeper and    *)
(* Docker answer.  A thread that waits for zk_lock gets it if it is free   *)
(* again and again: the other one sleeps between its rounds.  Nothing is   *)
(* assumed of the containers or of the operator.                           *)
(***************************************************************************)
DockmonFairSpec ==
    /\ DockmonSpec
    /\ WF_dockmonAllVars(MainStep)
    /\ WF_dockmonAllVars(Notice)
    /\ \A t \in Threads :
          WF_dockmonAllVars(ThreadStep(t)) /\ SF_dockmonAllVars(TakeZkLock(t))

-----------------------------------------------------------------------------
(***************************************************************************)
(* Safety.                                                                 *)
(***************************************************************************)
Alive == pc["main"] # "dead"

\* No change of the children of /dockerized is lost: while the watch has not
\* fired and no callback is under way the list is the true one, although
\* entries come and go while a callback runs, and callbacks are abandoned
\* (dockmon.py:78-94).
DocklistIsCurrent ==
    Alive /\ Connected /\ watch = "armed" /\ ~InBootstrap /\ pc["callback"] # "docklist"
        => docklist = docks

\* A port is recorded at most once in the life of an entry: the two threads
\* never answer for the same entry one after the other, the second from
\* data it read before the first wrote (dockmon.py:97-112).
RecordedOnce ==
    [][\A c \in Containers :
          c \in docks /\ info[c].recorded /\ info'[c].recorded => info'[c] = info[c]
      ]_dockmonAllVars

-----------------------------------------------------------------------------
\* The threads never wait for each other in a circle: whoever holds zk_lock waits
\* for no lock, and whoever holds docklist_lock for zk_lock at most, also after an
\* exception in either (dockmon.py:79, 97, and the order in l. 116-117, which are
\* commented out).  Not of the daemon: its fork may copy a lock that is held.
HoldersGoOn ==
    ~start.daemon =>
        /\ zkLock # "free" => pc[zkLock] \in {"loop", "ask", "set"}
        /\ docklistLock # "free" => pc[docklistLock] \in {"zk", "loop", "ask", "set"}

(***************************************************************************)
(* Liveness, under DockmonFairSpec.                                        *)
(***************************************************************************)
\* Neither thread waits for ever for a lock: docklist_lock is taken before
\* zk_lock and never after it, and an exception releases both
\* (dockmon.py:79, 97, and the statements commented out in l. 116-117).  Not
\* of the daemon: its fork may copy a lock that the other thread holds.
LocksAreHandedOn ==
    ~start.daemon =>
        \A t \in Threads : pc[t] \in {"docklist", "zk"} ~> pc[t] \notin {"docklist", "zk"}

\* One SIGTERM that finds the daemon between its rounds ends it: cleanup() gets
\* zk_lock (dockmon.py:22-25, 73-75).  What more of them do is the subject of
\* module PidFile.
StopBetweenRounds == stopping = 1 /\ zkLock = "free" ~> ~Alive \/ stopping = 2

\* In the foreground, if a container serves for good and the monitor lives, a
\* port is in the end recorded for good: the rounds of run() make up for
\* callbacks that came before the address, were abandoned, or were not made
\* (dockmon.py:114-119).  It needs a /dockerized to watch from the start.
CatchesUp ==
    ~start.daemon /\ start.root =>
        \A c \in Containers :
            <>[](phase[c] = "serving" /\ Alive) => <>[](info[c].recorded)

(***************************************************************************)
(* What the comments say and the code does not do.                         *)
(***************************************************************************)
\* recentdocks.py:105, "Make sure the dockmon catches up the brokers' info":
\* the port recorded for a container that stays is the one Docker mapped.
AnswerIsRight ==
    ~start.daemon /\ start.root =>
        \A c \in Containers :
            <>[](phase[c] = "serving" /\ Alive) => <>[](info[c] = Recorded(port[c]))

\* dockmon.py:140, "Every 5 minutes we update the context", of the daemon: what
\* CatchesUp says holds for it too, as long as nobody stops it.
DaemonCatchesUp ==
    start.daemon /\ start.root =>
        \A c \in Containers :
            <>[](phase[c] = "serving" /\ Alive /\ stopping = 0) => <>[](info[c].recorded)
=============================================================================
