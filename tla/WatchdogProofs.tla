---------------------------- MODULE WatchdogProofs ----------------------------
(***************************************************************************)
(* Theorems about module Watchdog, for any set of containers and any       *)
(* bounds.                                                                 *)
(*                                                                         *)
(* None of the properties is inductive.  The invariant that is, IInv, adds *)
(* to the type what the processes of a container know of one another       *)
(* (ProcessesOK), what the watchdog's shell remembers of the broker's id   *)
(* (MemoryOK), what ZooKeeper enforces on a tree (TreeOK), how far the     *)
(* registration of a run must have come at each command as long as no      *)
(* command failed (RegistrationOK), and that no id is held by two          *)
(* containers or still to be given out (OwnershipOK).                      *)
(***************************************************************************)
EXTENDS Watchdog, TLAPS

\* A watchdog that runs has a container around it, and forgets when it ends.
ProcessesOK(c) ==
    /\ wd[c] \notin {"off", "gone"} => init[c] # "down"
    /\ init[c] = "down" => brokerId[c] = 0 /\ seen[c] = 0

\* An id the shell remembers is the one on the broker's disk.
MemoryOK(c) ==
    /\ brokerId[c] \in {0, NoId, meta[c]}
    /\ seen[c] \in {0, NoId, meta[c]}
    /\ wd[c] \in {"retire", "ensure", "beat"} => seen[c] = meta[c] /\ meta[c] # NoId

\* A znode has a parent, and data only if it exists.
TreeOK(c) ==
    /\ c \in located => c \in docks
    /\ c \in dirs => c \in docks
    /\ ids[c] # {} => c \in dirs

RegistrationOK(c) ==
    /\ wd[c] \in Registered => ids[c] \subseteq {meta[c]}
    /\ wd[c] = "enrol" => c \notin docks
    /\ wd[c] = "locate" => c \in docks
    /\ wd[c] \in Loop => c \in docks /\ c \in located
    /\ ids[c] # {} => c \in located
    /\ wd[c] = "gone" => c \notin docks

\* The ids a container holds: its own, and those still listed for it.
Held(c) == ids[c] \cup ({meta[c]} \ {NoId})

OwnershipOK ==
    /\ \A c \in Containers : \A i \in Held(c) : i < nextId
    /\ \A c, d \in Containers : c # d => Held(c) \cap Held(d) = {}

ShapeOK == \A c \in Containers : ProcessesOK(c) /\ MemoryOK(c) /\ TreeOK(c)

NoLossOK == lost = 0 => \A c \in Containers : RegistrationOK(c)

IInv == TypeOK /\ ShapeOK /\ NoLossOK /\ OwnershipOK

-----------------------------------------------------------------------------
USE BoundsAssumption
USE DEF pid1Vars, kafkaVars, dogVars, treeVars

\* Only ids that Kafka generated are written, and every process stays at a
\* command of its script.
LEMMA TypeStep ==
    ASSUME TypeOK, ShapeOK, NEW c \in Containers, ContainerStep(c)
    PROVE  TypeOK'
<1> USE DEF TypeOK, Pid1Pc, Armed, InHandler, WdPc, Removing, Loop, NoProcess,
           BrokerId, NoId
<1>1. CASE SetTrap(c)
  BY <1>1 DEF SetTrap, Pid1Step
<1>2. CASE ForkKafka(c)
  BY <1>2 DEF ForkKafka, Pid1Step
<1>3. CASE NoteKafkaPid(c)
  BY <1>3 DEF NoteKafkaPid, Pid1Step
<1>4. CASE ForkWatchdog(c)
  BY <1>4 DEF ForkWatchdog, Pid1Step
<1>5. CASE NoteWatchdogPid(c)
  BY <1>5 DEF NoteWatchdogPid, Pid1Step
<1>6. CASE HandleTermAtWait(c)
  BY <1>6 DEF HandleTermAtWait, SignalWatchdog
<1>7. CASE HandleTermEarly(c)
  BY <1>7 DEF HandleTermEarly
<1>8. CASE HandleTermAtOnce(c)
  BY <1>8 DEF HandleTermAtOnce, ContainerEnds
<1>9. CASE WatchdogReaped(c)
  BY <1>9 DEF WatchdogReaped
<1>10. CASE KafkaReaped(c)
  BY <1>10 DEF KafkaReaped, ContainerEnds
<1>11. CASE WaitReturns(c)
  BY <1>11 DEF WaitReturns, ContainerEnds
<1>12. CASE KafkaTakesId(c)
  BY <1>12 DEF KafkaTakesId
<1>13. CASE KafkaStops(c)
  BY <1>13 DEF KafkaStops
<1>14. CASE Begin(c)
  BY <1>14 DEF Begin
<1>15. CASE RemoveNode(c)
  BY <1>15 DEF RemoveNode
<1>16. CASE RemoveReturns(c)
  BY <1>16 DEF RemoveReturns, Proceed, AfterShell
<1>17. CASE Enrol(c)
  BY <1>17 DEF Enrol, Proceed
<1>18. CASE Locate(c)
  BY <1>18 DEF Locate, Proceed
<1>19. CASE Poll(c)
  BY <1>19 DEF Poll, Proceed
<1>20. CASE Look(c)
  BY <1>20 DEF Look
<1>21. CASE Retire(c)
  BY <1>21 DEF Retire, Proceed
<1>22. CASE EnsureNode(c)
  BY <1>22 DEF EnsureNode, ShapeOK, MemoryOK
<1>23. CASE EnsureReturns(c)
  BY <1>23 DEF EnsureReturns, Proceed
<1>24. CASE Beat(c)
  BY <1>24 DEF Beat, Proceed
<1>25. CASE Answer(c)
  BY <1>25 DEF Answer, Proceed
<1>26. CASE Sleep(c)
  BY <1>26 DEF Sleep, Proceed
<1>27. CASE DockerStart(c)
  BY <1>27 DEF DockerStart
<1>28. CASE DockerStop(c)
  BY <1>28 DEF DockerStop
<1>29. CASE DockerKill(c)
  BY <1>29 DEF DockerKill, ContainerEnds
<1>30. CASE KafkaCrashes(c)
  BY <1>30 DEF KafkaCrashes
<1>31. CASE WipeLogs(c)
  BY <1>31 DEF WipeLogs
<1>32. CASE ShellFails(c)
  BY <1>32 DEF ShellFails, Proceed, AfterShell
<1> QED
  BY <1>1, <1>2, <1>3, <1>4, <1>5, <1>6, <1>7, <1>8, <1>9, <1>10, <1>11,
     <1>12, <1>13, <1>14, <1>15, <1>16, <1>17, <1>18, <1>19, <1>20, <1>21,
     <1>22, <1>23, <1>24, <1>25, <1>26, <1>27, <1>28, <1>29, <1>30, <1>31,
     <1>32 DEF ContainerStep, Pid1, Kafka, Dog, Environment

\* What the processes know of one another, and the tree's shape, are kept.
LEMMA ShapeStep ==
    ASSUME TypeOK, ShapeOK, NEW c \in Containers, ContainerStep(c)
    PROVE  ShapeOK'
<1> USE DEF TypeOK, Pid1Pc, Armed, InHandler, WdPc, Removing, Loop, NoProcess,
           BrokerId, NoId, ShapeOK, ProcessesOK, MemoryOK, TreeOK
<1>1. CASE SetTrap(c)
  BY <1>1 DEF SetTrap, Pid1Step
<1>2. CASE ForkKafka(c)
  BY <1>2 DEF ForkKafka, Pid1Step
<1>3. CASE NoteKafkaPid(c)
  BY <1>3 DEF NoteKafkaPid, Pid1Step
<1>4. CASE ForkWatchdog(c)
  BY <1>4 DEF ForkWatchdog, Pid1Step
<1>5. CASE NoteWatchdogPid(c)
  BY <1>5 DEF NoteWatchdogPid, Pid1Step
<1>6. CASE HandleTermAtWait(c)
  BY <1>6 DEF HandleTermAtWait, SignalWatchdog
<1>7. CASE HandleTermEarly(c)
  BY <1>7 DEF HandleTermEarly
<1>8. CASE HandleTermAtOnce(c)
  BY <1>8 DEF HandleTermAtOnce, ContainerEnds
<1>9. CASE WatchdogReaped(c)
  BY <1>9 DEF WatchdogReaped
<1>10. CASE KafkaReaped(c)
  BY <1>10 DEF KafkaReaped, ContainerEnds
<1>11. CASE WaitReturns(c)
  BY <1>11 DEF WaitReturns, ContainerEnds
<1>12. CASE KafkaTakesId(c)
  BY <1>12 DEF KafkaTakesId
<1>13. CASE KafkaStops(c)
  BY <1>13 DEF KafkaStops
<1>14. CASE Begin(c)
  BY <1>14 DEF Begin
<1>15. CASE RemoveNode(c)
  BY <1>15 DEF RemoveNode
<1>16. CASE RemoveReturns(c)
  BY <1>16 DEF RemoveReturns, Proceed, AfterShell
<1>17. CASE Enrol(c)
  BY <1>17 DEF Enrol, Proceed
<1>18. CASE Locate(c)
  BY <1>18 DEF Locate, Proceed
<1>19. CASE Poll(c)
  BY <1>19 DEF Poll, Proceed
<1>20. CASE Look(c)
  BY <1>20 DEF Look
<1>21. CASE Retire(c)
  BY <1>21 DEF Retire, Proceed
<1>22. CASE EnsureNode(c)
  BY <1>22 DEF EnsureNode
<1>23. CASE EnsureReturns(c)
  BY <1>23 DEF EnsureReturns, Proceed
<1>24. CASE Beat(c)
  BY <1>24 DEF Beat, Proceed
<1>25. CASE Answer(c)
  BY <1>25 DEF Answer, Proceed
<1>26. CASE Sleep(c)
  BY <1>26 DEF Sleep, Proceed
<1>27. CASE DockerStart(c)
  BY <1>27 DEF DockerStart
<1>28. CASE DockerStop(c)
  BY <1>28 DEF DockerStop
<1>29. CASE DockerKill(c)
  BY <1>29 DEF DockerKill, ContainerEnds
<1>30. CASE KafkaCrashes(c)
  BY <1>30 DEF KafkaCrashes
<1>31. CASE WipeLogs(c)
  BY <1>31 DEF WipeLogs
<1>32. CASE ShellFails(c)
  BY <1>32 DEF ShellFails, Proceed, AfterShell
<1> QED
  BY <1>1, <1>2, <1>3, <1>4, <1>5, <1>6, <1>7, <1>8, <1>9, <1>10, <1>11,
     <1>12, <1>13, <1>14, <1>15, <1>16, <1>17, <1>18, <1>19, <1>20, <1>21,
     <1>22, <1>23, <1>24, <1>25, <1>26, <1>27, <1>28, <1>29, <1>30, <1>31,
     <1>32 DEF ContainerStep, Pid1, Kafka, Dog, Environment

\* While no command fails, each command finds the registration where the
\* one before it left it.
LEMMA NoLossStep ==
    ASSUME TypeOK, ShapeOK, NoLossOK, NEW c \in Containers, ContainerStep(c)
    PROVE  NoLossOK'
<1> USE DEF TypeOK, Pid1Pc, Armed, InHandler, WdPc, Removing, Loop, NoProcess,
           BrokerId, NoId, ShapeOK, MemoryOK, TreeOK, NoLossOK, RegistrationOK,
           Registered
<1>1. CASE SetTrap(c)
  BY <1>1 DEF SetTrap, Pid1Step
<1>2. CASE ForkKafka(c)
  BY <1>2 DEF ForkKafka, Pid1Step
<1>3. CASE NoteKafkaPid(c)
  BY <1>3 DEF NoteKafkaPid, Pid1Step
<1>4. CASE ForkWatchdog(c)
  BY <1>4 DEF ForkWatchdog, Pid1Step
<1>5. CASE NoteWatchdogPid(c)
  BY <1>5 DEF NoteWatchdogPid, Pid1Step
<1>6. CASE HandleTermAtWait(c)
  BY <1>6 DEF HandleTermAtWait, SignalWatchdog
<1>7. CASE HandleTermEarly(c)
  BY <1>7 DEF HandleTermEarly
<1>8. CASE HandleTermAtOnce(c)
  BY <1>8 DEF HandleTermAtOnce, ContainerEnds
<1>9. CASE WatchdogReaped(c)
  BY <1>9 DEF WatchdogReaped
<1>10. CASE KafkaReaped(c)
  BY <1>10 DEF KafkaReaped, ContainerEnds
<1>11. CASE WaitReturns(c)
  BY <1>11 DEF WaitReturns, ContainerEnds
<1>12. CASE KafkaTakesId(c)
  BY <1>12 DEF KafkaTakesId
<1>13. CASE KafkaStops(c)
  BY <1>13 DEF KafkaStops
<1>14. CASE Begin(c)
  BY <1>14 DEF Begin
<1>15. CASE RemoveNode(c)
  BY <1>15 DEF RemoveNode
<1>16. CASE RemoveReturns(c)
  BY <1>16 DEF RemoveReturns, Proceed, AfterShell
<1>17. CASE Enrol(c)
  BY <1>17 DEF Enrol, Proceed
<1>18. CASE Locate(c)
  BY <1>18 DEF Locate, Proceed
<1>19. CASE Poll(c)
  BY <1>19 DEF Poll, Proceed
<1>20. CASE Look(c)
  BY <1>20 DEF Look
<1>21. CASE Retire(c)
  BY <1>21 DEF Retire, Proceed
<1>22. CASE EnsureNode(c)
  BY <1>22 DEF EnsureNode
<1>23. CASE EnsureReturns(c)
  BY <1>23 DEF EnsureReturns, Proceed
<1>24. CASE Beat(c)
  BY <1>24 DEF Beat, Proceed
<1>25. CASE Answer(c)
  BY <1>25 DEF Answer, Proceed
<1>26. CASE Sleep(c)
  BY <1>26 DEF Sleep, Proceed
<1>27. CASE DockerStart(c)
  BY <1>27 DEF DockerStart
<1>28. CASE DockerStop(c)
  BY <1>28 DEF DockerStop
<1>29. CASE DockerKill(c)
  BY <1>29 DEF DockerKill, ContainerEnds
<1>30. CASE KafkaCrashes(c)
  BY <1>30 DEF KafkaCrashes
<1>31. CASE WipeLogs(c)
  BY <1>31 DEF WipeLogs, ProcessesOK
<1>32. CASE ShellFails(c)
  <2>1. lost' # 0
    BY <1>32 DEF ShellFails
  <2> QED
    BY <2>1
<1> QED
  BY <1>1, <1>2, <1>3, <1>4, <1>5, <1>6, <1>7, <1>8, <1>9, <1>10, <1>11,
     <1>12, <1>13, <1>14, <1>15, <1>16, <1>17, <1>18, <1>19, <1>20, <1>21,
     <1>22, <1>23, <1>24, <1>25, <1>26, <1>27, <1>28, <1>29, <1>30, <1>31,
     <1>32 DEF ContainerStep, Pid1, Kafka, Dog, Environment

\* An id is given out once, and written only by the container it was given to.
LEMMA OwnershipStep ==
    ASSUME TypeOK, ShapeOK, OwnershipOK, NEW c \in Containers, ContainerStep(c)
    PROVE  OwnershipOK'
<1> USE DEF TypeOK, Pid1Pc, Armed, InHandler, WdPc, Removing, Loop, NoProcess,
           BrokerId, NoId, ShapeOK, MemoryOK, OwnershipOK, Held
<1>1. CASE SetTrap(c)
  BY <1>1 DEF SetTrap, Pid1Step
<1>2. CASE ForkKafka(c)
  BY <1>2 DEF ForkKafka, Pid1Step
<1>3. CASE NoteKafkaPid(c)
  BY <1>3 DEF NoteKafkaPid, Pid1Step
<1>4. CASE ForkWatchdog(c)
  BY <1>4 DEF ForkWatchdog, Pid1Step
<1>5. CASE NoteWatchdogPid(c)
  BY <1>5 DEF NoteWatchdogPid, Pid1Step
<1>6. CASE HandleTermAtWait(c)
  BY <1>6 DEF HandleTermAtWait, SignalWatchdog
<1>7. CASE HandleTermEarly(c)
  BY <1>7 DEF HandleTermEarly
<1>8. CASE HandleTermAtOnce(c)
  BY <1>8 DEF HandleTermAtOnce, ContainerEnds
<1>9. CASE WatchdogReaped(c)
  BY <1>9 DEF WatchdogReaped
<1>10. CASE KafkaReaped(c)
  BY <1>10 DEF KafkaReaped, ContainerEnds
<1>11. CASE WaitReturns(c)
  BY <1>11 DEF WaitReturns, ContainerEnds
<1>12. CASE KafkaTakesId(c)
  BY <1>12 DEF KafkaTakesId
<1>13. CASE KafkaStops(c)
  BY <1>13 DEF KafkaStops
<1>14. CASE Begin(c)
  BY <1>14 DEF Begin
<1>15. CASE RemoveNode(c)
  BY <1>15 DEF RemoveNode
<1>16. CASE RemoveReturns(c)
  BY <1>16 DEF RemoveReturns, Proceed, AfterShell
<1>17. CASE Enrol(c)
  BY <1>17 DEF Enrol, Proceed
<1>18. CASE Locate(c)
  BY <1>18 DEF Locate, Proceed
<1>19. CASE Poll(c)
  BY <1>19 DEF Poll, Proceed
<1>20. CASE Look(c)
  BY <1>20 DEF Look
<1>21. CASE Retire(c)
  BY <1>21 DEF Retire, Proceed
<1>22. CASE EnsureNode(c)
  <2>1. seen[c] = meta[c] /\ meta[c] # NoId
    BY <1>22 DEF EnsureNode
  <2>2. ASSUME NEW d \in Containers PROVE Held(d)' = Held(d)
    BY <1>22, <2>1 DEF EnsureNode
  <2>3. nextId' = nextId
    BY <1>22 DEF EnsureNode
  <2> QED
    BY <2>2, <2>3 DEF OwnershipOK
<1>23. CASE EnsureReturns(c)
  BY <1>23 DEF EnsureReturns, Proceed
<1>24. CASE Beat(c)
  BY <1>24 DEF Beat, Proceed
<1>25. CASE Answer(c)
  BY <1>25 DEF Answer, Proceed
<1>26. CASE Sleep(c)
  BY <1>26 DEF Sleep, Proceed
<1>27. CASE DockerStart(c)
  BY <1>27 DEF DockerStart
<1>28. CASE DockerStop(c)
  BY <1>28 DEF DockerStop
<1>29. CASE DockerKill(c)
  BY <1>29 DEF DockerKill, ContainerEnds
<1>30. CASE KafkaCrashes(c)
  BY <1>30 DEF KafkaCrashes
<1>31. CASE WipeLogs(c)
  BY <1>31 DEF WipeLogs
<1>32. CASE ShellFails(c)
  BY <1>32 DEF ShellFails, Proceed, AfterShell
<1> QED
  BY <1>1, <1>2, <1>3, <1>4, <1>5, <1>6, <1>7, <1>8, <1>9, <1>10, <1>11,
     <1>12, <1>13, <1>14, <1>15, <1>16, <1>17, <1>18, <1>19, <1>20, <1>21,
     <1>22, <1>23, <1>24, <1>25, <1>26, <1>27, <1>28, <1>29, <1>30, <1>31,
     <1>32 DEF ContainerStep, Pid1, Kafka, Dog, Environment

-----------------------------------------------------------------------------
LEMMA InvInit == Init => IInv
  BY DEF Init, IInv, TypeOK, ShapeOK, ProcessesOK, MemoryOK, TreeOK, NoLossOK,
         RegistrationOK, Registered, OwnershipOK, Held, BrokerId, NoId,
         Pid1Pc, WdPc, NoProcess, Loop

LEMMA InvStep == IInv /\ [Next]_vars => IInv'
<1> SUFFICES ASSUME IInv, [Next]_vars PROVE IInv'
  OBVIOUS
<1>1. CASE Next
  <2>1. PICK c \in Containers : ContainerStep(c)
    BY <1>1 DEF Next, ContainerStep
  <2>2. TypeOK'
    BY <2>1, TypeStep DEF IInv
  <2>3. ShapeOK'
    BY <2>1, ShapeStep DEF IInv
  <2>4. NoLossOK'
    BY <2>1, NoLossStep DEF IInv
  <2>5. OwnershipOK'
    BY <2>1, OwnershipStep DEF IInv
  <2> QED
    BY <2>2, <2>3, <2>4, <2>5 DEF IInv
<1>2. CASE UNCHANGED vars
  BY <1>2 DEF vars, IInv, TypeOK, ShapeOK, ProcessesOK, MemoryOK, TreeOK,
              NoLossOK, RegistrationOK, OwnershipOK, Held
<1> QED
  BY <1>1, <1>2

\* The strengthened invariant holds in every reachable state.
THEOREM Invariance == Spec => []IInv
<1> QED
  BY InvInit, InvStep, PTL DEF Spec

\* Every variable keeps its type: in particular no process of a container
\* leaves its script, and only ids that Kafka generated reach ZooKeeper.
THEOREM TypeCorrect == Spec => []TypeOK
<1>1. IInv => TypeOK
  BY DEF IInv
<1> QED
  BY <1>1, Invariance, PTL

\* Past its first removal a watchdog lists no id but its own broker's
\* (kafka-watchdog.sh:116-130), as long as no command failed.
THEOREM OwnBroker == Spec => []OwnBrokerOnly
<1>1. IInv => OwnBrokerOnly
  BY DEF IInv, NoLossOK, RegistrationOK, OwnBrokerOnly
<1> QED
  BY <1>1, Invariance, PTL

\* A watchdog that has exited left nothing behind (kafka-watchdog.sh:95-114),
\* as long as no command failed.
THEOREM CleanExit == Spec => []GoneMeansAbsent
<1>1. IInv => GoneMeansAbsent
  BY DEF IInv, NoLossOK, RegistrationOK, GoneMeansAbsent
<1> QED
  BY <1>1, Invariance, PTL

\* An id is found only beneath an entry that holds the host's address
\* (kafka-watchdog.sh:118, 26), as long as no command failed.
THEOREM LocatedFirst == Spec => []IdsAreLocated
<1>1. IInv => IdsAreLocated
  BY DEF IInv, ShapeOK, TreeOK, NoLossOK, RegistrationOK, IdsAreLocated
<1> QED
  BY <1>1, Invariance, PTL

\* No id is listed under two containers, whatever commands fail.
THEOREM DisjointIds == Spec => []IdsAreDisjoint
<1>1. IInv => IdsAreDisjoint
  BY DEF IInv, OwnershipOK, Held, IdsAreDisjoint
<1> QED
  BY <1>1, Invariance, PTL
=============================================================================
