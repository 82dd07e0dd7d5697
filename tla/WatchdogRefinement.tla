-------------------------- MODULE WatchdogRefinement --------------------------
(***************************************************************************)
(* The two scripts implement the registration protocol of DockRegistry,    *)
(* for any set of containers and any bounds, as long as no command fails.  *)
(*                                                                         *)
(* Beside the invariant of WatchdogProofs the steps need two facts: that a *)
(* watchdog is forked only where none is, and that the id that is retired  *)
(* is not the broker's own.  Each step of a container is then one of nine  *)
(* outcomes for the readers of its entry, and each outcome is a step of    *)
(* the protocol or none.                                                   *)
(*                                                                         *)
(* The second half is about module System, where the monitor is at work on *)
(* the scripts' tree: what DockmonProofs says of any environment holds     *)
(* beside them, also when commands fail, and as long as none has failed    *)
(* the whole implements Dockmon.                                           *)
(***************************************************************************)
EXTENDS WatchdogProofs, System

USE BoundsAssumption
USE DEF pid1Vars, kafkaVars, dogVars, treeVars

ForkOK(c) ==
    /\ init[c] \in {"boot", "launch", "pid", "watch"} => wd[c] = "off"
    /\ wd[c] = "retire" => brokerId[c] # meta[c]

AllForkOK == \A c \in Containers : ForkOK(c)

\* The first of the two facts, and the second.
LEMMA ForkStep ==
    ASSUME TypeOK, ShapeOK, AllForkOK, NEW c \in Containers, ContainerStep(c)
    PROVE  AllForkOK'
<1> USE DEF TypeOK, Pid1Pc, Armed, InHandler, WdPc, Removing, Loop, NoProcess, BrokerId, NoId,
           ShapeOK, ProcessesOK, MemoryOK, AllForkOK, ForkOK
<1>1. CASE SetTrap(c)
  BY <1>1 DEF SetTrap, Pid1Step
<1>2. CASE ForkKafka(c)
  BY <1>2 DEF ForkKafka, Pid1Step
<1>3. CASE NoteKafkaPid(c)
  BY <1>3 DEF NoteKafkaPid, Pid1Step
<1>4. CASE ForkWatchdog(c)
  BY <1>4 DEF ForkWatchdog, Pid1Step
<1>5. CASE NoteWatchdogPid(c)
  BY <1>5 DEF NoteWatchdogPid, Pid1Step
<1>6. CASE HandleTermAtWait(c)
  BY <1>6 DEF HandleTermAtWait, SignalWatchdog
<1>7. CASE HandleTermEarly(c)
  BY <1>7 DEF HandleTermEarly
<1>8. CASE HandleTermAtOnce(c)
  BY <1>8 DEF HandleTermAtOnce, ContainerEnds
<1>9. CASE WatchdogReaped(c)
  BY <1>9 DEF WatchdogReaped
<1>10. CASE KafkaReaped(c)
  BY <1>10 DEF KafkaReaped, ContainerEnds
<1>11. CASE WaitReturns(c)
  BY <1>11 DEF WaitReturns, ContainerEnds
<1>12. CASE KafkaTakesId(c)
  BY <1>12 DEF KafkaTakesId
<1>13. CASE KafkaStops(c)
  BY <1>13 DEF KafkaStops
<1>14. CASE Begin(c)
  BY <1>14 DEF Begin
<1>15. CASE RemoveNode(c)
  BY <1>15 DEF RemoveNode
<1>16. CASE RemoveReturns(c)
  BY <1>16 DEF RemoveReturns, Proceed, AfterShell
<1>17. CASE Enrol(c)
  BY <1>17 DEF Enrol, Proceed
<1>18. CASE Locate(c)
  BY <1>18 DEF Locate, Proceed
<1>19. CASE Poll(c)
  BY <1>19 DEF Poll, Proceed
<1>20. CASE Look(c)
  BY <1>20 DEF Look
<1>21. CASE Retire(c)
  BY <1>21 DEF Retire, Proceed
<1>22. CASE EnsureNode(c)
  BY <1>22 DEF EnsureNode
<1>23. CASE EnsureReturns(c)
  BY <1>23 DEF EnsureReturns, Proceed
<1>24. CASE Beat(c)
  BY <1>24 DEF Beat, Proceed
<1>25. CASE Answer(c)
  BY <1>25 DEF Answer, Proceed
<1>26. CASE Sleep(c)
  BY <1>26 DEF Sleep, Proceed
<1>27. CASE DockerStart(c)
  BY <1>27 DEF DockerStart
<1>28. CASE DockerStop(c)
  BY <1>28 DEF DockerStop
<1>29. CASE DockerKill(c)
  BY <1>29 DEF DockerKill, ContainerEnds
<1>30. CASE KafkaCrashes(c)
  BY <1>30 DEF KafkaCrashes
<1>31. CASE WipeLogs(c)
  BY <1>31 DEF WipeLogs
<1>32. CASE ShellFails(c)
  BY <1>32 DEF ShellFails, Proceed, AfterShell
<1> QED
  BY <1>1, <1>2, <1>3, <1>4, <1>5, <1>6, <1>7, <1>8, <1>9, <1>10, <1>11,
     <1>12, <1>13, <1>14, <1>15, <1>16, <1>17, <1>18, <1>19, <1>20, <1>21, <1>22,
     <1>23, <1>24, <1>25, <1>26, <1>27, <1>28, <1>29, <1>30, <1>31, <1>32
  DEF ContainerStep, Pid1, Kafka, Dog, Environment

RefInv == IInv /\ AllForkOK

LEMMA RefInvInit == Init => RefInv
  BY InvInit DEF Init, RefInv, AllForkOK, ForkOK

LEMMA RefInvStep == RefInv /\ [Next]_vars => RefInv'
<1>1. ASSUME RefInv, Next PROVE AllForkOK'
  <2>1. PICK c \in Containers : ContainerStep(c)
    BY <1>1 DEF Next
  <2> QED
    BY <1>1, <2>1, ForkStep DEF RefInv, IInv
<1>2. ASSUME RefInv, UNCHANGED vars PROVE AllForkOK'
  BY <1>2 DEF RefInv, AllForkOK, ForkOK, vars
<1> QED
  BY <1>1, <1>2, InvStep DEF RefInv

LEMMA RefInductive == Spec => []RefInv
  BY RefInvInit, RefInvStep, PTL DEF Spec

-----------------------------------------------------------------------------
\* What a reader can tell of a step of container c: the tree around it, and how
\* far the container has come.
TreeKept(c) == docks' = docks /\ located' = located /\ (ids'[c] = {} <=> ids[c] = {})

Outcome(c) ==
    \/ PhaseOf(c)' = PhaseOf(c) /\ TreeKept(c)
    \/ PhaseOf(c) = "down" /\ PhaseOf(c)' = "up" /\ TreeKept(c)
    \/ PhaseOf(c) # "down" /\ PhaseOf(c)' = "down" /\ TreeKept(c)
    \/ PhaseOf(c) \in {"up", "enrolled", "serving"} /\ PhaseOf(c)' = "leaving" /\ TreeKept(c)
    \/ /\ PhaseOf(c) = "up" /\ PhaseOf(c)' \in {"enrolled", "leaving"}
       /\ c \notin docks /\ docks' = docks \cup {c}
       /\ located' = located /\ ids' = ids
    \/ /\ PhaseOf(c) = "enrolled" /\ PhaseOf(c)' \in {"serving", "leaving"}
       /\ located' = located \cup {c}
       /\ docks' = docks /\ ids' = ids
    \/ /\ PhaseOf(c) = "serving" /\ PhaseOf(c)' = "serving"
       /\ ids'[c] # {}
       /\ docks' = docks /\ located' = located
    \/ /\ PhaseOf(c) \in {"up", "leaving"} /\ PhaseOf(c)' = PhaseOf(c)
       /\ ids[c] # {} /\ ids'[c] = {}
       /\ docks' = docks /\ located' = located
    \/ /\ PhaseOf(c) \in {"up", "leaving"} /\ PhaseOf(c)' = PhaseOf(c)
       /\ ids[c] = {} /\ c \in docks
       /\ docks' = docks \ {c} /\ located' = located \ {c} /\ ids' = ids

\* Every step of a container without a failed command has one of the outcomes.
LEMMA OutcomeStep ==
    ASSUME RefInv, NEW c \in Containers, ContainerStep(c), lost = 0, lost' = 0
    PROVE  Outcome(c)
<1> USE DEF TypeOK, Pid1Pc, Armed, InHandler, WdPc, Removing, Loop, NoProcess, BrokerId, NoId,
           RefInv, IInv, ShapeOK, ProcessesOK, MemoryOK, TreeOK, NoLossOK, RegistrationOK,
           Registered, AllForkOK, ForkOK, Outcome, TreeKept, PhaseOf
<1>1. CASE SetTrap(c)
  BY <1>1 DEF SetTrap, Pid1Step
<1>2. CASE ForkKafka(c)
  BY <1>2 DEF ForkKafka, Pid1Step
<1>3. CASE NoteKafkaPid(c)
  BY <1>3 DEF NoteKafkaPid, Pid1Step
<1>4. CASE ForkWatchdog(c)
  BY <1>4 DEF ForkWatchdog, Pid1Step
<1>5. CASE NoteWatchdogPid(c)
  BY <1>5 DEF NoteWatchdogPid, Pid1Step
<1>6. CASE HandleTermAtWait(c)
  BY <1>6 DEF HandleTermAtWait, SignalWatchdog
<1>7. CASE HandleTermEarly(c)
  BY <1>7 DEF HandleTermEarly
<1>8. CASE HandleTermAtOnce(c)
  BY <1>8 DEF HandleTermAtOnce, ContainerEnds
<1>9. CASE WatchdogReaped(c)
  BY <1>9 DEF WatchdogReaped
<1>10. CASE KafkaReaped(c)
  BY <1>10 DEF KafkaReaped, ContainerEnds
<1>11. CASE WaitReturns(c)
  BY <1>11 DEF WaitReturns, ContainerEnds
<1>12. CASE KafkaTakesId(c)
  BY <1>12 DEF KafkaTakesId
<1>13. CASE KafkaStops(c)
  BY <1>13 DEF KafkaStops
<1>14. CASE Begin(c)
  BY <1>14 DEF Begin
<1>15. CASE RemoveNode(c)
  BY <1>15 DEF RemoveNode
<1>16. CASE RemoveReturns(c)
  BY <1>16 DEF RemoveReturns, Proceed, AfterShell
<1>17. CASE Enrol(c)
  BY <1>17 DEF Enrol, Proceed
<1>18. CASE Locate(c)
  BY <1>18 DEF Locate, Proceed
<1>19. CASE Poll(c)
  BY <1>19 DEF Poll, Proceed
<1>20. CASE Look(c)
  BY <1>20 DEF Look
<1>21. CASE Retire(c)
  BY <1>21 DEF Retire, Proceed
<1>22. CASE EnsureNode(c)
  BY <1>22 DEF EnsureNode
<1>23. CASE EnsureReturns(c)
  BY <1>23 DEF EnsureReturns, Proceed
<1>24. CASE Beat(c)
  BY <1>24 DEF Beat, Proceed
<1>25. CASE Answer(c)
  BY <1>25 DEF Answer, Proceed
<1>26. CASE Sleep(c)
  BY <1>26 DEF Sleep, Proceed
<1>27. CASE DockerStart(c)
  BY <1>27 DEF DockerStart
<1>28. CASE DockerStop(c)
  BY <1>28 DEF DockerStop
<1>29. CASE DockerKill(c)
  BY <1>29 DEF DockerKill, ContainerEnds
<1>30. CASE KafkaCrashes(c)
  BY <1>30 DEF KafkaCrashes
<1>31. CASE WipeLogs(c)
  BY <1>31 DEF WipeLogs
<1>32. CASE ShellFails(c)
  BY <1>32 DEF ShellFails
<1> QED
  BY <1>1, <1>2, <1>3, <1>4, <1>5, <1>6, <1>7, <1>8, <1>9, <1>10, <1>11,
     <1>12, <1>13, <1>14, <1>15, <1>16, <1>17, <1>18, <1>19, <1>20, <1>21, <1>22,
     <1>23, <1>24, <1>25, <1>26, <1>27, <1>28, <1>29, <1>30, <1>31, <1>32
  DEF ContainerStep, Pid1, Kafka, Dog, Environment

\* The data of a znode depends on nothing but whether the address is there.
LEMMA SameInfo ==
    ASSUME NEW c \in Containers, c \in located' <=> c \in located
    PROVE  InfoOf(c)' = InfoOf(c)
<1>1. (c \in located') = (c \in located)
  OBVIOUS
<1> QED
  BY <1>1, Zenon DEF InfoOf

\* A step of container c leaves the others as they were, and only zk_set writes
\* an address.
Kept(d) ==
    /\ init'[d] = init[d] /\ wd'[d] = wd[d] /\ ids'[d] = ids[d]
    /\ d \in docks' <=> d \in docks
    /\ d \in located' <=> d \in located

LEMMA OthersKept ==
    ASSUME TypeOK, NEW c \in Containers, ContainerStep(c)
    PROVE  /\ lost' \in {lost, lost + 1}
           /\ c \in located' => c \in located \/ Locate(c)
           /\ \A d \in Containers \ {c} : Kept(d)
<1> USE DEF Kept
<1> USE DEF TypeOK, Pid1Pc, Armed, InHandler, WdPc, Removing, Loop, NoProcess, BrokerId, NoId
<1>1. CASE SetTrap(c)
  BY <1>1 DEF SetTrap, Pid1Step
<1>2. CASE ForkKafka(c)
  BY <1>2 DEF ForkKafka, Pid1Step
<1>3. CASE NoteKafkaPid(c)
  BY <1>3 DEF NoteKafkaPid, Pid1Step
<1>4. CASE ForkWatchdog(c)
  BY <1>4 DEF ForkWatchdog, Pid1Step
<1>5. CASE NoteWatchdogPid(c)
  BY <1>5 DEF NoteWatchdogPid, Pid1Step
<1>6. CASE HandleTermAtWait(c)
  BY <1>6 DEF HandleTermAtWait, SignalWatchdog
<1>7. CASE HandleTermEarly(c)
  BY <1>7 DEF HandleTermEarly
<1>8. CASE HandleTermAtOnce(c)
  BY <1>8 DEF HandleTermAtOnce, ContainerEnds
<1>9. CASE WatchdogReaped(c)
  BY <1>9 DEF WatchdogReaped
<1>10. CASE KafkaReaped(c)
  BY <1>10 DEF KafkaReaped, ContainerEnds
<1>11. CASE WaitReturns(c)
  BY <1>11 DEF WaitReturns, ContainerEnds
<1>12. CASE KafkaTakesId(c)
  BY <1>12 DEF KafkaTakesId
<1>13. CASE KafkaStops(c)
  BY <1>13 DEF KafkaStops
<1>14. CASE Begin(c)
  BY <1>14 DEF Begin
<1>15. CASE RemoveNode(c)
  BY <1>15 DEF RemoveNode
<1>16. CASE RemoveReturns(c)
  BY <1>16 DEF RemoveReturns, Proceed, AfterShell
<1>17. CASE Enrol(c)
  BY <1>17 DEF Enrol, Proceed
<1>18. CASE Locate(c)
  BY <1>18 DEF Locate, Proceed
<1>19. CASE Poll(c)
  BY <1>19 DEF Poll, Proceed
<1>20. CASE Look(c)
  BY <1>20 DEF Look
<1>21. CASE Retire(c)
  BY <1>21 DEF Retire, Proceed
<1>22. CASE EnsureNode(c)
  BY <1>22 DEF EnsureNode
<1>23. CASE EnsureReturns(c)
  BY <1>23 DEF EnsureReturns, Proceed
<1>24. CASE Beat(c)
  BY <1>24 DEF Beat, Proceed
<1>25. CASE Answer(c)
  BY <1>25 DEF Answer, Proceed
<1>26. CASE Sleep(c)
  BY <1>26 DEF Sleep, Proceed
<1>27. CASE DockerStart(c)
  BY <1>27 DEF DockerStart
<1>28. CASE DockerStop(c)
  BY <1>28 DEF DockerStop
<1>29. CASE DockerKill(c)
  BY <1>29 DEF DockerKill, ContainerEnds
<1>30. CASE KafkaCrashes(c)
  BY <1>30 DEF KafkaCrashes
<1>31. CASE WipeLogs(c)
  BY <1>31 DEF WipeLogs
<1>32. CASE ShellFails(c)
  BY <1>32 DEF ShellFails, Proceed, AfterShell
<1> QED
  BY <1>1, <1>2, <1>3, <1>4, <1>5, <1>6, <1>7, <1>8, <1>9, <1>10, <1>11,
     <1>12, <1>13, <1>14, <1>15, <1>16, <1>17, <1>18, <1>19, <1>20, <1>21, <1>22,
     <1>23, <1>24, <1>25, <1>26, <1>27, <1>28, <1>29, <1>30, <1>31, <1>32
  DEF ContainerStep, Pid1, Kafka, Dog, Environment

\* What a reader can tell of the others does not change.
LEMMA Locality ==
    ASSUME TypeOK, NEW c \in Containers, ContainerStep(c)
    PROVE  /\ lost' \in {lost, lost + 1}
           /\ \A d \in Containers \ {c} : PhaseOf(d)' = PhaseOf(d) /\ InfoOf(d)' = InfoOf(d)
                                         /\ ids'[d] = ids[d]
<1>1. ASSUME NEW d \in Containers, Kept(d) PROVE InfoOf(d)' = InfoOf(d)
  BY <1>1, SameInfo DEF Kept
<1>2. ASSUME NEW d \in Containers, Kept(d) PROVE PhaseOf(d)' = PhaseOf(d)
  BY <1>2 DEF Kept, PhaseOf
<1>3. \A d \in Containers : Kept(d) => ids'[d] = ids[d]
  BY DEF Kept
<1>4. lost' \in {lost, lost + 1} /\ \A d \in Containers \ {c} : Kept(d)
  BY OthersKept
<1> QED
  BY <1>1, <1>2, <1>3, <1>4

-----------------------------------------------------------------------------
\* The mapping of ImplementsRegistry, by name.
phaseMap == [c \in Containers |-> PhaseOf(c)]
infoMap  == [c \in Containers |-> InfoOf(c)]
shownMap == {c \in Containers : ids[c] # {}}

\* An outcome for one container, with the others as they were, is a step of the
\* protocol or invisible.
LEMMA OutcomeIsStep ==
    ASSUME TypeOK, TypeOK', NEW c \in Containers, Outcome(c),
           \A d \in Containers \ {c} : /\ PhaseOf(d)' = PhaseOf(d) /\ InfoOf(d)' = InfoOf(d)
                                        /\ ids'[d] = ids[d]
    PROVE  Registry!OwnerStep(c) \/ UNCHANGED Registry!registryVars
<1> DEFINE p == PhaseOf(c)
           q == PhaseOf(c)'
<1>1. /\ phaseMap' = [phaseMap EXCEPT ![c] = q] /\ phaseMap[c] = p
      /\ q = p => phaseMap' = phaseMap
  BY DEF phaseMap
<1>2. infoMap' = [infoMap EXCEPT ![c] = InfoOf(c)']
  BY DEF infoMap
<1>3. /\ shownMap' = IF ids'[c] = {} THEN shownMap \ {c} ELSE shownMap \cup {c}
      /\ c \in shownMap <=> ids[c] # {}
      /\ (ids'[c] = {} <=> ids[c] = {}) => shownMap' = shownMap
  BY DEF shownMap
<1>4. (c \in located' <=> c \in located) => infoMap' = infoMap
  BY SameInfo DEF infoMap
<1>5. c \in located' => InfoOf(c)' = Registry!Located
  <2>1. ASSUME c \in located' PROVE (c \in located') = TRUE
    BY <2>1
  <2> QED
    BY <2>1, Zenon DEF InfoOf, Registry!Located
<1>6. c \notin located' => InfoOf(c)' = Registry!Empty
  <2>1. ASSUME c \notin located' PROVE (c \in located') = FALSE
    BY <2>1
  <2> QED
    BY <2>1, Zenon DEF InfoOf, Registry!Empty
<1> HIDE DEF p, q
<1>7. CASE q = p /\ TreeKept(c)
  BY <1>7, <1>1, <1>3, <1>4 DEF TreeKept, Registry!registryVars, phaseMap, infoMap, shownMap
<1>8. CASE p = "down" /\ q = "up" /\ TreeKept(c)
  <2>1. Registry!Up(c)
    BY <1>8, <1>1, <1>3, <1>4 DEF TreeKept, Registry!Up, phaseMap, infoMap, shownMap
  <2> QED
    BY <2>1 DEF Registry!OwnerStep
<1>9. CASE p # "down" /\ q = "down" /\ TreeKept(c)
  <2>1. Registry!Down(c)
    BY <1>9, <1>1, <1>3, <1>4 DEF TreeKept, Registry!Down, phaseMap, infoMap, shownMap
  <2> QED
    BY <2>1 DEF Registry!OwnerStep
<1>10. CASE p \in {"up", "enrolled", "serving"} /\ q = "leaving" /\ TreeKept(c)
  <2>1. Registry!Leave(c)
    BY <1>10, <1>1, <1>3, <1>4 DEF TreeKept, Registry!Leave, phaseMap, infoMap, shownMap
  <2> QED
    BY <2>1 DEF Registry!OwnerStep
<1>11. CASE /\ p = "up" /\ q \in {"enrolled", "leaving"}
            /\ c \notin docks /\ docks' = docks \cup {c} /\ located' = located /\ ids' = ids
  <2>1. Registry!Enrol(c)
    BY <1>11, <1>1, <1>3, <1>4 DEF Registry!Enrol, phaseMap, infoMap, shownMap
  <2> QED
    BY <2>1 DEF Registry!OwnerStep
<1>12. CASE /\ p = "enrolled" /\ q \in {"serving", "leaving"}
            /\ located' = located \cup {c} /\ docks' = docks /\ ids' = ids
  <2>1. Registry!Locate(c)
    BY <1>12, <1>1, <1>2, <1>3, <1>5 DEF Registry!Locate, phaseMap, infoMap, shownMap
  <2> QED
    BY <2>1 DEF Registry!OwnerStep
<1>13. CASE /\ p = "serving" /\ q = "serving" /\ ids'[c] # {}
            /\ docks' = docks /\ located' = located
  <2>1. Registry!Publish(c)
    BY <1>13, <1>1, <1>3, <1>4 DEF Registry!Publish, phaseMap, infoMap, shownMap
  <2> QED
    BY <2>1 DEF Registry!OwnerStep
<1>14. CASE /\ p \in {"up", "leaving"} /\ q = p /\ ids[c] # {} /\ ids'[c] = {}
            /\ docks' = docks /\ located' = located
  <2>1. Registry!Withdraw(c)
    BY <1>14, <1>1, <1>3, <1>4 DEF Registry!Withdraw, phaseMap, infoMap, shownMap
  <2> QED
    BY <2>1 DEF Registry!OwnerStep
<1>15. CASE /\ p \in {"up", "leaving"} /\ q = p /\ ids[c] = {} /\ c \in docks
            /\ docks' = docks \ {c} /\ located' = located \ {c} /\ ids' = ids
  <2>1. Registry!Remove(c)
    BY <1>15, <1>1, <1>2, <1>3, <1>6 DEF Registry!Remove, phaseMap, infoMap, shownMap
  <2> QED
    BY <2>1 DEF Registry!OwnerStep
<1> QED
  BY <1>7, <1>8, <1>9, <1>10, <1>11, <1>12, <1>13, <1>14, <1>15 DEF Outcome, p, q

-----------------------------------------------------------------------------
\* Module Watchdog's two scripts implement DockRegistry's protocol, as long as no
\* command fails: the property ImplementsRegistry, for every set of containers.
THEOREM Implements == Spec => ImplementsRegistry
<1>1. Init => Registry!RegistryInit
  <2> SUFFICES ASSUME Init PROVE Registry!RegistryInit
    OBVIOUS
  <2>1. \A c \in Containers : PhaseOf(c) = "down"
    BY DEF Init, PhaseOf
  <2>2. \A c \in Containers : InfoOf(c) = Registry!Empty
    <3> SUFFICES ASSUME NEW c \in Containers PROVE InfoOf(c) = Registry!Empty
      OBVIOUS
    <3>1. (c \in located) = FALSE
      BY DEF Init
    <3> QED
      BY <3>1, Zenon DEF InfoOf, Registry!Empty
  <2> QED
    BY <2>1, <2>2 DEF Init, Registry!RegistryInit
<1> DEFINE Bound == lost' = 0 => Registry!RegistryNext \/ UNCHANGED Registry!registryVars
<1>2. RefInv /\ RefInv' /\ [Next]_vars => [Bound]_vars
  <2> SUFFICES ASSUME RefInv, RefInv', Next, lost' = 0
               PROVE  Registry!RegistryNext \/ UNCHANGED Registry!registryVars
    OBVIOUS
  <2>1. PICK c \in Containers : ContainerStep(c)
    BY DEF Next, ContainerStep
  <2>2. TypeOK /\ TypeOK'
    BY DEF RefInv, IInv
  <2>3. lost = 0
    BY <2>1, <2>2, Locality DEF TypeOK
  <2>4. Outcome(c)
    BY <2>1, <2>3, OutcomeStep
  <2>5. Registry!OwnerStep(c) \/ UNCHANGED Registry!registryVars
    BY <2>1, <2>2, <2>4, Locality, OutcomeIsStep
  <2> QED
    BY <2>5 DEF Registry!RegistryNext
<1>3. Spec => []RefInv
  BY RefInductive
<1> QED
  BY <1>1, <1>2, <1>3, PTL DEF Spec, ImplementsRegistry

-----------------------------------------------------------------------------
(***************************************************************************)
(* The scripts together with the monitor (module System).  DockmonProofs,  *)
(* with recentdocks at rest, gives the invariant that the monitor keeps    *)
(* beside any environment, and the scripts are one whatever their commands *)
(* do.  DataOK relates the data to what Watchdog knows of them.            *)
(***************************************************************************)
Monitor == INSTANCE DockmonProofs WITH
    phase <- [c \in Containers |-> PhaseOf(c)],
    shown <- {c \in Containers : ids[c] # {}},
    at <- "off", containers <- {}, left <- {}, dock <- {}, brokers <- {}, steady <- {}

DataOK ==
    /\ \A c \in Containers : c \notin docks => info[c] = TechHost!Empty
    /\ \A c \in located : info[c].located

SysInv == RefInv /\ Monitor!MonitorInv /\ DataOK

\* The two instances have the same monitor.
LEMMA SameMonitor ==
    /\ TechHost!DockmonInit => Monitor!DockmonInit
    /\ TechHost!MonitorNext <=> Monitor!MonitorNext
    /\ TechHost!Fire <=> Monitor!Fire
  BY DEF TechHost!RegistryInit, Monitor!RegistryInit, TechHost!registryVars,
     Monitor!registryVars, TechHost!Starts, Monitor!Starts, TechHost!Threads,
     Monitor!Threads, TechHost!Empty, Monitor!Empty, TechHost!Located, Monitor!Located,
     TechHost!Recorded, Monitor!Recorded, TechHost!Alive, Monitor!Alive,
     TechHost!Connected, Monitor!Connected, TechHost!InBootstrap, Monitor!InBootstrap,
     TechHost!lockVars, Monitor!lockVars, TechHost!localVars, Monitor!localVars,
     TechHost!dockmonVars, Monitor!dockmonVars, TechHost!dockmonAllVars,
     Monitor!dockmonAllVars, TechHost!Fire, Monitor!Fire, TechHost!ListChildren,
     Monitor!ListChildren, TechHost!AfterBootstrap, Monitor!AfterBootstrap,
     TechHost!MainStep, Monitor!MainStep, TechHost!Bootstrap, Monitor!Bootstrap,
     TechHost!BootstrapBlind, Monitor!BootstrapBlind, TechHost!Daemonize,
     Monitor!Daemonize, TechHost!Round, Monitor!Round, TechHost!Cleanup, Monitor!Cleanup,
     TechHost!Close, Monitor!Close, TechHost!Notice, Monitor!Notice, TechHost!Terminate,
     Monitor!Terminate, TechHost!ThreadStep, Monitor!ThreadStep, TechHost!UpdateDocklist,
     Monitor!UpdateDocklist, TechHost!TakeZkLock, Monitor!TakeZkLock, TechHost!Get,
     Monitor!Get, TechHost!AskDocker, Monitor!AskDocker, TechHost!Set, Monitor!Set,
     TechHost!Return, Monitor!Return, TechHost!NoNode, Monitor!NoNode, TechHost!Raise,
     Monitor!Raise, TechHost!DockerFails, Monitor!DockerFails, TechHost!MonitorNext,
     Monitor!MonitorNext, TechHost!DockmonInit, Monitor!DockmonInit

USE SystemAssumption

\* The address is written by zk_set and lost only with the container.
LEMMA LocateMoves ==
    ASSUME RefInv, NEW c \in Containers, ContainerStep(c), lost' = lost,
           wd[c] = "locate", ~Locate(c)
    PROVE  wd'[c] = "locate" \/ init'[c] = "down"
<1> USE DEF RefInv, IInv, TypeOK, ShapeOK, ProcessesOK, AllForkOK, ForkOK
<1>1. CASE Pid1(c)
  BY <1>1 DEF Pid1, SetTrap, ForkKafka, NoteKafkaPid, ForkWatchdog, NoteWatchdogPid, Pid1Step,
              HandleTermAtWait, HandleTermEarly, HandleTermAtOnce, WatchdogReaped, KafkaReaped,
              WaitReturns, SignalWatchdog, ContainerEnds, NoProcess
<1>2. CASE Kafka(c)
  BY <1>2 DEF Kafka, KafkaTakesId, KafkaStops
<1>3. CASE Dog(c)
  BY <1>3 DEF Dog, Begin, RemoveNode, RemoveReturns, Removing, Enrol, Poll, Look, Retire,
              EnsureNode, EnsureReturns, Beat, Answer, Sleep
<1>4. CASE Environment(c)
  BY <1>4 DEF Environment, DockerStart, DockerStop, DockerKill, KafkaCrashes, WipeLogs,
              ShellFails, ContainerEnds
<1> QED
  BY <1>1, <1>2, <1>3, <1>4 DEF ContainerStep

\* What the scripts do to the entry's data fits what Watchdog knows of them.
LEMMA DataStep ==
    ASSUME RefInv, RefInv', DataOK, info \in [Containers -> TechHost!Info],
           NEW c \in Containers, AtContainer(c)
    PROVE  /\ DataOK'
           /\ info' \in [Containers -> TechHost!Info]
           /\ \A d \in Containers : info'[d].recorded => info'[d] = info[d]
<1>1. /\ TechHost!Empty \in TechHost!Info /\ TechHost!Located \in TechHost!Info
      /\ ~TechHost!Empty.recorded /\ ~TechHost!Located.recorded /\ TechHost!Located.located
  BY DEF TechHost!Info, TechHost!Empty, TechHost!Located
<1>2. info' = [info EXCEPT ![c] = DataAfter(c)] /\ ContainerStep(c)
  BY DEF AtContainer
<1>3. TypeOK /\ (located' \subseteq docks') /\ located' \subseteq Containers
  BY DEF RefInv, IInv, ShapeOK, TreeOK, TypeOK
<1>4. DataAfter(c) \in {TechHost!Empty, TechHost!Located, info[c]}
  BY DEF DataAfter
<1>5. c \notin docks' => DataAfter(c) = TechHost!Empty
  BY DEF DataAfter
<1>6. c \in located' => DataAfter(c).located
  <2>1. c \in located' => c \in docks' /\ (c \in located \/ Locate(c))
    BY <1>2, <1>3, OthersKept
  <2> QED
    BY <2>1, <1>1 DEF DataAfter, DataOK
<1>7. \A d \in Containers \ {c} : Kept(d)
  BY <1>2, <1>3, OthersKept
<1>8. info'[c] = DataAfter(c) /\ \A d \in Containers \ {c} : info'[d] = info[d]
  BY <1>2
<1>9. info' \in [Containers -> TechHost!Info]
  BY <1>1, <1>2, <1>4
<1>10. \A d \in Containers : info'[d].recorded => info'[d] = info[d]
  <2>1. info'[c] = info[c] \/ ~info'[c].recorded
    BY <1>1, <1>4, <1>8
  <2> QED
    BY <2>1, <1>8
<1>11. \A d \in Containers : d \notin docks' => info'[d] = TechHost!Empty
  <2>1. c \notin docks' => info'[c] = TechHost!Empty
    BY <1>5, <1>8
  <2>2. ASSUME NEW d \in Containers \ {c}, d \notin docks' PROVE info'[d] = TechHost!Empty
    BY <1>7, <1>8, <2>2 DEF DataOK, Kept
  <2> QED
    BY <2>1, <2>2
<1>12. \A d \in located' : info'[d].located
  <2>1. c \in located' => info'[c].located
    BY <1>6, <1>8
  <2>2. ASSUME NEW d \in Containers \ {c}, d \in located' PROVE info'[d].located
    BY <1>7, <1>8, <2>2 DEF DataOK, Kept
  <2> QED
    BY <1>3, <2>1, <2>2
<1> QED
  BY <1>9, <1>10, <1>11, <1>12 DEF DataOK

\* The scripts write no answers, whatever their commands do.
LEMMA ScriptsAreOutside ==
    ASSUME SysInv, RefInv', NEW c \in Containers, AtContainer(c)
    PROVE  Monitor!Outside /\ DataOK'
<1>1. Monitor!RegistryTypeOK
  BY DEF SysInv, Monitor!MonitorInv, Monitor!DockmonTypeOK
<1>2. Monitor!Info = TechHost!Info
  BY DEF Monitor!Info, TechHost!Info, Monitor!Empty, TechHost!Empty, Monitor!Located,
         TechHost!Located, Monitor!Recorded, TechHost!Recorded
<1>3. info \in [Containers -> TechHost!Info] /\ port \in [Containers -> Ports]
  BY <1>1, <1>2 DEF Monitor!RegistryTypeOK
<1>4. /\ DataOK'
      /\ info' \in [Containers -> TechHost!Info]
      /\ \A d \in Containers : info'[d].recorded => info'[d] = info[d]
  BY <1>3, DataStep DEF SysInv
<1>5. port' \in [Containers -> Ports] /\ Monitor!Fire
  BY <1>3, SameMonitor DEF AtContainer
<1>6. [d \in Containers |-> PhaseOf(d)'] \in [Containers -> Monitor!Phases]
  BY DEF PhaseOf, Monitor!Phases
<1>7. docks' \subseteq Containers /\ {d \in Containers : ids'[d] # {}} \subseteq docks'
  BY DEF RefInv, IInv, TypeOK, ShapeOK, TreeOK
<1>8. Monitor!RegistryTypeOK'
  BY <1>2, <1>4, <1>5, <1>6, <1>7 DEF Monitor!RegistryTypeOK
<1> QED
  BY <1>4, <1>5, <1>8 DEF Monitor!Outside

\* Nor does the monitor take an address away, or write where no entry is.
LEMMA MonitorKeepsData ==
    ASSUME SysInv, OnTechHost
    PROVE  DataOK'
<1>1. Monitor!MonitorInv /\ Monitor!MonitorNext /\ UNCHANGED <<docks, located>> /\ DataOK
  BY SameMonitor DEF SysInv, OnTechHost, vars
<1>2. CASE info' = info
  BY <1>1, <1>2 DEF DataOK
<1>3. ASSUME NEW t \in Monitor!Threads, Monitor!Set(t) PROVE DataOK'
  <2>1. PICK d \in cur[t] \cap docks : info' = [info EXCEPT ![d] = Monitor!Recorded(found[t])]
    BY <1>3 DEF Monitor!Set
  <2>2. Monitor!Recorded(found[t]).located
    BY DEF Monitor!Recorded
  <2>3. info \in [Containers -> Monitor!Info] /\ docks \subseteq Containers
    BY <1>1 DEF Monitor!MonitorInv, Monitor!DockmonTypeOK, Monitor!RegistryTypeOK
  <2>4. located \subseteq docks
    BY DEF SysInv, RefInv, IInv, ShapeOK, TreeOK, TypeOK
  <2> QED
    BY <1>1, <2>1, <2>2, <2>3, <2>4 DEF DataOK
<1> QED
  BY <1>1, <1>2, <1>3, Monitor!MonitorRegistry

LEMMA SystemInvInit == SystemInit => SysInv
<1> SUFFICES ASSUME SystemInit PROVE SysInv
  OBVIOUS
<1>1. Init /\ TechHost!DockmonInit
  BY DEF SystemInit
<1>2. RefInv
  BY <1>1, RefInvInit
<1>3. Monitor!MonitorInv
  BY <1>1, SameMonitor, Monitor!InitIInv DEF Monitor!IInv
<1>4. DataOK
  BY <1>1 DEF Init, TechHost!DockmonInit, TechHost!RegistryInit, DataOK
<1> QED
  BY <1>2, <1>3, <1>4 DEF SysInv

LEMMA SystemInvStep == SysInv /\ [SystemNext]_systemVars => SysInv'
<1> SUFFICES ASSUME SysInv, [SystemNext]_systemVars PROVE SysInv'
  OBVIOUS
<1>1. [Next]_vars
  BY DEF SystemNext, AtContainer, OnTechHost, Next, systemVars
<1>2. RefInv'
  BY <1>1, RefInvStep DEF SysInv
<1>3. ASSUME NEW c \in Containers, AtContainer(c) PROVE Monitor!MonitorInv' /\ DataOK'
  BY <1>2, <1>3, ScriptsAreOutside, Monitor!MonitorInvStep DEF SysInv
<1>4. ASSUME OnTechHost PROVE Monitor!MonitorInv' /\ DataOK'
  BY <1>4, SameMonitor, MonitorKeepsData, Monitor!MonitorInvStep DEF SysInv, OnTechHost
<1>5. ASSUME UNCHANGED systemVars PROVE Monitor!MonitorInv' /\ DataOK'
  <2>1. UNCHANGED Monitor!dockmonAllVars
    BY <1>5 DEF systemVars, vars, Monitor!dockmonAllVars, Monitor!dockmonVars, Monitor!registryVars,
                Monitor!lockVars, Monitor!localVars, PhaseOf
  <2>2. Monitor!MonitorInv'
    BY <2>1, Monitor!MonitorInvStep DEF SysInv
  <2> QED
    BY <2>2, <1>5 DEF SysInv, DataOK, systemVars, vars
<1> QED
  BY <1>2, <1>3, <1>4, <1>5 DEF SysInv, SystemNext

-----------------------------------------------------------------------------
\* zk_set of the address, and nothing else, is Locate to the monitor.
LEMMA LocateIsStep ==
    ASSUME SysInv, NEW c \in Containers, AtContainer(c), Locate(c), lost = 0
    PROVE  TechHost!Locate(c)
<1>1. /\ PhaseOf(c) = "enrolled" /\ PhaseOf(c)' \in {"serving", "leaving"}
      /\ c \in docks /\ docks' = docks /\ ids' = ids
  BY DEF Locate, Proceed, PhaseOf, SysInv, RefInv, IInv, TypeOK, NoLossOK, RegistrationOK, ShapeOK,
         ProcessesOK, Loop, NoProcess
<1>2. ContainerStep(c) /\ TypeOK
  BY DEF AtContainer, SysInv, RefInv, IInv
<1>3. phaseMap[c] = "enrolled" /\ phaseMap' = [phaseMap EXCEPT ![c] = PhaseOf(c)']
  BY <1>1, <1>2, Locality DEF phaseMap
<1>4. info' = [info EXCEPT ![c] = TechHost!Located]
  BY <1>1 DEF AtContainer, DataAfter
<1>5. port' = port
  <2>1. ~DockerStart(c)
    BY <1>1 DEF DockerStart, PhaseOf
  <2> QED
    BY <2>1, Zenon DEF AtContainer
<1> QED
  BY <1>1, <1>3, <1>4, <1>5 DEF TechHost!Locate, phaseMap

\* Docker's start is Up, with the port it maps.
LEMMA StartIsStep ==
    ASSUME SysInv, NEW c \in Containers, AtContainer(c), DockerStart(c)
    PROVE  TechHost!Up(c)
<1>1. /\ PhaseOf(c) = "down" /\ PhaseOf(c)' = "up" /\ docks' = docks /\ ids' = ids
  <2>1. init[c] = "down" /\ init'[c] = "boot" /\ wd'[c] = "off" /\ UNCHANGED treeVars
    BY DEF DockerStart, SysInv, RefInv, IInv, TypeOK
  <2>2. PhaseOf(c) = "down"
    BY <2>1 DEF PhaseOf
  <2>3. PhaseOf(c)' = "up"
    BY <2>1 DEF PhaseOf, NoProcess, Loop
  <2> QED
    BY <2>1, <2>2, <2>3
<1>2. ContainerStep(c) /\ TypeOK
  BY DEF AtContainer, SysInv, RefInv, IInv
<1>3. phaseMap[c] = "down" /\ phaseMap' = [phaseMap EXCEPT ![c] = "up"]
  BY <1>1, <1>2, Locality DEF phaseMap
<1>4. \E p \in Ports : port' = [port EXCEPT ![c] = p]
  BY DEF AtContainer
<1>5. info' = info
  <2>1. ~Locate(c) /\ (c \notin docks => info[c] = TechHost!Empty)
    BY DEF Locate, DockerStart, SysInv, DataOK, RefInv, IInv, TypeOK
  <2>2. DataAfter(c) = info[c]
    BY <1>1, <2>1, Zenon DEF DataAfter
  <2>3. info \in [Containers -> Monitor!Info]
    BY DEF SysInv, Monitor!MonitorInv, Monitor!DockmonTypeOK, Monitor!RegistryTypeOK
  <2> QED
    BY <2>2, <2>3 DEF AtContainer
<1> QED
  BY <1>1, <1>3, <1>4, <1>5 DEF TechHost!Up, phaseMap

\* Every other step, while no command fails.
LEMMA OtherIsStep ==
    ASSUME SysInv, NEW c \in Containers, AtContainer(c), ~Locate(c), ~DockerStart(c),
           lost = 0, lost' = 0
    PROVE  TechHost!OwnerStep(c) \/ UNCHANGED TechHost!registryVars
<1> DEFINE p == PhaseOf(c)
           q == PhaseOf(c)'
<1>1. ContainerStep(c) /\ TypeOK /\ RefInv
  BY DEF AtContainer, SysInv, RefInv, IInv
<1>2. /\ phaseMap[c] = p /\ phaseMap' = [phaseMap EXCEPT ![c] = q]
      /\ q = p => phaseMap' = phaseMap
  BY <1>1, Locality DEF phaseMap
<1>3. /\ shownMap' = IF ids'[c] = {} THEN shownMap \ {c} ELSE shownMap \cup {c}
      /\ c \in shownMap <=> ids[c] # {}
      /\ (ids'[c] = {} <=> ids[c] = {}) => shownMap' = shownMap
  BY <1>1, Locality DEF shownMap
<1>4. port' = port
  BY Zenon DEF AtContainer
<1>5. /\ docks' = docks \/ c \in docks' => info' = info
      /\ c \notin docks' => info' = [info EXCEPT ![c] = TechHost!Empty]
  <2>1. info \in [Containers -> Monitor!Info] /\ DataOK
    BY DEF SysInv, Monitor!MonitorInv, Monitor!DockmonTypeOK, Monitor!RegistryTypeOK
  <2>2. info' = [info EXCEPT ![c] = DataAfter(c)]
    BY DEF AtContainer
  <2>3. c \notin docks => info[c] = TechHost!Empty
    BY <2>1 DEF DataOK
  <2>4. DataAfter(c) = IF c \notin docks' THEN TechHost!Empty ELSE info[c]
    BY Zenon DEF DataAfter
  <2> QED
    BY <2>1, <2>2, <2>3, <2>4
<1>6. ~(p = "enrolled" /\ q \in {"serving", "leaving"})
  <2>1. p = "enrolled" => wd[c] = "locate"
    BY DEF PhaseOf, Loop, NoProcess
  <2>2. wd'[c] = "locate" \/ init'[c] = "down" => q \in {"enrolled", "down"}
    BY DEF PhaseOf, Loop, NoProcess
  <2> QED
    BY <1>1, <2>1, <2>2, LocateMoves
<1>7. Outcome(c)
  BY <1>1, OutcomeStep
<1> HIDE DEF p, q
<1>8. CASE q = p /\ TreeKept(c)
  BY <1>8, <1>2, <1>3, <1>4, <1>5 DEF TreeKept, TechHost!registryVars, phaseMap, shownMap
<1>9. CASE p = "down" /\ q = "up" /\ TreeKept(c)
  <2>1. port = [port EXCEPT ![c] = port[c]] /\ port[c] \in Ports
    BY DEF SysInv, Monitor!MonitorInv, Monitor!DockmonTypeOK, Monitor!RegistryTypeOK
  <2>2. TechHost!Up(c)
    BY <2>1, <1>9, <1>2, <1>3, <1>4, <1>5 DEF TreeKept, TechHost!Up, phaseMap, shownMap
  <2> QED
    BY <2>2 DEF TechHost!OwnerStep
<1>10. CASE p # "down" /\ q = "down" /\ TreeKept(c)
  <2>1. TechHost!Down(c)
    BY <1>10, <1>2, <1>3, <1>4, <1>5 DEF TreeKept, TechHost!Down, phaseMap, shownMap
  <2> QED
    BY <2>1 DEF TechHost!OwnerStep
<1>11. CASE p \in {"up", "enrolled", "serving"} /\ q = "leaving" /\ TreeKept(c)
  <2>1. TechHost!Leave(c)
    BY <1>11, <1>2, <1>3, <1>4, <1>5 DEF TreeKept, TechHost!Leave, phaseMap, shownMap
  <2> QED
    BY <2>1 DEF TechHost!OwnerStep
<1>12. CASE /\ p = "up" /\ q \in {"enrolled", "leaving"}
            /\ c \notin docks /\ docks' = docks \cup {c} /\ located' = located /\ ids' = ids
  <2>1. TechHost!Enrol(c)
    BY <1>12, <1>2, <1>3, <1>4, <1>5 DEF TechHost!Enrol, phaseMap, shownMap
  <2> QED
    BY <2>1 DEF TechHost!OwnerStep
<1>13. CASE /\ p = "serving" /\ q = "serving" /\ ids'[c] # {}
            /\ docks' = docks /\ located' = located
  <2>1. TechHost!Publish(c)
    BY <1>13, <1>2, <1>3, <1>4, <1>5 DEF TechHost!Publish, phaseMap, shownMap
  <2> QED
    BY <2>1 DEF TechHost!OwnerStep
<1>14. CASE /\ p \in {"up", "leaving"} /\ q = p /\ ids[c] # {} /\ ids'[c] = {}
            /\ docks' = docks /\ located' = located
  <2>1. TechHost!Withdraw(c)
    BY <1>14, <1>2, <1>3, <1>4, <1>5 DEF TechHost!Withdraw, phaseMap, shownMap
  <2> QED
    BY <2>1 DEF TechHost!OwnerStep
<1>15. CASE /\ p \in {"up", "leaving"} /\ q = p /\ ids[c] = {} /\ c \in docks
            /\ docks' = docks \ {c} /\ located' = located \ {c} /\ ids' = ids
  <2>1. TechHost!Remove(c)
    BY <1>15, <1>2, <1>3, <1>4, <1>5 DEF TechHost!Remove, phaseMap, shownMap
  <2> QED
    BY <2>1 DEF TechHost!OwnerStep
<1> QED
  BY <1>6, <1>7, <1>8, <1>9, <1>10, <1>11, <1>12, <1>13, <1>14, <1>15 DEF Outcome, p, q

-----------------------------------------------------------------------------
LEMMA SystemInductive == SystemSpec => []SysInv
  BY SystemInvInit, SystemInvStep, PTL DEF SystemSpec

\* The monitor loses no change of the children of /dockerized, whatever the
\* scripts and their failing commands make of them (dockmon.py:78-94).
THEOREM ListSurvivesLosses == SystemSpec => []ListIsCurrent
<1>1. SysInv => Monitor!DocklistIsCurrent
  BY Monitor!ListCurrent DEF SysInv
<1>2. Monitor!DocklistIsCurrent => ListIsCurrent
  BY DEF ListIsCurrent, TechHost!DocklistIsCurrent, Monitor!DocklistIsCurrent, TechHost!Alive,
         Monitor!Alive, TechHost!Connected, Monitor!Connected, TechHost!InBootstrap,
         Monitor!InBootstrap
<1> QED
  BY <1>1, <1>2, SystemInductive, PTL

\* Nor do its two threads answer for one entry one after the other
\* (dockmon.py:97-112, kafka-watchdog.sh:116-118).
THEOREM AnsweredOnceOverall == SystemSpec => AnsweredOnce
<1> DEFINE Same == TechHost!dockmonAllVars
<1>1. SysInv /\ SysInv' /\ [SystemNext]_systemVars => [Monitor!Once]_Same
  <2> SUFFICES ASSUME SysInv, SysInv', [SystemNext]_systemVars
               PROVE  [Monitor!Once]_Same
    OBVIOUS
  <2>1. ASSUME NEW c \in Containers, AtContainer(c) PROVE Monitor!Once
    <3>1. RefInv' /\ Monitor!MonitorInv
      BY DEF SysInv
    <3> QED
      BY <2>1, <3>1, ScriptsAreOutside, Monitor!OnceStep
  <2>2. ASSUME OnTechHost PROVE Monitor!Once
    BY <2>2, SameMonitor, Monitor!OnceStep DEF SysInv, OnTechHost
  <2>3. ASSUME UNCHANGED systemVars PROVE UNCHANGED Same
    BY <2>3 DEF systemVars, vars, TechHost!dockmonAllVars, TechHost!dockmonVars,
                TechHost!registryVars, TechHost!lockVars, TechHost!localVars, PhaseOf
  <2> QED
    BY <2>1, <2>2, <2>3 DEF SystemNext
<1> QED
  BY <1>1, SystemInductive, PTL DEF SystemSpec, AnsweredOnce, TechHost!RecordedOnce, Monitor!Once

\* Where a broker id is listed there is an address in the data, although both
\* sides replace the data (recentdocks.py:45-54).
THEOREM UsableIds == SystemSpec => []IdsAreUsable
<1>1. SysInv => IdsAreUsable
  <2> SUFFICES ASSUME SysInv, lost = 0, NEW c \in Containers, ids[c] # {}
               PROVE  c \in docks /\ info[c].located
    BY DEF IdsAreUsable, TechHost!ShownIsLocated
  <2>1. c \in located /\ c \in docks
    BY DEF SysInv, RefInv, IInv, NoLossOK, RegistrationOK, ShapeOK, TreeOK
  <2> QED
    BY <2>1 DEF SysInv, DataOK
<1> QED
  BY <1>1, SystemInductive, PTL

\* The scripts are to the monitor what DockRegistry says, for any containers and
\* ports: the property ImplementsDockmon.
THEOREM ImplementsOverall == SystemSpec => ImplementsDockmon
<1> DEFINE Bound == lost' = 0 => TechHost!DockmonNext \/ UNCHANGED TechHost!dockmonAllVars
<1>1. SystemInit => TechHost!DockmonInit
  BY DEF SystemInit
<1>2. SysInv /\ [SystemNext]_systemVars => [Bound]_systemVars
  <2> SUFFICES ASSUME SysInv, SystemNext, lost' = 0
               PROVE  TechHost!DockmonNext \/ UNCHANGED TechHost!dockmonAllVars
    OBVIOUS
  <2>1. ASSUME NEW c \in Containers, AtContainer(c)
        PROVE  TechHost!DockmonNext \/ UNCHANGED TechHost!dockmonAllVars
    <3>1. ContainerStep(c) /\ TechHost!Fire /\ TypeOK
      BY <2>1 DEF AtContainer, SysInv, RefInv, IInv
    <3>2. lost = 0
      BY <3>1, OthersKept DEF TypeOK
    <3>3. Locate(c) => TechHost!OwnerStep(c)
      BY <2>1, <3>2, LocateIsStep DEF TechHost!OwnerStep
    <3>4. DockerStart(c) => TechHost!OwnerStep(c)
      BY <2>1, StartIsStep DEF TechHost!OwnerStep
    <3>5. TechHost!OwnerStep(c) \/ UNCHANGED TechHost!registryVars
      BY <2>1, <3>2, <3>3, <3>4, OtherIsStep
    <3>6. CASE TechHost!OwnerStep(c)
      BY <3>1, <3>6 DEF TechHost!Owner, TechHost!DockmonNext
    <3>7. CASE UNCHANGED TechHost!registryVars
      BY <3>1, <3>7 DEF TechHost!Fire, TechHost!registryVars, TechHost!dockmonVars,
                        TechHost!dockmonAllVars, TechHost!lockVars, TechHost!localVars
    <3> QED
      BY <3>5, <3>6, <3>7
  <2>2. ASSUME OnTechHost PROVE TechHost!DockmonNext
    BY <2>2 DEF OnTechHost, TechHost!DockmonNext
  <2> QED
    BY <2>1, <2>2 DEF SystemNext
<1> QED
  BY <1>1, <1>2, SystemInductive, PTL DEF SystemSpec, ImplementsDockmon
=============================================================================
