----------------------------- MODULE DockmonProofs ----------------------------
(***************************************************************************)
(* Theorems about modules Dockmon and RecentDocks, for any set of          *)
(* containers and ports and any number of failing calls.                   *)
(*                                                                         *)
(* The inductive invariant adds to the type how far the owner of an entry  *)
(* has come (EntriesOK), that a thread past zk_lock holds it and has an    *)
(* entry in hand that is not answered for yet (LocksOK), what SIGTERM      *)
(* leaves of the daemon (StopsOK), what the listing in hand is worth while *)
(* the watch has not fired (ListingOK), and where the holders of the locks *)
(* stand (HoldersOK).                                                      *)
(*                                                                         *)
(* All but EntriesOK is kept by any environment that writes no answers of  *)
(* its own (Outside): module WatchdogRefinement uses it for scripts whose  *)
(* commands fail, which do not follow the protocol of DockRegistry.        *)
(***************************************************************************)
EXTENDS RecentDocks, TLAPS

\* An entry has what the phase of its owner promises, and an id comes last.
EntriesOK ==
    /\ \A c \in Containers :
          /\ phase[c] \in {"enrolled", "serving"} => c \in docks
          /\ phase[c] = "serving" => info[c].located
          /\ c \notin docks => ~info[c].recorded
    /\ \A c \in shown : info[c].located

LocksOK ==
    \A t \in Threads :
        /\ pc[t] \in {"loop", "ask", "set", "closing"} => zkLock = t
        /\ pc[t] \in {"ask", "set"} => \A d \in cur[t] : ~info[d].recorded

\* The signal is for the daemon, which has one thread; a second one finds the
\* handler with the lock, or after it.
StopsOK ==
    /\ pc["callback"] # "closing" /\ pc["callback"] # "cleanup"
    /\ stopping > 0 => ~Connected /\ pc["main"] \in {"cleanup", "closing", "dead"}
    /\ stopping > 1 => pc["main"] # "closing" /\ (pc["main"] = "cleanup" => zkLock = "main")

ListingOK ==
    /\ pc["callback"] # "boot"
    /\ pc["main"] = "boot" => watch = "none"
    /\ pc["main"] \in {"boot", "docklist"} => pc["callback"] = "idle"
    /\ Alive /\ Connected /\ watch = "armed" =>
          /\ \A t \in Threads : pc[t] = "docklist" => kids[t] = docks
          /\ (\A t \in Threads : pc[t] \notin {"boot", "docklist"}) => docklist = docks

\* Without a SIGTERM or a fork whoever holds a lock is past the statement that
\* takes it.
HoldersOK == HoldersGoOn /\ (~start.daemon => pc["main"] \notin {"fork", "cleanup", "closing"})

MonitorInv == DockmonTypeOK /\ LocksOK /\ StopsOK /\ ListingOK /\ HoldersOK

IInv == MonitorInv /\ EntriesOK

\* A step of whoever creates, fills and removes the entries: it may do so in any
\* order, but the answers are the monitor's.
Outside ==
    /\ RegistryTypeOK => RegistryTypeOK'
    /\ \A c \in Containers : info'[c].recorded => info'[c] = info[c]
    /\ Fire

-----------------------------------------------------------------------------
USE PortsAssumption, DockmonAssumption
USE DEF registryVars, dockmonVars, dockmonAllVars, lockVars, localVars, Threads

\* The initial states satisfy the invariant.
LEMMA InitIInv == DockmonInit => IInv
  BY DEF DockmonInit, RegistryInit, IInv, MonitorInv, DockmonTypeOK, RegistryTypeOK, EntriesOK, LocksOK,
         StopsOK, ListingOK, HoldersOK, HoldersGoOn, Starts, Pc, Phases, Info, Empty, Located, Recorded, Alive, Connected

\* What an owner's step does to the registry.
LEMMA OwnerRegistry ==
  ASSUME NEW c \in Containers, RegistryTypeOK, EntriesOK, OwnerStep(c)
  PROVE  /\ RegistryTypeOK' /\ EntriesOK'
         /\ \A d \in Containers : info'[d].recorded => info'[d] = info[d]
  <1> USE DEF RegistryTypeOK, EntriesOK, Phases, Info, Empty, Located, Recorded
  <1>1. CASE Up(c) BY <1>1 DEF Up
  <1>2. CASE Down(c) BY <1>2 DEF Down
  <1>3. CASE Leave(c) BY <1>3 DEF Leave
  <1>4. CASE Enrol(c) BY <1>4 DEF Enrol
  <1>5. CASE Locate(c) BY <1>5 DEF Locate
  <1>6. CASE Publish(c) BY <1>6 DEF Publish
  <1>7. CASE Withdraw(c) BY <1>7 DEF Withdraw
  <1>8. CASE Remove(c) BY <1>8 DEF Remove
  <1> QED BY <1>1, <1>2, <1>3, <1>4, <1>5, <1>6, <1>7, <1>8 DEF OwnerStep

LEMMA OwnerIsOutside ==
  ASSUME IInv, NEW c \in Containers, Owner(c)
  PROVE  Outside /\ EntriesOK'
  BY OwnerRegistry DEF IInv, MonitorInv, DockmonTypeOK, Owner, Outside

\* The type is preserved.
LEMMA TypeStep ==
  ASSUME MonitorInv, Outside \/ MonitorNext
  PROVE  DockmonTypeOK'
  <1> USE DEF MonitorInv, DockmonTypeOK, Pc
  <1>1. CASE Outside
    BY <1>1 DEF Outside, Fire
  <1> USE DEF RegistryTypeOK
  <1>2. CASE Bootstrap BY <1>2 DEF Bootstrap, ListChildren
  <1>3. CASE BootstrapBlind BY <1>3 DEF BootstrapBlind, AfterBootstrap
  <1>4. CASE Daemonize BY <1>4 DEF Daemonize
  <1>5. CASE Round BY <1>5 DEF Round
  <1>6. CASE Cleanup BY <1>6 DEF Cleanup
  <1>7. CASE Close BY <1>7 DEF Close
  <1>8. CASE Notice BY <1>8 DEF Notice, ListChildren
  <1>9. CASE Terminate BY <1>9 DEF Terminate, StopsOK, LocksOK, Connected
  <1>10. ASSUME NEW t \in Threads, ThreadStep(t) PROVE DockmonTypeOK'
    <2>1. CASE UpdateDocklist(t) BY <2>1 DEF UpdateDocklist, AfterBootstrap
    <2>2. CASE TakeZkLock(t) BY <2>2 DEF TakeZkLock
    <2>3. CASE Get(t) BY <2>3 DEF Get
    <2>4. CASE AskDocker(t) BY <2>4 DEF AskDocker
    <2>5. CASE Set(t)
      <3>1. Recorded(found[t]) \in Info BY DEF Info
      <3>2. info' \in [Containers -> Info] BY <2>5, <3>1 DEF Set
      <3> QED BY <2>5, <3>2 DEF Set
    <2>6. CASE Return(t) BY <2>6 DEF Return, AfterBootstrap
    <2>7. CASE NoNode(t) BY <2>7 DEF NoNode, Raise
    <2> QED BY <1>10, <2>1, <2>2, <2>3, <2>4, <2>5, <2>6, <2>7 DEF ThreadStep
  <1>11. ASSUME NEW t \in Threads, DockerFails(t) PROVE DockmonTypeOK'
    BY <1>11 DEF DockerFails, Raise
  <1> QED
    BY <1>1, <1>2, <1>3, <1>4, <1>5, <1>6, <1>7, <1>8, <1>9, <1>10, <1>11
    DEF MonitorNext, MainStep

\* A step of the monitor leaves what the owners did as it was, except for the
\* answers it writes.
LEMMA MonitorRegistry ==
  ASSUME MonitorNext
  PROVE  /\ <<phase, port, docks, shown>>' = <<phase, port, docks, shown>>
         /\ \/ info' = info
            \/ \E t \in Threads : Set(t)
  BY DEF MonitorNext, MainStep, Bootstrap, BootstrapBlind, Daemonize, Round, Cleanup, Close, Notice,
         Terminate, ThreadStep, UpdateDocklist, TakeZkLock, Get, AskDocker, Set, Return, NoNode, Raise, DockerFails

LEMMA EntriesStep ==
  ASSUME IInv, MonitorNext
  PROVE  EntriesOK'
  <1>1. CASE info' = info BY <1>1, MonitorRegistry DEF EntriesOK, IInv
  <1>2. ASSUME NEW t \in Threads, Set(t) PROVE EntriesOK'
    BY <1>2 DEF IInv, MonitorInv, EntriesOK, DockmonTypeOK, RegistryTypeOK, Set, Recorded, Info,
                Empty, Located
  <1> QED BY <1>1, <1>2, MonitorRegistry

LEMMA LocksStep ==
  ASSUME MonitorInv, Outside \/ MonitorNext
  PROVE  LocksOK'
  <1> USE DEF MonitorInv, DockmonTypeOK, RegistryTypeOK, LocksOK
  <1>1. CASE Outside
    BY <1>1 DEF Outside, Fire
  <1>2. CASE Bootstrap BY <1>2 DEF Bootstrap
  <1>3. CASE BootstrapBlind BY <1>3 DEF BootstrapBlind, AfterBootstrap
  <1>4. CASE Daemonize BY <1>4 DEF Daemonize
  <1>5. CASE Round BY <1>5 DEF Round
  <1>6. CASE Cleanup BY <1>6 DEF Cleanup
  <1>7. CASE Close BY <1>7 DEF Close
  <1>8. CASE Notice BY <1>8 DEF Notice
  <1>9. CASE Terminate BY <1>9 DEF Terminate
  <1>10. ASSUME NEW t \in Threads, ThreadStep(t) PROVE LocksOK'
    <2>1. CASE UpdateDocklist(t) BY <2>1 DEF UpdateDocklist, AfterBootstrap
    <2>2. CASE TakeZkLock(t) BY <2>2 DEF TakeZkLock
    <2>3. CASE Get(t) BY <2>3 DEF Get
    <2>4. CASE AskDocker(t) BY <2>4 DEF AskDocker
    <2>5. CASE Set(t) BY <2>5 DEF Set
    <2>6. CASE Return(t) BY <2>6 DEF Return, AfterBootstrap
    <2>7. CASE NoNode(t) BY <2>7 DEF NoNode, Raise
    <2> QED BY <1>10, <2>1, <2>2, <2>3, <2>4, <2>5, <2>6, <2>7 DEF ThreadStep
  <1>11. ASSUME NEW t \in Threads, DockerFails(t) PROVE LocksOK'
    BY <1>11 DEF DockerFails, Raise
  <1> QED
    BY <1>1, <1>2, <1>3, <1>4, <1>5, <1>6, <1>7, <1>8, <1>9, <1>10, <1>11
    DEF MonitorNext, MainStep

LEMMA StopsStep ==
  ASSUME MonitorInv, Outside \/ MonitorNext
  PROVE  StopsOK'
  <1> USE DEF MonitorInv, DockmonTypeOK, LocksOK, StopsOK, Connected
  <1>1. CASE Outside
    BY <1>1 DEF Outside, Fire
  <1>2. CASE Bootstrap BY <1>2 DEF Bootstrap
  <1>3. CASE BootstrapBlind BY <1>3 DEF BootstrapBlind, AfterBootstrap
  <1>4. CASE Daemonize BY <1>4 DEF Daemonize
  <1>5. CASE Round BY <1>5 DEF Round
  <1>6. CASE Cleanup BY <1>6 DEF Cleanup
  <1>7. CASE Close BY <1>7 DEF Close
  <1>8. CASE Notice BY <1>8 DEF Notice
  <1>9. CASE Terminate BY <1>9 DEF Terminate
  <1>10. ASSUME NEW t \in Threads, ThreadStep(t) PROVE StopsOK'
    <2>1. CASE UpdateDocklist(t) BY <2>1 DEF UpdateDocklist, AfterBootstrap
    <2>2. CASE TakeZkLock(t) BY <2>2 DEF TakeZkLock
    <2>3. CASE Get(t) BY <2>3 DEF Get
    <2>4. CASE AskDocker(t) BY <2>4 DEF AskDocker
    <2>5. CASE Set(t) BY <2>5 DEF Set
    <2>6. CASE Return(t) BY <2>6 DEF Return, AfterBootstrap
    <2>7. CASE NoNode(t) BY <2>7 DEF NoNode, Raise
    <2> QED BY <1>10, <2>1, <2>2, <2>3, <2>4, <2>5, <2>6, <2>7 DEF ThreadStep
  <1>11. ASSUME NEW t \in Threads, DockerFails(t) PROVE StopsOK'
    BY <1>11 DEF DockerFails, Raise
  <1> QED
    BY <1>1, <1>2, <1>3, <1>4, <1>5, <1>6, <1>7, <1>8, <1>9, <1>10, <1>11
    DEF MonitorNext, MainStep

LEMMA HoldersStep ==
  ASSUME MonitorInv, Outside \/ MonitorNext
  PROVE  HoldersOK'
  <1> USE DEF MonitorInv, DockmonTypeOK, LocksOK, StopsOK, HoldersOK, HoldersGoOn
  <1>1. CASE Outside
    BY <1>1 DEF Outside, Fire
  <1>2. CASE Bootstrap BY <1>2 DEF Bootstrap
  <1>3. CASE BootstrapBlind BY <1>3 DEF BootstrapBlind, AfterBootstrap
  <1>4. CASE Daemonize BY <1>4 DEF Daemonize
  <1>5. CASE Round BY <1>5 DEF Round
  <1>6. CASE Cleanup BY <1>6 DEF Cleanup
  <1>7. CASE Close BY <1>7 DEF Close
  <1>8. CASE Notice BY <1>8 DEF Notice
  <1>9. CASE Terminate BY <1>9 DEF Terminate
  <1>10. ASSUME NEW t \in Threads, ThreadStep(t) PROVE HoldersOK'
    <2>1. CASE UpdateDocklist(t) BY <2>1 DEF UpdateDocklist, AfterBootstrap
    <2>2. CASE TakeZkLock(t) BY <2>2 DEF TakeZkLock
    <2>3. CASE Get(t) BY <2>3 DEF Get
    <2>4. CASE AskDocker(t) BY <2>4 DEF AskDocker
    <2>5. CASE Set(t) BY <2>5 DEF Set
    <2>6. CASE Return(t) BY <2>6 DEF Return, AfterBootstrap
    <2>7. CASE NoNode(t) BY <2>7 DEF NoNode, Raise
    <2> QED BY <1>10, <2>1, <2>2, <2>3, <2>4, <2>5, <2>6, <2>7 DEF ThreadStep
  <1>11. ASSUME NEW t \in Threads, DockerFails(t) PROVE HoldersOK'
    BY <1>11 DEF DockerFails, Raise
  <1> QED
    BY <1>1, <1>2, <1>3, <1>4, <1>5, <1>6, <1>7, <1>8, <1>9, <1>10, <1>11
    DEF MonitorNext, MainStep

LEMMA ListingStep ==
  ASSUME MonitorInv, Outside \/ MonitorNext
  PROVE  ListingOK'
  <1> USE DEF MonitorInv, DockmonTypeOK, ListingOK, Connected, Alive
  <1>1. CASE Outside
    BY <1>1 DEF Outside, Fire
  <1>2. CASE Bootstrap BY <1>2 DEF Bootstrap, ListChildren
  <1>3. CASE BootstrapBlind BY <1>3 DEF BootstrapBlind, AfterBootstrap
  <1>4. CASE Daemonize BY <1>4 DEF Daemonize
  <1>5. CASE Round BY <1>5 DEF Round
  <1>6. CASE Cleanup BY <1>6 DEF Cleanup
  <1>7. CASE Close BY <1>7 DEF Close
  <1>8. CASE Notice BY <1>8 DEF Notice, ListChildren, InBootstrap
  <1>9. CASE Terminate BY <1>9 DEF Terminate
  <1>10. ASSUME NEW t \in Threads, ThreadStep(t) PROVE ListingOK'
    <2>1. CASE UpdateDocklist(t) BY <2>1 DEF UpdateDocklist, AfterBootstrap
    <2>2. CASE TakeZkLock(t) BY <2>2 DEF TakeZkLock
    <2>3. CASE Get(t) BY <2>3 DEF Get
    <2>4. CASE AskDocker(t) BY <2>4 DEF AskDocker
    <2>5. CASE Set(t) BY <2>5 DEF Set
    <2>6. CASE Return(t) BY <2>6 DEF Return, AfterBootstrap
    <2>7. CASE NoNode(t) BY <2>7 DEF NoNode, Raise
    <2> QED BY <1>10, <2>1, <2>2, <2>3, <2>4, <2>5, <2>6, <2>7 DEF ThreadStep
  <1>11. ASSUME NEW t \in Threads, DockerFails(t) PROVE ListingOK'
    BY <1>11 DEF DockerFails, Raise
  <1> QED
    BY <1>1, <1>2, <1>3, <1>4, <1>5, <1>6, <1>7, <1>8, <1>9, <1>10, <1>11
    DEF MonitorNext, MainStep

\* Beside any environment.
LEMMA MonitorInvStep ==
  ASSUME MonitorInv, Outside \/ MonitorNext \/ UNCHANGED dockmonAllVars
  PROVE  MonitorInv'
  <1>1. CASE Outside \/ MonitorNext
    BY <1>1, TypeStep, LocksStep, StopsStep, ListingStep, HoldersStep DEF MonitorInv
  <1>2. CASE UNCHANGED dockmonAllVars
    BY <1>2 DEF MonitorInv, DockmonTypeOK, RegistryTypeOK, LocksOK, StopsOK, ListingOK,
                HoldersOK, HoldersGoOn, Alive, Connected
  <1> QED BY <1>1, <1>2

\* Beside owners that follow the protocol.
LEMMA NextIInv ==
  ASSUME IInv, [DockmonNext]_dockmonAllVars
  PROVE  IInv'
  <1>1. MonitorInv'
    BY MonitorInvStep, OwnerIsOutside DEF IInv, DockmonNext
  <1>2. ASSUME DockmonNext PROVE EntriesOK'
    BY <1>2, OwnerIsOutside, EntriesStep DEF DockmonNext
  <1>3. ASSUME UNCHANGED dockmonAllVars PROVE EntriesOK'
    BY <1>3 DEF IInv, EntriesOK
  <1> QED BY <1>1, <1>2, <1>3 DEF IInv

-----------------------------------------------------------------------------
\* recentdocks.py only reads: every step of the two together is one of the
\* monitor or none for it.
LEMMA MonitorStep == RecentNext => [DockmonNext]_dockmonAllVars
  BY DEF RecentNext

LEMMA Inductive == RecentSpec => []IInv
  <1>1. RecentInit => IInv BY InitIInv DEF RecentInit
  <1>2. UNCHANGED recentAllVars => UNCHANGED dockmonAllVars BY DEF recentAllVars
  <1>3. IInv /\ [RecentNext]_recentAllVars => IInv'
    BY <1>2, MonitorStep, NextIInv
  <1> QED BY <1>1, <1>3, PTL DEF RecentSpec

LEMMA ShownLocated == IInv => ShownIsLocated
  BY DEF IInv, MonitorInv, DockmonTypeOK, RegistryTypeOK, EntriesOK, ShownIsLocated

LEMMA ListCurrent == MonitorInv => DocklistIsCurrent
  BY DEF MonitorInv, DockmonTypeOK, ListingOK, DocklistIsCurrent, InBootstrap

\* The body of RecordedOnce, beside any environment.
Once == \A c \in Containers :
            c \in docks /\ info[c].recorded /\ info'[c].recorded => info'[c] = info[c]

LEMMA OnceStep ==
  ASSUME MonitorInv, Outside \/ MonitorNext
  PROVE  Once
  <1>1. CASE Outside BY <1>1 DEF Outside, Once
  <1>2. CASE info' = info BY <1>2 DEF Once
  <1>3. ASSUME NEW t \in Threads, Set(t) PROVE Once
    <2>1. PICK d \in cur[t] \cap docks : info' = [info EXCEPT ![d] = Recorded(found[t])]
      BY <1>3 DEF Set
    <2>2. ~info[d].recorded BY <1>3, <2>1 DEF MonitorInv, LocksOK, Set
    <2>3. info \in [Containers -> Info] BY DEF MonitorInv, DockmonTypeOK, RegistryTypeOK
    <2> QED BY <2>1, <2>2, <2>3 DEF Once
  <1> QED BY <1>1, <1>2, <1>3, MonitorRegistry

\* A broker id is listed only beneath an entry with an address, whatever the
\* monitor writes into the entries meanwhile (recentdocks.py:45-54).
THEOREM LocatedWhenShown == RecentSpec => []ShownIsLocated
  BY ShownLocated, Inductive, PTL

\* No change of the children of /dockerized is lost (dockmon.py:78-94).
THEOREM NoChangeIsLost == RecentSpec => []DocklistIsCurrent
  <1>1. IInv => MonitorInv BY DEF IInv
  <1> QED BY <1>1, ListCurrent, Inductive, PTL

\* The two locks are never waited for in a circle (dockmon.py:79, 97).
THEOREM NoCircularWait == RecentSpec => []HoldersGoOn
  <1>1. IInv => HoldersGoOn BY DEF IInv, MonitorInv, HoldersOK
  <1> QED BY <1>1, Inductive, PTL

\* Neither thread answers for an entry a second time (dockmon.py:97-112).
THEOREM AnsweredOnce == RecentSpec => RecordedOnce
  <1>1. ASSUME IInv, DockmonNext PROVE Once
    BY <1>1, OwnerIsOutside, OnceStep DEF IInv, DockmonNext
  <1>2. IInv /\ [RecentNext]_recentAllVars => [Once]_dockmonAllVars
    <2>1. UNCHANGED recentAllVars => UNCHANGED dockmonAllVars BY DEF recentAllVars
    <2> QED BY <1>1, <2>1, MonitorStep
  <1> QED BY <1>2, Inductive, PTL DEF RecentSpec, RecordedOnce, Once

-----------------------------------------------------------------------------
(***************************************************************************)
(* recentdocks.  What has been ready all the time is in the part of the    *)
(* listing that has not been read yet, or was found.                       *)
(***************************************************************************)
NothingSkipped ==
    /\ at \in {"off", "asleep"} => brokers = {}
    /\ dock \subseteq containers
    /\ at \in {"dock", "brokers", "printed"} => steady \subseteq left \cup brokers
    /\ at = "printed" => left = {}

RInv == IInv /\ RecentTypeOK /\ NothingSkipped

LEMMA RecentInductive == RecentSpec => []RInv
  <1> USE DEF RecentTypeOK, NothingSkipped
  <1>1. RecentInit => RInv BY InitIInv DEF RecentInit, RInv, IInv, MonitorInv
  <1>2. ASSUME RInv, IInv', RecentNext PROVE RecentTypeOK' /\ NothingSkipped'
    <2> USE DEF RInv, IInv, MonitorInv
    <2>1. CASE UNCHANGED recentVars BY <1>2, <2>1 DEF RecentNext, recentVars
    <2>2. CASE UNCHANGED dockmonAllVars
      <3>1. docks \subseteq Containers /\ shown \subseteq docks
        BY <1>2 DEF DockmonTypeOK, RegistryTypeOK
      <3>2. \A c : Ready(c)' = Ready(c) BY <2>2 DEF Ready
      <3>3. CASE getDockInfo BY <1>2, <3>3 DEF RecentNext, getDockInfo
      <3>4. CASE ListDocks BY <1>2, <3>1, <3>2, <3>4 DEF RecentNext, ListDocks, Off, Ready
      <3>5. CASE ReadDock BY <1>2, <3>1, <3>2, <3>5 DEF RecentNext, ReadDock, Off, Ready
      <3>6. CASE ReadBrokers BY <1>2, <3>1, <3>2, <3>6 DEF RecentNext, ReadBrokers, Off
      <3>7. CASE PrintBrokers BY <1>2, <3>1, <3>2, <3>7 DEF RecentNext, PrintBrokers
      <3>8. CASE Exit BY <1>2, <3>8 DEF RecentNext, Exit, Off
      <3> QED
        BY <1>2, <2>1, <3>3, <3>4, <3>5, <3>6, <3>7, <3>8 DEF RecentNext, RecentStep
    <2> QED BY <1>2, <2>1, <2>2 DEF RecentNext
  <1>3. ASSUME RInv, IInv', UNCHANGED recentAllVars PROVE RecentTypeOK' /\ NothingSkipped'
    BY <1>3 DEF RInv, IInv, MonitorInv, recentAllVars, recentVars, Ready
  <1>4. IInv' /\ RInv /\ [RecentNext]_recentAllVars => RInv'
    BY <1>2, <1>3 DEF RInv
  <1> QED BY <1>1, <1>4, Inductive, PTL DEF RecentSpec

\* The variables of the monitor, of the entries and of recentdocks keep their
\* types.
THEOREM TypeCorrect == RecentSpec => []RecentTypeOK
  <1>1. RInv => RecentTypeOK BY DEF RInv
  <1> QED BY <1>1, RecentInductive, PTL

\* A list that recentdocks prints has every container that was ready all the
\* time it took to read the entries (recentdocks.py:45-56).
THEOREM SteadyIsPrinted == RecentSpec => []NoneIsMissed
  <1>1. RInv => NoneIsMissed BY DEF RInv, NothingSkipped, NoneIsMissed
  <1> QED BY <1>1, RecentInductive, PTL
=============================================================================
