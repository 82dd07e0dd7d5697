----------------------------- MODULE PidFileProofs -----------------------------
(***************************************************************************)
(* Module PidFile for one Patient operator and any set of pids.            *)
(*                                                                         *)
(* What the three properties rest on is that the file follows the daemon:  *)
(* absent until the daemon opens it, then empty, then with its pid; and    *)
(* that no command is under way while a daemon has not written the file.   *)
(***************************************************************************)
EXTENDS PidFile, FiniteSetTheorems, TLAPS

Unique == \A p, q \in Daemons : p = q

FileFollows ==
    \A p \in Daemons :
        file = IF proc[p] = "boot" THEN "none" ELSE IF proc[p] = "open" THEN "empty" ELSE p

CommandsWait == \A o \in Operators : at[o] # "idle" => Settled

\* What a stop command knows when the process is gone, and a completed one.
NobodyLeft ==
    \A o \in Operators : at[o] \in {"exists", "remove"} => Daemons = {}

\* The process that is signalled is the one the file names, if there is one.
TargetIsNamed ==
    \A o \in Operators : at[o] = "kill" => file \in {target[o], "none"}

IInv == /\ PidTypeOK /\ Unique /\ FileFollows
        /\ CommandsWait /\ NobodyLeft /\ TargetIsNamed /\ StopIsThorough

OneOperatorWaits == Patient /\ \E o : Operators = {o}

-----------------------------------------------------------------------------
LEMMA InvInit == PidInit => IInv
  BY PidsAssumption DEF PidInit, IInv, PidTypeOK, Unique, FileFollows, CommandsWait,
     NobodyLeft, TargetIsNamed, StopIsThorough, Daemons, DaemonStates, Settled

LEMMA InvStep ==
  ASSUME IInv, [PidNext]_pidVars, Patient, NEW o, Operators = {o}
  PROVE  IInv'
<1> USE PidsAssumption DEF IInv, PidTypeOK, Unique, FileFollows, CommandsWait,
        NobodyLeft, TargetIsNamed, StopIsThorough, Daemons, DaemonStates, Settled
<1>1. ASSUME NEW c \in {"start", "stop", "restart"}, Give(o, c)  PROVE IInv'
  BY <1>1 DEF Give, hostVars
<1>2. ASSUME Refuse(o)  PROVE IInv'
  BY <1>2 DEF Refuse, Return, hostVars
<1>3. ASSUME ReadsEmpty(o)  PROVE IInv'
  BY <1>3 DEF ReadsEmpty, Return, hostVars
<1>4. ASSUME NEW p \in Pids, Fork(o, p)  PROVE IInv'
  BY <1>4 DEF Fork, Return
<1>5. ASSUME NotRunning(o)  PROVE IInv'
  BY <1>5 DEF NotRunning, Stopped, Return, hostVars
<1>6. ASSUME ReadsPid(o)  PROVE IInv'
  BY <1>6 DEF ReadsPid, hostVars
<1>7. ASSUME KillDaemon(o)  PROVE IInv'
  BY <1>7 DEF KillDaemon, Handled, operatorVars
<1>8. ASSUME KillStranger(o)  PROVE IInv'
  BY <1>8 DEF KillStranger, Return, operatorVars
<1>9. ASSUME NoSuchProcess(o)  PROVE IInv'
  BY <1>9 DEF NoSuchProcess, hostVars
<1>10. ASSUME Exists(o)  PROVE IInv'
  BY <1>10 DEF Exists, Stopped, Return, hostVars
<1>11. ASSUME RemoveFile(o)  PROVE IInv'
  BY <1>11 DEF RemoveFile, Stopped, Return
<1>12. ASSUME Interrupt(o)  PROVE IInv'
  BY <1>12 DEF Interrupt, Return, hostVars
<1>13. ASSUME NEW p \in Pids, OpenFile(p)  PROVE IInv'
  BY <1>13 DEF OpenFile, operatorVars
<1>14. ASSUME NEW p \in Pids, WriteFile(p)  PROVE IInv'
  BY <1>14 DEF WriteFile, operatorVars
<1>15. ASSUME NEW p \in Pids, Work(p)  PROVE IInv'
  BY <1>15 DEF Work, operatorVars
<1>16. ASSUME NEW p \in Pids, Close(p)  PROVE IInv'
  BY <1>16 DEF Close, operatorVars
<1>17. ASSUME NEW p \in Pids, Exit(p)  PROVE IInv'
  BY <1>17 DEF Exit, operatorVars, Gone
<1>18. ASSUME NEW p \in Pids, Crash(p)  PROVE IInv'
  BY <1>18 DEF Crash, operatorVars, Gone
<1>19. ASSUME NEW p \in Pids, Stranger(p)  PROVE IInv'
  BY <1>19 DEF Stranger, operatorVars
<1>20. CASE UNCHANGED pidVars
  BY <1>20 DEF pidVars, hostVars, operatorVars
<1> HIDE DEF IInv, PidTypeOK, Unique, FileFollows, CommandsWait, NobodyLeft, TargetIsNamed,
         StopIsThorough, Daemons, DaemonStates, Settled
<1>. QED
  BY <1>1, <1>2, <1>3, <1>4, <1>5, <1>6, <1>7, <1>8, <1>9, <1>10, <1>11, <1>12,
     <1>13, <1>14, <1>15, <1>16, <1>17, <1>18, <1>19, <1>20 DEF PidNext,
     Command, Daemon

(***************************************************************************)
(* IInv holds throughout every behaviour of the specification.             *)
(***************************************************************************)
THEOREM Invariance == OneOperatorWaits => (PidSpec => []IInv)
<1> SUFFICES ASSUME OneOperatorWaits  PROVE PidSpec => []IInv
  OBVIOUS
<1>1. PICK o : Operators = {o}
  BY DEF OneOperatorWaits
<1>2. IInv /\ [PidNext]_pidVars => IInv'
  BY <1>1, InvStep DEF OneOperatorWaits
<1>. QED
  BY <1>2, InvInit, PTL DEF PidSpec

-----------------------------------------------------------------------------
\* Type correctness, for one operator who waits and any set of pids.
THEOREM TypeCorrect == OneOperatorWaits => (PidSpec => []PidTypeOK)
<1> SUFFICES ASSUME OneOperatorWaits  PROVE PidSpec => []PidTypeOK
  OBVIOUS
<1>1. IInv => PidTypeOK
  BY DEF IInv
<1>. QED
  BY <1>1, Invariance, PTL

\* `dockmon.py start' never makes a second daemon (daemon.py:66-85).
THEOREM AtMostOne == OneOperatorWaits => (PidSpec => []OneDaemon)
<1> SUFFICES ASSUME OneOperatorWaits  PROVE PidSpec => []OneDaemon
  OBVIOUS
<1>1. Unique => OneDaemon
  <2> SUFFICES ASSUME Unique  PROVE Cardinality(Daemons) <= 1
    BY DEF OneDaemon
  <2>1. CASE Daemons = {}
    BY <2>1, FS_EmptySet
  <2>2. CASE Daemons # {}
    <3>1. PICK p : Daemons = {p}
      BY <2>2 DEF Unique
    <3>. QED
      BY <3>1, FS_Singleton
  <2>. QED
    BY <2>1, <2>2
<1>2. IInv => OneDaemon
  BY <1>1 DEF IInv
<1>. QED
  BY <1>2, Invariance, PTL

\* Between commands the pid file names the daemon that runs (daemon.py:59-64).
THEOREM AlwaysFound == OneOperatorWaits => (PidSpec => []DaemonIsNamed)
<1> SUFFICES ASSUME OneOperatorWaits  PROVE PidSpec => []DaemonIsNamed
  OBVIOUS
<1>1. IInv => DaemonIsNamed
  BY DEF IInv, FileFollows, DaemonIsNamed, Settled, Daemons
<1>. QED
  BY <1>1, Invariance, PTL

\* A `stop' that ends without an error has ended the daemon and the file
\* (daemon.py:87-116).
THEOREM ThoroughStop == OneOperatorWaits => (PidSpec => []StopIsThorough)
<1> SUFFICES ASSUME OneOperatorWaits  PROVE PidSpec => []StopIsThorough
  OBVIOUS
<1>1. IInv => StopIsThorough
  BY DEF IInv
<1>. QED
  BY <1>1, Invariance, PTL
===============================================================================
