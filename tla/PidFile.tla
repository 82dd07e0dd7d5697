-------------------------------- MODULE PidFile --------------------------------
(***************************************************************************)
(* lib/daemon.py: `dockmon.py start', `stop' and `restart', which find the *)
(* monitor by a pid file, and how the monitor answers SIGTERM              *)
(* (lib/dockmon.py:22-25, 73-75).                                          *)
(*                                                                         *)
(* The command `start' returns at the first fork, before the daemon has    *)
(* written the file.  A Patient operator waits for the file to be written  *)
(* before giving the next command.                                         *)
(*                                                                         *)
(* The daemon is the main thread of module Dockmon, here with three things *)
(* to do: sleep, a round with zk_lock held, or the handler.                *)
(***************************************************************************)
EXTENDS Integers, FiniteSets

CONSTANTS
    Operators,   \* those who give commands
    Patient,     \* whether they wait for a daemon to have written its file
    Pids         \* the process ids of the host, which are used again

ASSUME PidsAssumption == Patient \in BOOLEAN /\ {"none", "empty"} \cap Pids = {}

VARIABLES
    file,      \* /tmp/dockmon.pid: "none", "empty", or a pid
    proc,      \* proc[p]: the process with pid p
    trapped,   \* daemons with the handler, those of `start' (l. 166)
    command,   \* command[o]: the command o has given
    at,        \* at[o]: where in daemon.py it is
    target,    \* target[o]: the pid that stop() has read
    outcome    \* outcome[o]: how o's last command ended

hostVars == <<file, proc, trapped>>
operatorVars == <<command, at, target, outcome>>
pidVars == <<hostVars, operatorVars>>

(***************************************************************************)
(* A daemon: "boot" from the fork to l. 61; "open" the file is created or  *)
(* truncated, and not written; "asleep"; "round"; "closing" in the         *)
(* handler, with zk_lock; "stuck" in the handler, waiting for the zk_lock  *)
(* that the same thread holds; "exiting" before delpid.                    *)
(***************************************************************************)
DaemonStates == {"boot", "open", "asleep", "round", "closing", "stuck", "exiting"}

Daemons == {p \in Pids : proc[p] \in DaemonStates}
Settled == \A p \in Pids : proc[p] \notin {"boot", "open"}

PidTypeOK ==
    /\ file \in {"none", "empty"} \cup Pids
    /\ proc \in [Pids -> DaemonStates \cup {"none", "stranger"}]
    /\ trapped \subseteq Daemons
    /\ command \in [Operators -> {"none", "start", "stop", "restart"}]
    /\ at \in [Operators -> {"idle", "start", "stop", "kill", "exists", "remove"}]
    /\ target \in [Operators -> Pids \cup {"none"}]
    /\ \A o \in Operators : at[o] = "kill" <=> target[o] \in Pids
    /\ outcome \in [Operators -> {"none", "started", "refused", "stopped", "error"}]

PidInit ==
    /\ file = "none"
    /\ proc = [p \in Pids |-> "none"]
    /\ trapped = {}
    /\ command = [o \in Operators |-> "none"]
    /\ at = [o \in Operators |-> "idle"]
    /\ target = [o \in Operators |-> "none"]
    /\ outcome = [o \in Operators |-> "none"]

-----------------------------------------------------------------------------
(***************************************************************************)
(* The commands.                                                           *)
(***************************************************************************)
Give(o, c) ==
    /\ at[o] = "idle"
    /\ Patient => Settled
    /\ command' = [command EXCEPT ![o] = c]
    /\ at' = [at EXCEPT ![o] = IF c = "start" THEN "start" ELSE "stop"]
    /\ outcome' = [outcome EXCEPT ![o] = "none"]
    /\ UNCHANGED <<hostVars, target>>

Return(o, how) ==
    /\ command' = [command EXCEPT ![o] = "none"]
    /\ at' = [at EXCEPT ![o] = "idle"]
    /\ target' = [target EXCEPT ![o] = "none"]
    /\ outcome' = [outcome EXCEPT ![o] = how]

\* Variant: a pid file is taken for a stale one.
Refuse_Remove(o) ==
    /\ at[o] = "start" /\ file \in Pids
    /\ file' = "none"
    /\ Return(o, "refused")
    /\ UNCHANGED <<proc, trapped>>

\* start(): a pid file, and be it of a dead process, ends the command.
Refuse(o) ==
    /\ at[o] = "start" /\ file \in Pids
    /\ Return(o, "refused")
    /\ UNCHANGED hostVars

\* Variant: the pid file is not looked at.
Fork_Always(o, p) ==
    /\ at[o] = "start"
    /\ proc[p] = "none"
    /\ proc' = [proc EXCEPT ![p] = "boot"]
    /\ trapped' = IF command[o] = "start" THEN trapped \cup {p} ELSE trapped
    /\ Return(o, "started")
    /\ UNCHANGED file

\* ... and without one the daemon is forked, and the command has ended.
Fork(o, p) ==
    /\ at[o] = "start" /\ file = "none"
    /\ proc[p] = "none"
    /\ proc' = [proc EXCEPT ![p] = "boot"]
    /\ trapped' = IF command[o] = "start" THEN trapped \cup {p} ELSE trapped
    /\ Return(o, "started")
    /\ UNCHANGED file

\* int('') raises ValueError, which nothing catches (l. 73, 94).
ReadsEmpty(o) ==
    /\ at[o] \in {"start", "stop"} /\ file = "empty"
    /\ Return(o, "error")
    /\ UNCHANGED hostVars

\* The end of stop() without an exception: restart() goes on with start().
Stopped(o) ==
    IF command[o] = "restart"
    THEN /\ at' = [at EXCEPT ![o] = "start"]
         /\ target' = [target EXCEPT ![o] = "none"]
         /\ UNCHANGED <<command, outcome>>
    ELSE Return(o, "stopped")

\* Variant: `if not pid' is missing.
NotRunning_Unchecked(o) ==
    /\ at[o] = "stop" /\ file = "none"
    /\ at' = [at EXCEPT ![o] = "kill"]
    /\ UNCHANGED <<hostVars, command, target, outcome>>

NotRunning(o) ==
    /\ at[o] = "stop" /\ file = "none"
    /\ Stopped(o)
    /\ UNCHANGED hostVars

ReadsPid(o) ==
    /\ at[o] = "stop" /\ file \in Pids
    /\ target' = [target EXCEPT ![o] = file]
    /\ at' = [at EXCEPT ![o] = "kill"]
    /\ UNCHANGED <<hostVars, command, outcome>>

\* The handler needs zk_lock, which its own thread may hold, in a round or in
\* the handler itself.
Handled(state) ==
    IF state \in {"boot", "open", "asleep"} THEN "closing"
    ELSE IF state = "exiting" THEN state
    ELSE "stuck"

\* os.kill(pid, SIGTERM), every 0.1 seconds.
KillDaemon(o) ==
    /\ at[o] = "kill" /\ target[o] \in Daemons
    /\ LET p == target[o]
       IN  IF p \in trapped
           THEN /\ proc' = [proc EXCEPT ![p] = Handled(@)]
                /\ UNCHANGED trapped
           ELSE /\ proc' = [proc EXCEPT ![p] = "none"]
                /\ UNCHANGED trapped
    /\ UNCHANGED <<file, operatorVars>>

\* A stale file names whoever has the pid now: it dies, or does not, or may
\* not be killed by this user.
KillStranger(o) ==
    /\ at[o] = "kill" /\ target[o] \in Pids /\ proc[target[o]] = "stranger"
    /\ \/ /\ proc' = [proc EXCEPT ![target[o]] = "none"]
          /\ UNCHANGED operatorVars
       \/ /\ Return(o, "error")
          /\ UNCHANGED proc
    /\ UNCHANGED <<file, trapped>>

\* Variant: one signal is thought to be enough.
NoSuchProcess_Once(o) ==
    /\ at[o] = "kill"
    /\ at' = [at EXCEPT ![o] = "exists"]
    /\ target' = [target EXCEPT ![o] = "none"]
    /\ UNCHANGED <<hostVars, command, outcome>>

NoSuchProcess(o) ==
    /\ at[o] = "kill" /\ target[o] \in Pids /\ proc[target[o]] = "none"
    /\ at' = [at EXCEPT ![o] = "exists"]
    /\ target' = [target EXCEPT ![o] = "none"]
    /\ UNCHANGED <<hostVars, command, outcome>>

\* Ctrl-C, when it takes too long.
Interrupt(o) ==
    /\ at[o] = "kill"
    /\ Return(o, "error")
    /\ UNCHANGED hostVars

\* os.path.exists, and then os.remove.
Exists(o) ==
    /\ at[o] = "exists"
    /\ IF file = "none"
       THEN Stopped(o)
       ELSE /\ at' = [at EXCEPT ![o] = "remove"]
            /\ UNCHANGED <<command, target, outcome>>
    /\ UNCHANGED hostVars

RemoveFile(o) ==
    /\ at[o] = "remove"
    /\ IF file = "none" THEN Return(o, "error") ELSE Stopped(o)
    /\ file' = "none"
    /\ UNCHANGED <<proc, trapped>>

-----------------------------------------------------------------------------
(***************************************************************************)
(* The daemon, and the other processes of the host.                        *)
(***************************************************************************)
OpenFile(p) ==
    /\ proc[p] = "boot"
    /\ proc' = [proc EXCEPT ![p] = "open"]
    /\ file' = "empty"
    /\ UNCHANGED <<trapped, operatorVars>>

WriteFile(p) ==
    /\ proc[p] = "open"
    /\ proc' = [proc EXCEPT ![p] = "asleep"]
    /\ file' = p
    /\ UNCHANGED <<trapped, operatorVars>>

Work(p) ==
    /\ \/ proc[p] = "asleep" /\ proc' = [proc EXCEPT ![p] = "round"]
       \/ proc[p] = "round" /\ proc' = [proc EXCEPT ![p] = "asleep"]
    /\ UNCHANGED <<file, trapped, operatorVars>>

\* self._zk.stop() returns, and exit(0) raises SystemExit.
Close(p) ==
    /\ proc[p] = "closing"
    /\ proc' = [proc EXCEPT ![p] = "exiting"]
    /\ UNCHANGED <<file, trapped, operatorVars>>

Gone(p) ==
    /\ proc' = [proc EXCEPT ![p] = "none"]
    /\ trapped' = trapped \ {p}

\* delpid removes the file of that name, whoever wrote it; a SIGTERM in the
\* middle of it ends the process without it.
Exit(p) ==
    /\ proc[p] = "exiting"
    /\ Gone(p)
    /\ file' \in {"none", file}
    /\ UNCHANGED operatorVars

\* kill -9, or the host is short of memory.
Crash(p) ==
    /\ p \in Daemons
    /\ Gone(p)
    /\ UNCHANGED <<file, operatorVars>>

Stranger(p) ==
    /\ \/ proc[p] = "none" /\ proc' = [proc EXCEPT ![p] = "stranger"]
       \/ proc[p] = "stranger" /\ proc' = [proc EXCEPT ![p] = "none"]
    /\ UNCHANGED <<file, trapped, operatorVars>>

-----------------------------------------------------------------------------
Command(o) ==
    \/ Refuse(o) \/ ReadsEmpty(o) \/ \E p \in Pids : Fork(o, p)
    \/ NotRunning(o) \/ ReadsPid(o)
    \/ KillDaemon(o) \/ KillStranger(o) \/ NoSuchProcess(o)
    \/ Exists(o) \/ RemoveFile(o)

Daemon(p) == OpenFile(p) \/ WriteFile(p) \/ Work(p) \/ Close(p) \/ Exit(p)

PidNext ==
    \/ \E o \in Operators :
          \/ \E c \in {"start", "stop", "restart"} : Give(o, c)
          \/ Command(o) \/ Interrupt(o)
    \/ \E p \in Pids : Daemon(p) \/ Crash(p) \/ Stranger(p)

(***************************************************************************)
(* Commands and the ends of daemons run on; nobody has to give a command,  *)
(* to interrupt one, to crash or to take a pid.                            *)
(***************************************************************************)
PidSpec ==
    /\ PidInit /\ [][PidNext]_pidVars
    /\ \A o \in Operators : WF_pidVars(Command(o))
    /\ \A p \in Pids : WF_pidVars(Close(p)) /\ WF_pidVars(Exit(p))

-----------------------------------------------------------------------------
(***************************************************************************)
(* Safety, of one Patient operator, through stale files, crashes, hanging  *)
(* commands and pids that are used again.                                  *)
(***************************************************************************)
\* Never do two daemons run, although `start' looks at a file that outlives
\* its writer and that daemons, stop() and delpid remove (daemon.py:66-83).
OneDaemon == Cardinality(Daemons) <= 1

\* Between commands a daemon that runs can be found by `stop': nobody has
\* removed or overwritten its pid file (daemon.py:59-64, 111-112).
DaemonIsNamed ==
    Settled /\ (\A o \in Operators : at[o] = "idle") => \A p \in Daemons : file = p

\* A `stop' that ends without an error, "does not exist" included, leaves
\* neither a daemon nor a pid file, whoever answered its signals
\* (daemon.py:87-116).
StopIsThorough ==
    \A o \in Operators : outcome[o] = "stopped" => Daemons = {} /\ file = "none"

(***************************************************************************)
(* What the comments say and the code does not do.                         *)
(***************************************************************************)
\* dockmon.py:165, "In backround, handle SIGTERM to close ZK connection
\* properly", and daemon.py:89, "Stop the daemon": the signals of `stop' end
\* the daemon, and then the command ends.
StopReturns ==
    \A o \in Operators :
        at[o] = "kill" ~> at[o] # "kill" \/ \E p \in Pids : proc[p] = "stranger"
=============================================================================
