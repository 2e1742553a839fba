------------------------------ MODULE Launcher ------------------------------
(***************************************************************************)
(* The demo launcher (src/infra/run_demo.py), the programs it starts and   *)
(* the readiness check (src/infra/preflight.py), on one machine with its   *)
(* configuration file.                                                     *)
(*                                                                         *)
(* A program is seen from outside: it reads the file, binds its port or    *)
(* fails to, and ends when it is told to.  Ctrl-C reaches the launcher and *)
(* every program of its run, which are one process group, and SIGINT may   *)
(* also be sent to the launcher alone: it handles KeyboardInterrupt.  Any  *)
(* other signal to the launcher alone ends it where it stands.  Launchers  *)
(* do not overlap, but the programs of an earlier run may still be there.  *)
(***************************************************************************)
EXTENDS HostsConfig

CONSTANTS
    Driver,     \* P0, which drives the scenario under --auto
    StartRank,  \* position of each process in START_ORDER
    MaxRuns     \* bound: calls of the launcher

ASSUME LauncherAssumption ==
    /\ Driver \in Processes
    /\ StartRank \in [Processes -> Nat]
    /\ \A p, q \in Processes : StartRank[p] = StartRank[q] => p = q
    /\ MaxRuns \in Nat

VARIABLES
    launcher,   \* where the launcher is, what it has still to start
    run,        \* run_id of the latest run, 0 before the first
    launched,   \* the launcher's list of what it has started
    children,   \* the life of every program of every run
    loaded,     \* the configuration file as the programs of the latest run read it
    logs,       \* the run whose lines are in the log file of each process
    meta,       \* run-meta.json
    ready,      \* history: what a passing preflight is still worth
    killed,     \* history: the runs whose launcher was ended, and nobody else
    cut_short,  \* history: the runs whose launcher was interrupted as it cleaned up
    unlisted    \* history: <<run, process>> started, and the launcher interrupted
                \* before it had entered the program in its list

programVars == <<children, loaded>>
outputVars == <<logs, meta>>
endVars == <<killed, cut_short, unlisted>>
runVars == <<launcher, run, launched, programVars, outputVars, endVars>>
vars == <<configVars, runVars, ready>>

Runs == 1 .. MaxRuns

\* "failed" is a program that could not bind its port, and "deaf" one whose
\* shutdown handler ran and did not end it.
Running == {"starting", "up", "stopping", "deaf"}
Status == Running \cup {"none", "failed", "ended"}

LauncherPc == {"idle", "open", "spawn", "append", "running",
               "terminate", "wait", "save"}

LauncherState == [pc : LauncherPc, todo : SUBSET Processes]

NoLauncher == [pc |-> "idle", todo |-> {}]

\* A preflight that passed is worth something until the file changes: first
\* for the next run, then for the latest one.
Readiness == {"no", "passed", "launched"}

NoMeta == [run |-> 0, processes |-> {}]

LaunchInit ==
    /\ launcher = NoLauncher
    /\ run = 0
    /\ launched = {}
    /\ children = [r \in Runs |-> [p \in Processes |-> "none"]]
    /\ loaded = [p \in Processes |-> NoFile]
    /\ logs = [p \in Processes |-> 0]
    /\ meta = NoMeta
    /\ ready = "no"
    /\ killed = {}
    /\ cut_short = {}
    /\ unlisted = {}

----------------------------------------------------------------------------
(* The programs.                                                           *)

\* A program holds its port from bind to its end: closing the listener in the
\* shutdown handler does not take it from the thread that waits in accept.
PortTaken(p) == \E r \in Runs : children[r][p] \in {"up", "stopping", "deaf"}

SetChild(r, p, status) == children' = [children EXCEPT ![r][p] = status]

\* The module reads the file, and start_listener binds.
StartListener(r, p) ==
    /\ children[r][p] = "starting"
    /\ loaded' = IF r = run THEN [loaded EXCEPT ![p] = hosts_cfg] ELSE loaded
    /\ SetChild(r, p, IF PortTaken(p) THEN "failed" ELSE "up")
    /\ UNCHANGED <<configVars, launcher, run, launched, outputVars, ready, endVars>>

\* shutdown_handler raises SystemExit, also when a program is still starting.
ShutdownHandler(r, p) ==
    /\ children[r][p] = "stopping"
    /\ SetChild(r, p, "ended")
    /\ UNCHANGED <<configVars, launcher, run, launched, loaded, outputVars, ready, endVars>>

\* P0 under --auto ends when its flow does, deaf or not.
FlowEnds(r) ==
    /\ children[r][Driver] \in {"up", "deaf"}
    /\ SetChild(r, Driver, "ended")
    /\ UNCHANGED <<configVars, launcher, run, launched, loaded, outputVars, ready, endVars>>

\* P0 under --auto has begun to send.  It sleeps a second before it does, so
\* that its launcher has entered it in the list by then.
Sending(r) ==
    /\ children[r][Driver] = "up"
    /\ r = run /\ launcher.pc \in {"open", "spawn", "append"} => Driver \in launched

\* SIGINT or SIGTERM to the processes ps of run r.  P0 may be in _send_json,
\* whose bare except takes the SystemExit for a failed send: the program goes
\* on, and its handler returns at once from then on, as running is False.
Signal(r, ps) ==
    \E deaf \in SUBSET {p \in ps : p = Driver /\ Sending(r)} :
        children' = [children EXCEPT ![r] = [p \in Processes |->
            IF p \in ps /\ children[r][p] \in {"starting", "up"}
            THEN IF p \in deaf THEN "deaf" ELSE "stopping"
            ELSE children[r][p]]]

\* pkill, as preflight advises, of what an earlier run left behind
Pkill(r, p) ==
    /\ launcher.pc = "idle" \/ r < run
    /\ children[r][p] \in {"starting", "up"}
    /\ Signal(r, {p})
    /\ UNCHANGED <<configVars, launcher, run, launched, loaded, outputVars, ready, endVars>>

----------------------------------------------------------------------------
(* preflight.py                                                            *)

\* The processes this machine is taken to own, none when that is not known
Owned == UNION {ProcessesForNode(n) : n \in DetectMyNode(hosts_cfg)}

\* Mutant: only P0's port is tried.
CheckDriverPort == ~PortTaken(Driver)

CheckPorts ==
    \A p \in (IF DetectMyNode(hosts_cfg) = {} THEN Processes ELSE Owned) : ~PortTaken(p)

\* It passes when the addresses are set and the ports free.  (The free ports
\* of a moment say little while a program is starting.)
Preflight ==
    /\ IsConfigured(hosts_cfg) /\ CheckPorts
    /\ launcher.pc = "idle"
    /\ \A r \in Runs, p \in Processes : children[r][p] # "starting"
    /\ ready' = "passed"
    /\ UNCHANGED <<configVars, runVars>>

----------------------------------------------------------------------------
(* run_demo.py                                                             *)

\* which_processes: --all, one node's processes, or an explicit subset
Start(wanted) ==
    /\ launcher.pc = "idle"
    /\ run < MaxRuns
    /\ Call
    /\ run' = run + 1
    /\ launcher' = [pc |-> "open", todo |-> wanted]
    /\ launched' = {}
    /\ loaded' = [p \in Processes |-> NoFile]
    /\ ready' = IF ready = "passed" /\ wanted \subseteq Owned THEN "launched" ELSE "no"
    /\ UNCHANGED <<hosts_cfg, backup, tool, original, torn, children, outputVars, endVars>>

IsNext(p) == p \in launcher.todo /\ \A q \in launcher.todo : StartRank[p] <= StartRank[q]

\* Mutant: the log of an earlier run is appended to.
AppendToLog ==
    /\ launcher.pc = "open"
    /\ \E p \in launcher.todo :
        /\ IsNext(p)
        /\ logs' = [logs EXCEPT ![p] = IF @ = 0 THEN run ELSE @]
    /\ launcher' = [launcher EXCEPT !.pc = "spawn"]
    /\ UNCHANGED <<configVars, run, launched, children, loaded, meta, ready, endVars>>

OpenLog ==
    /\ launcher.pc = "open"
    /\ \E p \in launcher.todo :
        /\ IsNext(p)
        /\ logs' = [logs EXCEPT ![p] = run]
    /\ launcher' = [launcher EXCEPT !.pc = "spawn"]
    /\ UNCHANGED <<configVars, run, launched, children, loaded, meta, ready, endVars>>

Spawn ==
    /\ launcher.pc = "spawn"
    /\ \E p \in launcher.todo : IsNext(p) /\ SetChild(run, p, "starting")
    /\ launcher' = [launcher EXCEPT !.pc = "append"]
    /\ UNCHANGED <<configVars, run, launched, loaded, outputVars, ready, endVars>>

AppendLaunched ==
    /\ launcher.pc = "append"
    /\ \E p \in launcher.todo :
        /\ IsNext(p)
        /\ launched' = launched \cup {p}
        /\ launcher' = [launcher EXCEPT !.todo = @ \ {p},
                            !.pc = IF launcher.todo = {p} THEN "running" ELSE "open"]
    /\ UNCHANGED <<configVars, run, programVars, outputVars, ready, endVars>>

\* The duration is over, or every program ended on its own.
TimeIsUp ==
    /\ launcher.pc = "running"
    /\ launcher' = [launcher EXCEPT !.pc = "terminate"]
    /\ UNCHANGED <<configVars, run, launched, programVars, outputVars, ready, endVars>>

\* open or Popen raises OSError: the finally block, then the traceback.
StartFails ==
    /\ launcher.pc \in {"open", "spawn"}
    /\ launcher' = [launcher EXCEPT !.pc = "terminate"]
    /\ UNCHANGED <<configVars, run, launched, programVars, outputVars, ready, endVars>>

\* Ctrl-C
Interrupt ==
    /\ launcher.pc \in {"open", "spawn", "append", "running"}
    /\ launcher' = [launcher EXCEPT !.pc = "terminate"]
    /\ Signal(run, Processes)
    /\ UNCHANGED <<configVars, run, launched, loaded, outputVars, ready, endVars>>

\* SIGINT to the launcher alone, which may have started a program that is not
\* in its list yet
InterruptAlone ==
    /\ launcher.pc \in {"open", "spawn", "append", "running"}
    /\ launcher' = [launcher EXCEPT !.pc = "terminate"]
    /\ unlisted' = unlisted \cup
         {<<run, p>> : p \in {q \in launcher.todo : launcher.pc = "append" /\ IsNext(q)}}
    /\ UNCHANGED <<configVars, run, launched, programVars, outputVars, ready, killed, cut_short>>

\* Ctrl-C in the finally block, where no handler is left
InterruptFinally ==
    /\ launcher.pc \in {"terminate", "wait", "save"}
    /\ launcher' = NoLauncher
    /\ cut_short' = cut_short \cup {run}
    /\ Signal(run, Processes)
    /\ UNCHANGED <<configVars, run, launched, loaded, outputVars, ready, killed, unlisted>>

\* SIGTERM or SIGKILL to the launcher alone, or SIGINT in the finally block
KillLauncher ==
    /\ launcher.pc # "idle"
    /\ launcher' = NoLauncher
    /\ killed' = killed \cup {run}
    /\ UNCHANGED <<configVars, run, launched, programVars, outputVars, ready,
                   cut_short, unlisted>>

Terminate ==
    /\ launcher.pc = "terminate"
    /\ launcher' = [launcher EXCEPT !.pc = "wait"]
    /\ Signal(run, launched)
    /\ UNCHANGED <<configVars, run, launched, loaded, outputVars, ready, endVars>>

\* Mutant: the programs have five seconds, but none is killed.
WaitOnly ==
    /\ launcher.pc = "wait"
    /\ launcher' = [launcher EXCEPT !.pc = "save"]
    /\ UNCHANGED <<configVars, run, launched, programVars, outputVars, ready, endVars>>

\* Mutant: the launcher waits until every program has ended.
WaitForAll ==
    /\ launcher.pc = "wait"
    /\ \A p \in launched : children[run][p] \notin Running
    /\ launcher' = [launcher EXCEPT !.pc = "save"]
    /\ UNCHANGED <<configVars, run, launched, programVars, outputVars, ready, endVars>>

\* Every program has ended, or five seconds are over and it is killed.
WaitOrKill ==
    /\ launcher.pc = "wait"
    /\ children' = [children EXCEPT ![run] = [p \in Processes |->
            IF p \in launched /\ children[run][p] \in Running
            THEN "ended" ELSE children[run][p]]]
    /\ launcher' = [launcher EXCEPT !.pc = "save"]
    /\ UNCHANGED <<configVars, run, launched, loaded, outputVars, ready, endVars>>

SaveMeta ==
    /\ launcher.pc = "save"
    /\ meta' = [run |-> run, processes |-> launched]
    /\ launcher' = NoLauncher
    /\ UNCHANGED <<configVars, run, launched, children, loaded, logs, ready, endVars>>

=============================================================================
