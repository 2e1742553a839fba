-------------------------------- MODULE Demo --------------------------------
(***************************************************************************)
(* One machine of the demo: its configuration file and the tool that       *)
(* rewrites it, the readiness check, the launcher and the programs of its  *)
(* runs, all at once.                                                      *)
(***************************************************************************)
EXTENDS Launcher

Init == ConfigInit /\ LaunchInit

Configure ==
    /\ ConfigNext
    /\ ready' = IF hosts_cfg' = hosts_cfg THEN ready ELSE "no"
    /\ UNCHANGED runVars

ProgramStep(r, p) == StartListener(r, p) \/ ShutdownHandler(r, p)

LauncherStep ==
    \/ OpenLog
    \/ Spawn
    \/ AppendLaunched
    \/ TimeIsUp
    \/ Terminate
    \/ WaitOrKill
    \/ SaveMeta

Next ==
    \/ Configure
    \/ Preflight
    \/ \E wanted \in SUBSET Processes \ {{}} : Start(wanted)
    \/ LauncherStep
    \/ StartFails
    \/ Interrupt
    \/ InterruptAlone
    \/ InterruptFinally
    \/ KillLauncher
    \/ \E r \in Runs, p \in Processes : ProgramStep(r, p) \/ Pkill(r, p)
    \/ \E r \in Runs : FlowEnds(r)

Spec == Init /\ [][Next]_vars

\* The launcher is a running program, and everything it waits for has a limit.
FairSpec == Spec /\ WF_vars(LauncherStep)

----------------------------------------------------------------------------
(* Properties.                                                             *)

\* Every variable has its type; a sanity check of the model as a whole.
TypeOK ==
    /\ hosts_cfg \in Content
    /\ backup \in Content \cup {NoFile}
    /\ tool \in [pc : {"idle", "create", "copy", "truncate", "write"}, new : Content]
    /\ calls \in 0 .. MaxCalls
    /\ original \in Content \cup {NoFile}
    /\ torn \in BOOLEAN
    /\ launcher \in LauncherState
    /\ run \in 0 .. MaxRuns
    /\ launched \subseteq Processes
    /\ children \in [Runs -> [Processes -> Status]]
    /\ loaded \in [Processes -> Content \cup {NoFile}]
    /\ logs \in [Processes -> 0 .. MaxRuns]
    /\ meta \in [run : 0 .. MaxRuns, processes : SUBSET Processes]
    /\ ready \in Readiness
    /\ killed \subseteq Runs
    /\ cut_short \subseteq Runs
    /\ unlisted \subseteq Runs \X Processes

\* The backup is taken once: however often the tool is called, stopped and
\* called again, no step of it replaces a backup that was written.
OriginalKept == [][(backup \in Whole) => backup' = backup]_vars

\* The tool truncates the file it rewrites.  Whenever it has left the file
\* empty, the backup holds what the file held before the first call, so that
\* --restore brings it back, unless the tool was stopped as it wrote the backup.
Recoverable == hosts_cfg = Empty => torn \/ (backup \in Whole /\ backup = original)

\* The finally block leaves no program of its run behind: one that still runs
\* when its launcher has gone is about to end, or its launcher was killed, or
\* interrupted alone between starting this program and listing it, or it is P0,
\* deaf to the second Ctrl-C that cut the finally block short.
NoneLeftBehind ==
    \A r \in Runs, p \in Processes :
        /\ children[r][p] \in {"starting", "up", "deaf"}
        /\ r < run \/ launcher.pc = "idle"
        => \/ r \in killed
           \/ <<r, p>> \in unlisted
           \/ r \in cut_short /\ p = Driver /\ children[r][p] = "deaf"

\* After a preflight that passed, a run of the processes this machine owns
\* binds every port, whatever earlier runs left behind, and no program of it
\* takes a peer to be on localhost, unless the file was changed in between.
PreflightMeans ==
    ready = "launched" =>
        \A p \in Processes :
            /\ children[run][p] # "failed"
            /\ loaded[p] # NoFile =>
                \A q \in Processes : LoadHosts(loaded[p])[q] # Localhost

\* run-meta.json is of the latest run once its launcher is done, unless that
\* was ended half way, and the log of every process it names is of that run.
MetaDescribesLogs ==
    launcher.pc = "idle" /\ run \notin killed \cup cut_short =>
        /\ meta.run = run
        /\ \A p \in meta.processes : logs[p] = run

\* A launcher ends, whatever its programs do with the signals it sends them.
EveryRunEnds == launcher.pc # "idle" ~> launcher.pc = "idle"

=============================================================================
