----------------------------- MODULE DemoProofs -----------------------------
(***************************************************************************)
(* Theorems about Demo, for any nodes, processes, addresses and number of  *)
(* calls and runs.                                                         *)
(***************************************************************************)
EXTENDS Demo, TLAPS

----------------------------------------------------------------------------
(* Contents of the file, and the effect of the launcher's helpers.         *)

\* An empty file is no whole one, and a file that is missing is neither.
LEMMA Contents ==
    /\ Empty \notin Whole /\ NoFile \notin Whole /\ NoFile # Empty
    /\ Whole \subseteq Content /\ Empty \in Content
    /\ Entries \subseteq Whole
    /\ [n \in Nodes |-> Unset] \in Whole
<1>1. PICK n : n \in Nodes
  BY HostsAssumption
<1>2. Empty \notin Whole
  BY <1>1 DEF Empty, Whole
<1>3. [Nodes -> Address] \subseteq Whole
  BY DEF Whole
<1>4. QED
  BY <1>2, <1>3, HostsAssumption DEF Content, Whole

\* One program changes its status, and nothing else does.
LEMMA SetChildEffect ==
    ASSUME TypeOK, NEW r \in Runs, NEW p \in Processes, NEW status \in Status,
           SetChild(r, p, status)
    PROVE  /\ children' \in [Runs -> [Processes -> Status]]
           /\ children'[r][p] = status
           /\ \A s \in Runs, q \in Processes :
                 s # r \/ q # p => children'[s][q] = children[s][q]
BY DEF TypeOK, SetChild

\* A signal ends the programs that can be ended, except that P0 may go deaf.
LEMMA SignalEffect ==
    ASSUME TypeOK, NEW r \in Runs, NEW ps \in SUBSET Processes, Signal(r, ps)
    PROVE  /\ children' \in [Runs -> [Processes -> Status]]
           /\ \A s \in Runs, q \in Processes :
                 s # r => children'[s][q] = children[s][q]
           /\ \A q \in Processes :
                 \/ /\ children'[r][q] = children[r][q]
                    /\ q \in ps => children[r][q] \notin {"starting", "up"}
                 \/ /\ q \in ps /\ children[r][q] \in {"starting", "up"}
                    /\ \/ children'[r][q] = "stopping"
                       \/ children'[r][q] = "deaf" /\ q = Driver /\ Sending(r)
<1>1. PICK deaf \in SUBSET {p \in ps : p = Driver /\ Sending(r)} :
        children' = [children EXCEPT ![r] = [p \in Processes |->
            IF p \in ps /\ children[r][p] \in {"starting", "up"}
            THEN IF p \in deaf THEN "deaf" ELSE "stopping"
            ELSE children[r][p]]]
  BY DEF Signal
<1>2. children \in [Runs -> [Processes -> Status]]
  BY DEF TypeOK
<1>3. \A q \in Processes :
         children'[r][q] = IF q \in ps /\ children[r][q] \in {"starting", "up"}
                           THEN IF q \in deaf THEN "deaf" ELSE "stopping"
                           ELSE children[r][q]
  BY <1>1, <1>2
<1>4. children' \in [Runs -> [Processes -> Status]]
  BY <1>1, <1>2 DEF Status, Running
<1>5. \A s \in Runs, q \in Processes : s # r => children'[s][q] = children[s][q]
  BY <1>1, <1>2
<1>6. QED
  BY <1>3, <1>4, <1>5

\* The process that is started next is the only one.
LEMMA NextIsOne ==
    ASSUME NEW p \in Processes, NEW q \in Processes, IsNext(p), IsNext(q)
    PROVE  p = q
<1>1. StartRank[p] <= StartRank[q] /\ StartRank[q] <= StartRank[p]
  BY DEF IsNext
<1>2. StartRank[p] \in Nat /\ StartRank[q] \in Nat
  BY LauncherAssumption
<1>3. QED
  BY <1>1, <1>2, LauncherAssumption

----------------------------------------------------------------------------
(* Type correctness.                                                       *)

\* The machine starts in a well-typed state.
LEMMA TypeInit == Init => TypeOK
<1> SUFFICES ASSUME Init PROVE TypeOK
  OBVIOUS
<1>1. /\ hosts_cfg \in Content /\ backup \in Content \cup {NoFile}
      /\ tool \in [pc : {"idle", "create", "copy", "truncate", "write"}, new : Content]
      /\ original \in Content \cup {NoFile} /\ torn \in BOOLEAN
  <2>1. hosts_cfg \in Content
    BY Contents DEF Init, ConfigInit
  <2>2. QED
    BY <2>1, Contents DEF Init, ConfigInit, Idle
<1>2. /\ launcher \in LauncherState /\ run \in 0 .. MaxRuns /\ launched \subseteq Processes
      /\ ready \in Readiness /\ killed \subseteq Runs /\ cut_short \subseteq Runs
      /\ unlisted \subseteq Runs \X Processes /\ calls \in 0 .. MaxCalls
  BY LauncherAssumption, HostsAssumption
     DEF Init, ConfigInit, LaunchInit, NoLauncher, LauncherState, LauncherPc, Readiness
<1>3. /\ children \in [Runs -> [Processes -> Status]]
      /\ loaded \in [Processes -> Content \cup {NoFile}]
  BY DEF Init, LaunchInit, Status
<1>4. /\ logs \in [Processes -> 0 .. MaxRuns]
      /\ meta \in [run : 0 .. MaxRuns, processes : SUBSET Processes]
  BY LauncherAssumption DEF Init, LaunchInit, NoMeta
<1>5. QED
  BY <1>1, <1>2, <1>3, <1>4 DEF TypeOK

\* What the tool and the editor do keeps the types.
LEMMA TypeConfigure == TypeOK /\ Configure => TypeOK'
<1> SUFFICES ASSUME TypeOK, Configure PROVE TypeOK'
  OBVIOUS
<1> DEFINE ConfigTypeOK ==
        /\ hosts_cfg \in Content
        /\ backup \in Content \cup {NoFile}
        /\ tool \in [pc : {"idle", "create", "copy", "truncate", "write"}, new : Content]
        /\ original \in Content \cup {NoFile}
        /\ torn \in BOOLEAN
<1>1. ConfigNext /\ UNCHANGED runVars /\ ready' \in Readiness
  BY DEF Configure, TypeOK, Readiness
<1>2. ConfigTypeOK
  BY DEF TypeOK
<1>3. calls \in 0 .. MaxCalls
  BY DEF TypeOK
<1>4. calls' \in 0 .. MaxCalls
  <2>1. calls' = calls \/ Call
    BY <1>1 DEF ConfigNext, ApplyIps, CreateBackup, CopyBackup, TruncateConfig,
                WriteConfig, Restore, Crash, EditByHand
  <2>2. QED
    BY <1>3, <2>1, HostsAssumption DEF Call
<1>5. ASSUME NEW new \in Entries, ApplyIps(new) PROVE ConfigTypeOK'
  BY <1>2, <1>5, Contents DEF ApplyIps
<1>6. ASSUME CreateBackup \/ CopyBackup \/ TruncateConfig PROVE ConfigTypeOK'
  BY <1>2, <1>6, Contents DEF CreateBackup, CopyBackup, TruncateConfig
<1>7. ASSUME WriteConfig \/ Restore PROVE ConfigTypeOK'
  BY <1>2, <1>7, Contents DEF WriteConfig, Restore, Idle
<1>8. ASSUME Crash PROVE ConfigTypeOK'
  BY <1>2, <1>8, Contents DEF Crash, Idle
<1>9. ASSUME NEW new \in Entries, EditByHand(new) PROVE ConfigTypeOK'
  BY <1>2, <1>9, Contents DEF EditByHand
<1>10. ConfigTypeOK'
  BY <1>1, <1>5, <1>6, <1>7, <1>8, <1>9 DEF ConfigNext
<1>11. UNCHANGED <<launcher, run, launched, children, loaded, logs, meta, killed, cut_short, unlisted>>
  BY <1>1 DEF runVars, programVars, outputVars, endVars
<1>12. QED
  BY <1>1, <1>4, <1>10, <1>11 DEF TypeOK

\* The frame of every other step: the configuration stays as it is, but for
\* the count of calls.
LEMMA ConfigFrame ==
    ASSUME TypeOK, Next
    PROVE  \/ Configure
           \/ UNCHANGED <<hosts_cfg, backup, tool, original, torn>> /\ calls' \in 0 .. MaxCalls
<1>1. CASE \E wanted \in SUBSET Processes \ {{}} : Start(wanted)
  BY <1>1, HostsAssumption DEF Start, Call, TypeOK
<1>2. CASE Preflight \/ LauncherStep \/ StartFails \/ Interrupt \/ InterruptAlone
           \/ InterruptFinally \/ KillLauncher
  BY <1>2 DEF Preflight, LauncherStep, OpenLog, Spawn, AppendLaunched, TimeIsUp, Terminate,
              WaitOrKill, SaveMeta, StartFails, Interrupt, InterruptAlone,
                InterruptFinally, KillLauncher,
              configVars, TypeOK
<1>3. CASE \/ \E r \in Runs, p \in Processes : ProgramStep(r, p) \/ Pkill(r, p)
           \/ \E r \in Runs : FlowEnds(r)
  BY <1>3 DEF ProgramStep, StartListener, ShutdownHandler, Pkill, FlowEnds, configVars, TypeOK
<1>4. QED
  BY <1>1, <1>2, <1>3 DEF Next

\* A launcher that is at work is at work on a run.
Launching == launcher.pc # "idle" => run \in Runs

\* What the launcher and the programs do keeps the types.
LEMMA TypeRuns ==
    ASSUME TypeOK, Launching, Next, ~Configure
    PROVE  TypeOK' /\ Launching'
<1> DEFINE RunTypeOK ==
        /\ launcher \in LauncherState
        /\ run \in 0 .. MaxRuns
        /\ launched \subseteq Processes
        /\ loaded \in [Processes -> Content \cup {NoFile}]
        /\ logs \in [Processes -> 0 .. MaxRuns]
        /\ meta \in [run : 0 .. MaxRuns, processes : SUBSET Processes]
        /\ ready \in Readiness
        /\ killed \subseteq Runs
        /\ cut_short \subseteq Runs
        /\ unlisted \subseteq Runs \X Processes
<1>1. RunTypeOK
  BY DEF TypeOK
<1>2. children \in [Runs -> [Processes -> Status]]
  BY DEF TypeOK
<1>3. hosts_cfg \in Content
  BY DEF TypeOK
<1>4. CASE Preflight
  <2>1. RunTypeOK' /\ Launching' /\ children' = children
    BY <1>1, <1>4 DEF Preflight, runVars, programVars, outputVars, endVars, Launching, Readiness
  <2>2. QED
    BY <2>1, <1>2, ConfigFrame DEF TypeOK
<1>5. ASSUME NEW wanted \in SUBSET Processes \ {{}}, Start(wanted) PROVE TypeOK' /\ Launching'
  <2>1. run' \in Runs
    BY <1>1, <1>5, LauncherAssumption DEF Start, Runs
  <2>2. run' \in 0 .. MaxRuns
    BY <2>1, LauncherAssumption DEF Runs
  <2>3. launcher' \in LauncherState
    BY <1>5 DEF Start, LauncherState, LauncherPc
  <2>4. RunTypeOK' /\ children' = children
    BY <1>1, <1>5, <2>2, <2>3 DEF Start, outputVars, endVars, Readiness
  <2>5. QED
    BY <2>1, <2>4, <1>2, ConfigFrame DEF TypeOK, Launching
<1>6. CASE LauncherStep \/ StartFails \/ Interrupt \/ InterruptAlone
           \/ InterruptFinally \/ KillLauncher
  <2>1. run \in Runs /\ run' = run /\ ready' = ready
    BY <1>6 DEF Launching, LauncherStep, OpenLog, Spawn, AppendLaunched, TimeIsUp, Terminate,
                WaitOrKill, SaveMeta, StartFails, Interrupt, InterruptAlone,
                InterruptFinally, KillLauncher
  <2>2. launcher' \in LauncherState
    <3>1. launcher.todo \in SUBSET Processes /\ launcher \in [pc : LauncherPc, todo : SUBSET Processes]
      BY <1>1 DEF LauncherState
    <3>2. CASE OpenLog \/ Spawn \/ TimeIsUp \/ Terminate \/ WaitOrKill \/ StartFails \/ Interrupt
               \/ InterruptAlone
      BY <3>1, <3>2 DEF OpenLog, Spawn, TimeIsUp, Terminate, WaitOrKill, StartFails, Interrupt,
                InterruptAlone, LauncherState, LauncherPc
    <3>3. CASE AppendLaunched
      <4>1. PICK p : launcher' = [launcher EXCEPT !.todo = @ \ {p},
                        !.pc = IF launcher.todo = {p} THEN "running" ELSE "open"]
        BY <3>3 DEF AppendLaunched
      <4>2. launcher.todo \ {p} \in SUBSET Processes
        BY <3>1
      <4>3. QED
        BY <3>1, <4>1, <4>2 DEF LauncherState, LauncherPc
    <3>4. CASE SaveMeta \/ InterruptFinally \/ KillLauncher
      BY <3>4 DEF SaveMeta, InterruptFinally, KillLauncher, NoLauncher, LauncherState, LauncherPc
    <3>5. QED
      BY <1>6, <3>2, <3>3, <3>4 DEF LauncherStep
  <2>3. launched' \subseteq Processes
    <3>1. launched' = launched \/ \E p \in launcher.todo : launched' = launched \cup {p}
      BY <1>6 DEF LauncherStep, OpenLog, Spawn, AppendLaunched, TimeIsUp, Terminate,
                WaitOrKill, SaveMeta, StartFails, Interrupt, InterruptAlone,
                InterruptFinally, KillLauncher
    <3>2. QED
      BY <1>1, <3>1 DEF LauncherState
  <2>4. loaded' = loaded /\ killed' \subseteq Runs /\ cut_short' \subseteq Runs
    BY <1>1, <1>6, <2>1 DEF LauncherStep, OpenLog, Spawn, AppendLaunched, TimeIsUp, Terminate,
                WaitOrKill, SaveMeta, StartFails, Interrupt, InterruptAlone,
                InterruptFinally, KillLauncher, programVars, endVars
  <2>5. unlisted' \subseteq Runs \X Processes
    <3>1. CASE InterruptAlone
      <4>1. launcher.todo \subseteq Processes
        BY <1>1 DEF LauncherState
      <4>2. QED
        BY <1>1, <2>1, <3>1, <4>1 DEF InterruptAlone
    <3>2. CASE ~InterruptAlone
      <4>1. unlisted' = unlisted
        BY <1>6, <3>2 DEF LauncherStep, OpenLog, Spawn, AppendLaunched, TimeIsUp, Terminate,
                WaitOrKill, SaveMeta, StartFails, Interrupt, InterruptFinally, KillLauncher, endVars
      <4>2. QED
        BY <1>1, <4>1
    <3>3. QED
      BY <3>1, <3>2
  <2>6. logs' \in [Processes -> 0 .. MaxRuns]
    BY <1>1, <1>6 DEF LauncherStep, OpenLog, Spawn, AppendLaunched, TimeIsUp, Terminate,
                WaitOrKill, SaveMeta, StartFails, Interrupt, InterruptAlone,
                InterruptFinally, KillLauncher,
                outputVars
  <2>7. meta' \in [run : 0 .. MaxRuns, processes : SUBSET Processes]
    <3>1. meta' = meta \/ meta' = [run |-> run, processes |-> launched]
      BY <1>6 DEF LauncherStep, OpenLog, Spawn, AppendLaunched, TimeIsUp, Terminate,
                WaitOrKill, SaveMeta, StartFails, Interrupt, InterruptAlone,
                InterruptFinally, KillLauncher,
                outputVars
    <3>2. QED
      BY <1>1, <3>1
  <2>8. children' \in [Runs -> [Processes -> Status]]
    <3>1. CASE OpenLog \/ AppendLaunched \/ TimeIsUp \/ SaveMeta \/ StartFails \/ KillLauncher
               \/ InterruptAlone
      BY <1>2, <3>1 DEF OpenLog, AppendLaunched, TimeIsUp, SaveMeta, StartFails,
                        KillLauncher, InterruptAlone, programVars
    <3>2. CASE Spawn
      <4>1. PICK p \in launcher.todo : SetChild(run, p, "starting")
        BY <3>2 DEF Spawn
      <4>2. p \in Processes /\ "starting" \in Status
        BY <1>1 DEF LauncherState, Status, Running
      <4>3. QED
        BY <2>1, <4>1, <4>2, SetChildEffect
    <3>3. CASE Interrupt \/ InterruptFinally
      BY <2>1, <3>3, SignalEffect DEF Interrupt, InterruptFinally
    <3>4. CASE Terminate
      BY <1>1, <2>1, <3>4, SignalEffect DEF Terminate
    <3>5. CASE WaitOrKill
      BY <1>2, <2>1, <3>5 DEF WaitOrKill, Status
    <3>6. QED
      BY <1>6, <3>1, <3>2, <3>3, <3>4, <3>5 DEF LauncherStep
  <2>9. QED
    BY <1>1, <2>1, <2>2, <2>3, <2>4, <2>6, <2>7, <2>8, <2>5, ConfigFrame DEF TypeOK, Launching
<1>7. ASSUME NEW r \in Runs, NEW p \in Processes, ProgramStep(r, p) \/ Pkill(r, p) \/ FlowEnds(r)
      PROVE  TypeOK' /\ Launching'
  <2>1. children' \in [Runs -> [Processes -> Status]]
    <3>1. CASE StartListener(r, p)
      <4>1. SetChild(r, p, IF PortTaken(p) THEN "failed" ELSE "up")
        BY <3>1 DEF StartListener
      <4>2. QED
        BY <4>1, SetChildEffect DEF Status, Running
    <3>2. CASE ShutdownHandler(r, p)
      BY <3>2, SetChildEffect DEF ShutdownHandler, Status
    <3>3. CASE FlowEnds(r)
      BY <3>3, SetChildEffect, LauncherAssumption DEF FlowEnds, Status
    <3>4. CASE Pkill(r, p)
      BY <3>4, SignalEffect DEF Pkill
    <3>5. QED
      BY <1>7, <3>1, <3>2, <3>3, <3>4 DEF ProgramStep
  <2>2. loaded' \in [Processes -> Content \cup {NoFile}]
    BY <1>1, <1>3, <1>7 DEF ProgramStep, StartListener, ShutdownHandler, FlowEnds, Pkill
  <2>3. UNCHANGED <<launcher, run, launched, logs, meta, ready, killed, cut_short, unlisted>>
    BY <1>7 DEF ProgramStep, StartListener, ShutdownHandler, FlowEnds, Pkill, outputVars, endVars
  <2>4. RunTypeOK' /\ Launching'
    BY <1>1, <2>2, <2>3 DEF Launching
  <2>5. QED
    BY <2>1, <2>4, ConfigFrame DEF TypeOK
<1>8. \E p \in Processes : TRUE
  BY LauncherAssumption
<1>9. QED
  BY <1>4, <1>5, <1>6, <1>7, <1>8 DEF Next

\* Every reachable state is well-typed, and a run is numbered from 1.
LEMMA TypeInvariant == Spec => [](TypeOK /\ Launching)
<1>1. Init => TypeOK /\ Launching
  BY TypeInit DEF Init, LaunchInit, NoLauncher, Launching
<1>2. TypeOK /\ Launching /\ [Next]_vars => TypeOK' /\ Launching'
  <2> SUFFICES ASSUME TypeOK, Launching, [Next]_vars PROVE TypeOK' /\ Launching'
    OBVIOUS
  <2>1. CASE Configure
    BY <2>1, TypeConfigure DEF Configure, runVars, Launching
  <2>2. CASE Next /\ ~Configure
    BY <2>2, TypeRuns
  <2>3. CASE UNCHANGED vars
    BY <2>3 DEF vars, configVars, runVars, programVars, outputVars, endVars, TypeOK, Launching
  <2>4. QED
    BY <2>1, <2>2, <2>3
<1>3. QED
  BY <1>1, <1>2, PTL DEF Spec

\* The variables of the tool, the launcher and the programs keep their types,
\* for any number of nodes, processes, calls and runs.
THEOREM TypeCorrect == Spec => []TypeOK
<1>1. TypeOK /\ Launching => TypeOK
  OBVIOUS
<1>2. QED
  BY <1>1, TypeInvariant, PTL

----------------------------------------------------------------------------
(* The backup.                                                             *)

\* The backup is written once, from the file that the tool found whole, and
\* the file is not touched before.
BackupInv ==
    /\ tool.pc \in {"create", "copy"} => hosts_cfg \in Whole /\ original = hosts_cfg
    /\ tool.pc = "create" => backup = NoFile
    /\ tool.pc = "copy" => backup = Empty
    /\ backup = NoFile => tool.pc \in {"idle", "create"} /\ hosts_cfg \in Whole
    /\ backup = Empty => tool.pc = "copy" \/ torn
    /\ backup \in Whole => backup = original /\ tool.pc \notin {"create", "copy"}

\* The steps of the tool keep it, and none replaces a backup that was written.
LEMMA BackupSteps ==
    ASSUME TypeOK, BackupInv, ConfigNext
    PROVE  BackupInv' /\ (backup \in Whole => backup' = backup)
<1>1. /\ tool.pc \in {"idle", "create", "copy", "truncate", "write"}
      /\ tool = Idle => tool.pc = "idle"
      /\ backup \in Content \cup {NoFile}
  BY DEF TypeOK, Idle
<1>2. tool \in [pc : {"idle", "create", "copy", "truncate", "write"}, new : Content]
  BY DEF TypeOK
<1> USE <1>1, Contents DEF BackupInv
<1>3. ASSUME NEW new \in Entries, ApplyIps(new)
      PROVE  BackupInv' /\ (backup \in Whole => backup' = backup)
  BY <1>3 DEF ApplyIps
<1>4. ASSUME CreateBackup PROVE BackupInv' /\ (backup \in Whole => backup' = backup)
  BY <1>2, <1>4 DEF CreateBackup
<1>5. ASSUME CopyBackup PROVE BackupInv' /\ (backup \in Whole => backup' = backup)
  BY <1>2, <1>5 DEF CopyBackup
<1>6. ASSUME TruncateConfig PROVE BackupInv' /\ (backup \in Whole => backup' = backup)
  BY <1>2, <1>6 DEF TruncateConfig
<1>7. ASSUME WriteConfig PROVE BackupInv' /\ (backup \in Whole => backup' = backup)
  BY <1>7 DEF WriteConfig, Idle
<1>8. ASSUME Restore PROVE BackupInv' /\ (backup \in Whole => backup' = backup)
  BY <1>8 DEF Restore
<1>9. ASSUME Crash PROVE BackupInv' /\ (backup \in Whole => backup' = backup)
  BY <1>9 DEF Crash, Idle
<1>10. ASSUME NEW new \in Entries, EditByHand(new)
       PROVE  BackupInv' /\ (backup \in Whole => backup' = backup)
  BY <1>10 DEF EditByHand
<1>11. QED
  BY <1>3, <1>4, <1>5, <1>6, <1>7, <1>8, <1>9, <1>10 DEF ConfigNext

\* So does every step, as the launcher only reads the file.
LEMMA BackupNext ==
    ASSUME TypeOK, BackupInv, [Next]_vars
    PROVE  BackupInv' /\ (backup \in Whole => backup' = backup)
<1>1. CASE Configure
  BY <1>1, BackupSteps DEF Configure
<1>2. CASE UNCHANGED <<hosts_cfg, backup, tool, original, torn>>
  BY <1>2 DEF BackupInv
<1>3. CASE UNCHANGED vars
  BY <1>2, <1>3 DEF vars, configVars
<1>4. QED
  BY <1>1, <1>2, <1>3, ConfigFrame

\* The backup is as BackupInv says in every reachable state.
LEMMA BackupInvariant == Spec => [](TypeOK /\ BackupInv)
<1>1. Init => BackupInv
  BY Contents DEF Init, ConfigInit, Idle, BackupInv
<1>2. TypeOK /\ BackupInv /\ [Next]_vars => BackupInv'
  BY BackupNext
<1>3. QED
  BY <1>1, <1>2, TypeCorrect, PTL DEF Spec

\* No call of configure_hosts.py, stopped half way or not, replaces a backup
\* that an earlier call wrote.
THEOREM BackupIsKept == Spec => OriginalKept
<1>1. TypeOK /\ BackupInv /\ [Next]_vars => [(backup \in Whole) => backup' = backup]_vars
  BY BackupNext
<1>2. QED
  BY <1>1, BackupInvariant, PTL DEF Spec, OriginalKept

\* Whenever the file is left empty, the backup holds what it held before the
\* first call, unless the tool was stopped as it wrote the backup.
THEOREM EmptyIsRecoverable == Spec => []Recoverable
<1>1. TypeOK /\ BackupInv => Recoverable
  BY Contents DEF TypeOK, BackupInv, Recoverable, Content
<1>2. QED
  BY <1>1, BackupInvariant, PTL

----------------------------------------------------------------------------
(* The programs that are left behind.                                      *)

Alive == {"starting", "up", "deaf"}

\* A run that has not begun has no program, and only P0 goes deaf.
Unborn == \A r \in Runs, p \in Processes : r > run => children[r][p] = "none"

OnlyDriverDeaf == \A r \in Runs, p \in Processes : children[r][p] = "deaf" => p = Driver

\* The launcher has entered in its list every program of its run that is
\* alive, but the one it has just started; once they were told to end, only a
\* deaf one is alive, and once it has waited, none.  The exception is one that
\* is known to be missing in the list.
Listed(p) ==
    \/ <<run, p>> \in unlisted
    \/ /\ p \in launched
       /\ launcher.pc = "wait" => children[run][p] = "deaf"
       /\ launcher.pc # "save"
    \/ launcher.pc = "append" /\ IsNext(p) /\ children[run][p] # "deaf"

AliveListed ==
    launcher.pc # "idle" => \A p \in Processes : children[run][p] \in Alive => Listed(p)

LifeInv == Unborn /\ OnlyDriverDeaf /\ AliveListed /\ NoneLeftBehind

\* A program that is alive is one that may be left behind.
LEMMA LifeSignal ==
    ASSUME TypeOK, LifeInv, NEW r \in Runs, r <= run, NEW ps \in SUBSET Processes, Signal(r, ps)
    PROVE  /\ children' \in [Runs -> [Processes -> Status]]
           /\ \A s \in Runs, q \in Processes : s > run => children'[s][q] = "none"
           /\ \A s \in Runs, q \in Processes : children'[s][q] = "deaf" => q = Driver
           /\ \A s \in Runs, q \in Processes :
                 children'[s][q] \in Alive =>
                    /\ children[s][q] \in Alive
                    /\ s # r => children'[s][q] = children[s][q]
                    /\ s = r /\ q \in ps => children'[s][q] = "deaf"
                    /\ children'[s][q] # children[s][q] => s = r /\ q = Driver /\ Sending(r)
<1>1. run \in 0 .. MaxRuns /\ r \in Nat /\ \A s \in Runs : s \in Nat
  BY DEF TypeOK, Runs
<1>2. \A s \in Runs, q \in Processes : s > run => s # r
  BY <1>1
<1>3. QED
  BY <1>1, <1>2, SignalEffect DEF LifeInv, Unborn, OnlyDriverDeaf, Alive

\* The steps of the launcher keep it.
LEMMA LifeLauncher ==
    ASSUME TypeOK, Launching, LifeInv,
           LauncherStep \/ StartFails \/ Interrupt \/ InterruptAlone
           \/ InterruptFinally \/ KillLauncher
    PROVE  LifeInv'
<1>1. run \in Runs /\ run' = run /\ run \in Nat /\ run <= run
  <2>1. run \in Runs /\ run' = run
    BY DEF Launching, LauncherStep, OpenLog, Spawn, AppendLaunched, TimeIsUp, Terminate,
           WaitOrKill, SaveMeta, StartFails, Interrupt, InterruptAlone,
                InterruptFinally, KillLauncher
  <2>2. QED
    BY <2>1 DEF Runs
<1>2. /\ children \in [Runs -> [Processes -> Status]]
      /\ launched \subseteq Processes /\ launcher.todo \subseteq Processes
      /\ launcher \in [pc : LauncherPc, todo : SUBSET Processes]
      /\ killed \subseteq Runs /\ cut_short \subseteq Runs
  BY DEF TypeOK, LauncherState
<1>3. \A r \in Runs : r \in Nat
  BY DEF Runs
<1> USE DEF LifeInv
<1>4. ASSUME UNCHANGED <<children, run, killed, cut_short, unlisted>>, launcher'.pc # "idle",
             \A p \in Processes : children[run][p] \in Alive /\ Listed(p) => Listed(p)'
      PROVE  LifeInv'
  <2>1. launcher.pc # "idle"
    BY DEF LauncherStep, OpenLog, Spawn, AppendLaunched, TimeIsUp, Terminate,
           WaitOrKill, SaveMeta, StartFails, Interrupt, InterruptAlone,
                InterruptFinally, KillLauncher
  <2>2. Unborn' /\ OnlyDriverDeaf'
    BY <1>4 DEF Unborn, OnlyDriverDeaf
  <2>3. AliveListed'
    BY <1>4, <2>1 DEF AliveListed
  <2>4. NoneLeftBehind'
    BY <1>4, <2>1 DEF NoneLeftBehind
  <2>5. QED
    BY <2>2, <2>3, <2>4
<1>5. CASE OpenLog
  BY <1>2, <1>4, <1>5 DEF OpenLog, Listed, endVars
<1>6. CASE TimeIsUp
  BY <1>2, <1>4, <1>6 DEF TimeIsUp, Listed, programVars, endVars
<1>7. CASE StartFails
  BY <1>2, <1>4, <1>7 DEF StartFails, Listed, programVars, endVars
<1>8. CASE AppendLaunched
  <2>1. PICK p \in launcher.todo : IsNext(p) /\ launched' = launched \cup {p}
    BY <1>8 DEF AppendLaunched
  <2>2. \A q \in Processes : IsNext(q) => q = p
    BY <1>2, <2>1, NextIsOne
  <2>3. launcher'.pc \in {"running", "open"}
    BY <1>2, <1>8 DEF AppendLaunched
  <2>4. QED
    BY <1>4, <1>8, <2>1, <2>2, <2>3 DEF AppendLaunched, Listed, programVars, endVars
<1>9. CASE Spawn
  <2>1. PICK p \in launcher.todo : IsNext(p) /\ SetChild(run, p, "starting")
    BY <1>9 DEF Spawn
  <2>2. p \in Processes /\ "starting" \in Status /\ IsNext(p)'
    BY <1>2, <1>9, <2>1 DEF Spawn, IsNext, Status, Running
  <2>3. /\ children' \in [Runs -> [Processes -> Status]] /\ children'[run][p] = "starting"
        /\ \A s \in Runs, q \in Processes : s # run \/ q # p => children'[s][q] = children[s][q]
    BY <1>1, <2>1, <2>2, SetChildEffect
  <2>4. Unborn' /\ OnlyDriverDeaf'
    BY <1>1, <1>3, <2>2, <2>3 DEF Unborn, OnlyDriverDeaf
  <2>5. /\ launcher.pc = "spawn" /\ launcher'.pc = "append"
        /\ UNCHANGED <<launched, unlisted>>
    BY <1>2, <1>9 DEF Spawn, endVars
  <2>6. AliveListed'
    BY <1>1, <2>2, <2>3, <2>5 DEF AliveListed, Listed
  <2>7. NoneLeftBehind'
    BY <1>1, <1>3, <1>9, <2>3, <2>5 DEF NoneLeftBehind, Spawn, endVars
  <2>8. QED
    BY <2>4, <2>6, <2>7
<1>10. CASE Interrupt
  <2>1. /\ \A s \in Runs, q \in Processes : s > run => children'[s][q] = "none"
        /\ \A s \in Runs, q \in Processes : children'[s][q] = "deaf" => q = Driver
        /\ \A s \in Runs, q \in Processes :
              children'[s][q] \in Alive =>
                 /\ children[s][q] \in Alive
                 /\ s # run => children'[s][q] = children[s][q]
                 /\ s = run => children'[s][q] = "deaf"
                 /\ children'[s][q] # children[s][q] => s = run /\ q = Driver /\ Sending(run)
    BY <1>1, <1>10, LifeSignal DEF Interrupt
  <2>2. /\ launcher.pc # "idle" /\ launcher'.pc = "terminate"
        /\ UNCHANGED <<launched, unlisted>>
    BY <1>2, <1>10 DEF Interrupt, endVars
  <2>3. AliveListed'
    <3>1. ASSUME NEW q \in Processes, children'[run][q] \in Alive
          PROVE  q \in launched \/ <<run, q>> \in unlisted
      <4>1. children'[run][q] = "deaf" /\ children[run][q] \in Alive
        BY <1>1, <2>1, <3>1
      <4>2. CASE children[run][q] = "deaf"
        BY <2>2, <4>1, <4>2 DEF AliveListed, Listed
      <4>3. CASE children[run][q] # "deaf"
        <5>1. q = Driver /\ Sending(run)
          BY <1>1, <2>1, <3>1, <4>1, <4>3
        <5>2. launcher.pc \in {"open", "spawn", "append", "running"}
          BY <1>10 DEF Interrupt
        <5>3. QED
          BY <2>2, <4>1, <5>1, <5>2 DEF Sending, AliveListed, Listed
      <4>4. QED
        BY <4>2, <4>3
    <3>2. QED
      BY <1>1, <2>2, <3>1 DEF AliveListed, Listed
  <2>4. Unborn' /\ OnlyDriverDeaf'
    BY <1>1, <2>1 DEF Unborn, OnlyDriverDeaf
  <2>5. NoneLeftBehind'
    BY <1>1, <1>3, <1>10, <2>1, <2>2 DEF NoneLeftBehind, Interrupt, endVars, Alive
  <2>6. QED
    BY <2>3, <2>4, <2>5
<1>11. CASE InterruptAlone
  <2>1. /\ launcher.pc \in {"open", "spawn", "append", "running"}
        /\ launcher'.pc = "terminate"
        /\ UNCHANGED <<launched, children, killed, cut_short>>
        /\ unlisted \subseteq unlisted'
        /\ \A q \in launcher.todo : launcher.pc = "append" /\ IsNext(q) => <<run, q>> \in unlisted'
    BY <1>2, <1>11 DEF InterruptAlone, programVars
  <2>2. Unborn' /\ OnlyDriverDeaf'
    BY <1>1, <2>1 DEF Unborn, OnlyDriverDeaf
  <2>3. AliveListed'
    BY <1>1, <2>1 DEF AliveListed, Listed, IsNext
  <2>4. NoneLeftBehind'
    BY <1>1, <2>1 DEF NoneLeftBehind
  <2>5. QED
    BY <2>2, <2>3, <2>4
<1>12. CASE Terminate
  <2>1. /\ \A s \in Runs, q \in Processes : s > run => children'[s][q] = "none"
        /\ \A s \in Runs, q \in Processes : children'[s][q] = "deaf" => q = Driver
        /\ \A s \in Runs, q \in Processes :
              children'[s][q] \in Alive =>
                 /\ children[s][q] \in Alive
                 /\ s # run => children'[s][q] = children[s][q]
                 /\ s = run /\ q \in launched => children'[s][q] = "deaf"
    BY <1>1, <1>2, <1>12, LifeSignal DEF Terminate
  <2>2. /\ launcher.pc = "terminate" /\ launcher'.pc = "wait"
        /\ UNCHANGED <<launched, unlisted>>
    BY <1>2, <1>12 DEF Terminate, endVars
  <2>3. AliveListed'
    BY <1>1, <2>1, <2>2 DEF AliveListed, Listed
  <2>4. Unborn' /\ OnlyDriverDeaf'
    BY <1>1, <2>1 DEF Unborn, OnlyDriverDeaf
  <2>5. NoneLeftBehind'
    BY <1>1, <1>3, <1>12, <2>1, <2>2 DEF NoneLeftBehind, Terminate, endVars, Alive
  <2>6. QED
    BY <2>3, <2>4, <2>5
<1>13. CASE InterruptFinally
  <2>1. /\ \A s \in Runs, q \in Processes : s > run => children'[s][q] = "none"
        /\ \A s \in Runs, q \in Processes : children'[s][q] = "deaf" => q = Driver
        /\ \A s \in Runs, q \in Processes :
              children'[s][q] \in Alive =>
                 /\ s # run => children'[s][q] = children[s][q]
                 /\ s = run => children'[s][q] = "deaf"
    BY <1>1, <1>13, LifeSignal DEF InterruptFinally
  <2>2. /\ launcher'.pc = "idle" /\ cut_short' = cut_short \cup {run} /\ killed' = killed
        /\ launcher.pc # "idle" /\ unlisted' = unlisted
    BY <1>13 DEF InterruptFinally, NoLauncher
  <2>3. AliveListed'
    BY <2>2 DEF AliveListed
  <2>4. Unborn' /\ OnlyDriverDeaf'
    BY <1>1, <2>1 DEF Unborn, OnlyDriverDeaf
  <2>5. NoneLeftBehind'
    <3> SUFFICES ASSUME NEW s \in Runs, NEW q \in Processes, children'[s][q] \in Alive,
                        s < run \/ launcher'.pc = "idle"
                 PROVE  \/ s \in killed' \/ <<s, q>> \in unlisted'
                        \/ (s \in cut_short' /\ q = Driver /\ children'[s][q] = "deaf")
      BY <1>1 DEF NoneLeftBehind, Alive
    <3>1. CASE s = run
      BY <2>1, <2>2, <3>1
    <3>2. CASE s # run
      <4>1. ~(s > run) /\ s \in Nat
        BY <1>3, <2>1 DEF Alive
      <4>2. s < run
        BY <1>1, <3>2, <4>1
      <4>3. QED
        BY <2>1, <2>2, <3>2, <4>2 DEF NoneLeftBehind, Alive
    <3>3. QED
      BY <3>1, <3>2
  <2>6. QED
    BY <2>3, <2>4, <2>5
<1>14. CASE KillLauncher
  <2>1. /\ launcher'.pc = "idle" /\ killed' = killed \cup {run} /\ cut_short' = cut_short
        /\ UNCHANGED <<children, unlisted>>
    BY <1>14 DEF KillLauncher, NoLauncher, programVars
  <2>2. Unborn' /\ OnlyDriverDeaf' /\ AliveListed'
    BY <1>1, <2>1 DEF Unborn, OnlyDriverDeaf, AliveListed
  <2>3. \A s \in Runs, q \in Processes : children[s][q] \in Alive /\ s # run => s < run
    BY <1>1, <1>3 DEF Unborn, Alive
  <2>4. NoneLeftBehind'
    BY <1>1, <2>1, <2>3 DEF NoneLeftBehind, Alive
  <2>5. QED
    BY <2>2, <2>4
<1>15. CASE WaitOrKill
  <2>1. /\ \A s \in Runs, q \in Processes : s # run => children'[s][q] = children[s][q]
        /\ \A q \in Processes :
              children'[run][q] = IF q \in launched /\ children[run][q] \in Running
                                  THEN "ended" ELSE children[run][q]
    BY <1>1, <1>2, <1>15 DEF WaitOrKill
  <2>2. launcher.pc = "wait" /\ launcher'.pc = "save" /\ unlisted' = unlisted
    BY <1>2, <1>15 DEF WaitOrKill, endVars
  <2>3. \A q \in Processes : children'[run][q] \in Alive => <<run, q>> \in unlisted
    BY <1>1, <2>1, <2>2 DEF AliveListed, Listed, Alive, Running
  <2>4. Unborn'
    <3>1. \A r \in Runs : r > run => r # run
      BY <1>1, <1>3
    <3>2. QED
      BY <1>1, <2>1, <3>1 DEF Unborn
  <2>5. OnlyDriverDeaf' /\ AliveListed'
    BY <1>1, <2>1, <2>2, <2>3 DEF OnlyDriverDeaf, AliveListed, Listed, Alive
  <2>6. NoneLeftBehind'
    BY <1>1, <1>3, <1>15, <2>1, <2>2 DEF NoneLeftBehind, WaitOrKill, endVars
  <2>7. QED
    BY <2>4, <2>5, <2>6
<1>16. CASE SaveMeta
  <2>1. /\ launcher.pc = "save" /\ launcher'.pc = "idle"
        /\ UNCHANGED <<children, killed, cut_short, unlisted>>
    BY <1>16 DEF SaveMeta, NoLauncher, endVars
  <2>2. \A q \in Processes : children[run][q] \in Alive => <<run, q>> \in unlisted
    BY <2>1 DEF AliveListed, Listed
  <2>3. Unborn' /\ OnlyDriverDeaf' /\ AliveListed'
    BY <1>1, <2>1 DEF Unborn, OnlyDriverDeaf, AliveListed
  <2>4. \A s \in Runs, q \in Processes :
           children[s][q] \in Alive => s < run \/ <<s, q>> \in unlisted
    BY <1>1, <1>3, <2>2 DEF Unborn, Alive
  <2>5. NoneLeftBehind'
    BY <1>1, <2>1, <2>4 DEF NoneLeftBehind, Alive
  <2>6. QED
    BY <2>3, <2>5
<1>17. QED
  BY <1>5, <1>6, <1>7, <1>8, <1>9, <1>10, <1>11, <1>12, <1>13, <1>14, <1>15, <1>16 DEF LauncherStep

\* So do those of the programs and of the person who uses them.
LEMMA LifePrograms ==
    ASSUME TypeOK, Launching, LifeInv, NEW r \in Runs, NEW p \in Processes,
           ProgramStep(r, p) \/ Pkill(r, p) \/ FlowEnds(r)
    PROVE  LifeInv'
<1>1. /\ UNCHANGED <<launcher, run, launched, killed, cut_short, unlisted>>
      /\ run \in 0 .. MaxRuns
  BY DEF ProgramStep, StartListener, ShutdownHandler, FlowEnds, Pkill, endVars, TypeOK
<1>2. \A s \in Runs : s \in Nat
  BY DEF Runs
<1> USE DEF LifeInv
<1>3. \A s \in Runs, q \in Processes : children[s][q] # "none" => s <= run
  BY <1>1, <1>2 DEF Unborn
<1>4. ASSUME NEW q \in Processes, NEW status \in Status, SetChild(r, q, status),
             children[r][q] # "none", status \in Alive => children[r][q] = "starting" /\ status = "up"
      PROVE  LifeInv'
  <2>1. /\ children' \in [Runs -> [Processes -> Status]]
        /\ children'[r][q] = status
        /\ \A s \in Runs, t \in Processes : s # r \/ t # q => children'[s][t] = children[s][t]
    BY <1>4, SetChildEffect
  <2>2. Unborn'
    BY <1>1, <1>2, <1>4, <2>1 DEF Unborn
  <2>3. OnlyDriverDeaf'
    BY <1>4, <2>1 DEF OnlyDriverDeaf, Alive
  <2>4. \A s \in Runs, t \in Processes :
           children'[s][t] \in Alive =>
              /\ children[s][t] \in Alive
              /\ children'[s][t] # children[s][t] =>
                    children[s][t] = "starting" /\ children'[s][t] = "up"
    BY <1>4, <2>1 DEF Alive
  <2>5. AliveListed'
    <3> SUFFICES ASSUME launcher.pc # "idle", NEW t \in Processes, children'[run][t] \in Alive
                 PROVE  Listed(t)'
      BY <1>1 DEF AliveListed
    <3>1. run \in Runs
      BY DEF Launching
    <3>2. Listed(t)
      BY <2>4, <3>1 DEF AliveListed
    <3>3. QED
      BY <1>1, <2>4, <3>1, <3>2 DEF Listed, IsNext
  <2>6. NoneLeftBehind'
    BY <1>1, <2>4 DEF NoneLeftBehind, Alive
  <2>7. QED
    BY <2>2, <2>3, <2>5, <2>6
<1>5. CASE StartListener(r, p)
  <2>1. PICK status \in {"failed", "up"} : SetChild(r, p, status) /\ children[r][p] = "starting"
    BY <1>5 DEF StartListener
  <2>2. QED
    BY <1>4, <2>1 DEF Status, Running, Alive
<1>6. CASE ShutdownHandler(r, p)
  BY <1>4, <1>6 DEF ShutdownHandler, Status, Alive
<1>7. CASE FlowEnds(r)
  BY <1>4, <1>7, LauncherAssumption DEF FlowEnds, Status, Alive
<1>8. CASE Pkill(r, p)
  <2>1. /\ Signal(r, {p}) /\ (launcher.pc = "idle" \/ r < run)
        /\ children[r][p] \in {"starting", "up"}
    BY <1>8 DEF Pkill
  <2>2. r <= run
    BY <1>3, <2>1
  <2>3. /\ \A s \in Runs, q \in Processes : s > run => children'[s][q] = "none"
        /\ \A s \in Runs, q \in Processes : children'[s][q] = "deaf" => q = Driver
        /\ \A s \in Runs, q \in Processes :
              children'[s][q] \in Alive =>
                 /\ children[s][q] \in Alive
                 /\ s # r => children'[s][q] = children[s][q]
                 /\ s = r /\ q \in {p} => children'[s][q] = "deaf"
                 /\ children'[s][q] # children[s][q] => s = r /\ q = Driver /\ Sending(r)
    BY <2>1, <2>2, LifeSignal
  <2>4. \A q \in Processes : q # p => children'[r][q] = children[r][q]
    BY <2>1, SignalEffect
  <2>5. Unborn' /\ OnlyDriverDeaf'
    BY <1>1, <2>3 DEF Unborn, OnlyDriverDeaf
  <2>6. AliveListed'
    <3> SUFFICES ASSUME launcher.pc # "idle", NEW t \in Processes, children'[run][t] \in Alive
                 PROVE  Listed(t)'
      BY <1>1 DEF AliveListed
    <3>1. run \in Runs /\ r # run
      BY <1>1, <1>2, <2>1 DEF Launching
    <3>2. children'[run][t] = children[run][t]
      BY <2>3, <3>1
    <3>3. QED
      BY <1>1, <3>2 DEF AliveListed, Listed, IsNext
  <2>7. r \in killed \/ <<r, p>> \in unlisted
    BY <2>1 DEF NoneLeftBehind
  <2>8. NoneLeftBehind'
    BY <1>1, <2>3, <2>4, <2>7 DEF NoneLeftBehind, Alive
  <2>9. QED
    BY <2>5, <2>6, <2>8
<1>9. QED
  BY <1>5, <1>6, <1>7, <1>8 DEF ProgramStep

\* Every step keeps it.
LEMMA LifeNext == TypeOK /\ Launching /\ LifeInv /\ [Next]_vars => LifeInv'
<1> SUFFICES ASSUME TypeOK, Launching, LifeInv, [Next]_vars PROVE LifeInv'
  OBVIOUS
<1>1. CASE UNCHANGED <<children, run, launcher, launched, killed, cut_short, unlisted>>
  BY <1>1 DEF LifeInv, Unborn, OnlyDriverDeaf, AliveListed, Listed, IsNext, NoneLeftBehind
<1>2. CASE Configure \/ Preflight \/ UNCHANGED vars
  BY <1>1, <1>2 DEF Configure, Preflight, vars, runVars, programVars, outputVars, endVars
<1>3. ASSUME NEW wanted \in SUBSET Processes \ {{}}, Start(wanted) PROVE LifeInv'
  <2>1. /\ launcher.pc = "idle" /\ run' = run + 1 /\ run \in 0 .. MaxRuns /\ run' \in Runs
        /\ launcher'.pc = "open"
        /\ UNCHANGED <<children, killed, cut_short, unlisted>>
    BY <1>3, LauncherAssumption DEF Start, endVars, TypeOK, Runs
  <2>2. \A s \in Runs : s \in Nat
    BY DEF Runs
  <2>3. Unborn'
    <3>1. \A s \in Runs : s > run' => s > run
      BY <2>1, <2>2
    <3>2. QED
      BY <2>1, <3>1 DEF LifeInv, Unborn
  <2>4. AliveListed'
    <3>1. run' > run
      BY <2>1
    <3>2. \A p \in Processes : children[run'][p] = "none"
      BY <2>1, <3>1 DEF LifeInv, Unborn
    <3>3. QED
      BY <2>1, <3>2 DEF AliveListed, Alive
  <2>5. OnlyDriverDeaf' /\ NoneLeftBehind'
    BY <2>1 DEF LifeInv, OnlyDriverDeaf, NoneLeftBehind
  <2>6. QED
    BY <2>3, <2>4, <2>5 DEF LifeInv
<1>4. CASE LauncherStep \/ StartFails \/ Interrupt \/ InterruptAlone
           \/ InterruptFinally \/ KillLauncher
  BY <1>4, LifeLauncher
<1>5. ASSUME NEW r \in Runs, NEW p \in Processes, ProgramStep(r, p) \/ Pkill(r, p) \/ FlowEnds(r)
      PROVE  LifeInv'
  BY <1>5, LifePrograms
<1>6. \E p \in Processes : TRUE
  BY LauncherAssumption
<1>7. QED
  BY <1>2, <1>3, <1>4, <1>5, <1>6 DEF Next

\* It holds in every reachable state.
LEMMA LifeInvariant == Spec => [](TypeOK /\ Launching /\ LifeInv)
<1>1. Init => LifeInv
  BY DEF Init, LaunchInit, NoLauncher, LifeInv, Unborn, OnlyDriverDeaf, AliveListed, NoneLeftBehind
<1>2. QED
  BY <1>1, LifeNext, TypeInvariant, PTL DEF Spec

\* A program that still runs when its launcher has gone is about to end, or
\* its launcher was killed, or interrupted alone before it had listed the
\* program, or it is P0, deaf, and the finally block was cut short, for any
\* number of programs and runs.
THEOREM FinallyCleansUp == Spec => []NoneLeftBehind
<1>1. LifeInv => NoneLeftBehind
  BY DEF LifeInv
<1>2. QED
  BY <1>1, LifeInvariant, PTL

----------------------------------------------------------------------------
(* The log files and run-meta.json.                                        *)

\* The log of every program that was started, and of the one that is being
\* started, is of this run.
LogInv ==
    /\ launcher.pc # "idle" => \A p \in launched : logs[p] = run
    /\ launcher.pc \in {"spawn", "append"} =>
          \A p \in Processes : IsNext(p) => logs[p] = run
    /\ MetaDescribesLogs

\* Every step keeps it.
LEMMA LogNext == TypeOK /\ Launching /\ LogInv /\ [Next]_vars => LogInv'
<1> SUFFICES ASSUME TypeOK, Launching, LogInv, [Next]_vars PROVE LogInv'
  OBVIOUS
<1>1. /\ launched \subseteq Processes /\ launcher.todo \subseteq Processes
      /\ launcher \in [pc : LauncherPc, todo : SUBSET Processes]
      /\ logs \in [Processes -> 0 .. MaxRuns]
      /\ killed \subseteq Runs /\ cut_short \subseteq Runs
  BY DEF TypeOK, LauncherState
<1> USE DEF LogInv
<1>2. CASE UNCHANGED <<launcher, run, launched, logs, meta, killed, cut_short, unlisted>>
  BY <1>2 DEF MetaDescribesLogs, IsNext
<1>3. CASE Configure \/ Preflight \/ UNCHANGED vars
  BY <1>2, <1>3 DEF Configure, Preflight, vars, runVars, outputVars, endVars
<1>4. CASE \/ \E r \in Runs, p \in Processes : ProgramStep(r, p) \/ Pkill(r, p)
           \/ \E r \in Runs : FlowEnds(r)
  BY <1>2, <1>4 DEF ProgramStep, StartListener, ShutdownHandler, Pkill, FlowEnds,
                    outputVars, endVars
<1>5. CASE \E wanted \in SUBSET Processes \ {{}} : Start(wanted)
  BY <1>5 DEF Start, MetaDescribesLogs
<1>6. CASE OpenLog
  <2>1. PICK p \in launcher.todo : IsNext(p) /\ logs' = [logs EXCEPT ![p] = run]
    BY <1>6 DEF OpenLog
  <2>2. /\ launcher.pc = "open" /\ launcher'.pc = "spawn" /\ launcher'.todo = launcher.todo
        /\ UNCHANGED <<run, launched>>
    BY <1>1, <1>6 DEF OpenLog
  <2>3. \A q \in Processes : IsNext(q)' => q = p
    BY <1>1, <2>1, <2>2, NextIsOne DEF IsNext
  <2>4. QED
    BY <1>1, <2>1, <2>2, <2>3 DEF MetaDescribesLogs
<1>7. CASE Spawn
  BY <1>1, <1>7 DEF Spawn, IsNext, MetaDescribesLogs, outputVars
<1>8. CASE AppendLaunched
  BY <1>1, <1>8 DEF AppendLaunched, MetaDescribesLogs, outputVars
<1>9. CASE TimeIsUp \/ StartFails \/ Interrupt \/ InterruptAlone \/ Terminate \/ WaitOrKill
  BY <1>1, <1>9 DEF TimeIsUp, StartFails, Interrupt, InterruptAlone, Terminate, WaitOrKill,
                    MetaDescribesLogs, outputVars
<1>10. CASE InterruptFinally \/ KillLauncher
  BY <1>10 DEF InterruptFinally, KillLauncher, NoLauncher, MetaDescribesLogs, outputVars
<1>11. CASE SaveMeta
  BY <1>11 DEF SaveMeta, NoLauncher, MetaDescribesLogs
<1>12. QED
  BY <1>3, <1>4, <1>5, <1>6, <1>7, <1>8, <1>9, <1>10, <1>11 DEF Next, LauncherStep

\* It holds in every reachable state.
LEMMA LogInvariant == Spec => [](TypeOK /\ Launching /\ LogInv)
<1>1. Init => LogInv
  BY DEF Init, LaunchInit, NoLauncher, NoMeta, LogInv, MetaDescribesLogs
<1>2. QED
  BY <1>1, LogNext, TypeInvariant, PTL DEF Spec

\* run-meta.json names the latest run and only programs whose logs are of it,
\* whenever no launcher runs, unless the latest was ended half way.
THEOREM MetaIsOfItsLogs == Spec => []MetaDescribesLogs
<1>1. LogInv => MetaDescribesLogs
  BY DEF LogInv
<1>2. QED
  BY <1>1, LogInvariant, PTL

----------------------------------------------------------------------------
(* What a preflight that passed means for the run.                         *)

\* A port is free of the programs of the other runs.
FreeOfOthers(p) ==
    \A r \in Runs : r # run => children[r][p] \notin {"up", "stopping", "deaf"}

\* The launcher has still to start p.
Pending(p) ==
    /\ p \in launcher.todo
    /\ launcher.pc \in {"open", "spawn"} \/ (launcher.pc = "append" /\ ~IsNext(p))

PassedInv ==
    ready = "passed" =>
        /\ launcher.pc = "idle"
        /\ IsConfigured(hosts_cfg)
        /\ \A p \in Owned : ~PortTaken(p)
        /\ \A r \in Runs, p \in Processes : children[r][p] # "starting"

\* The programs of the run come to free ports, and read one and the same file.
LaunchedInv ==
    ready = "launched" =>
        /\ run \in Runs
        /\ IsConfigured(hosts_cfg)
        /\ \A p \in Processes :
              /\ loaded[p] \in {NoFile, hosts_cfg}
              /\ children[run][p] # "failed"
              /\ \A r \in Runs : r # run => children[r][p] # "starting"
              /\ Pending(p) => children[run][p] = "none" /\ FreeOfOthers(p)
              /\ children[run][p] = "starting" => FreeOfOthers(p)

ReadyInv == PassedInv /\ LaunchedInv

\* A step that only ends programs, or tells them to end.
Ending ==
    \A r \in Runs, p \in Processes :
        \/ children'[r][p] = children[r][p]
        \/ children[r][p] \in {"starting", "up"} /\ children'[r][p] \in {"stopping", "deaf"}
        \/ children[r][p] \in Running /\ children'[r][p] = "ended"

\* Such a step keeps ReadyInv, if nothing becomes pending by it.
LEMMA ReadyEnding ==
    ASSUME ReadyInv, Ending,
           UNCHANGED <<hosts_cfg, run, loaded, ready>>,
           ready = "passed" => launcher'.pc = "idle",
           ready = "launched" => \A p \in Processes : Pending(p)' => Pending(p)
    PROVE  ReadyInv'
<1>1. PassedInv'
  <2> SUFFICES ASSUME ready = "passed" PROVE PassedInv'
    BY DEF PassedInv
  <2>1. \A r \in Runs, p \in Processes : children[r][p] # "starting"
    BY DEF ReadyInv, PassedInv
  <2>2. \A r \in Runs, p \in Processes :
           /\ children'[r][p] # "starting"
           /\ children'[r][p] \in {"up", "stopping", "deaf"} =>
                 children[r][p] \in {"up", "stopping", "deaf"}
    BY <2>1 DEF Ending
  <2>3. Owned' = Owned
    BY DEF Owned, DetectMyNode, NodesHere, IsSingleHost, IsConfigured, NodeIp, ProcessesForNode
  <2>4. Owned \subseteq Processes
    BY DEF Owned, ProcessesForNode
  <2>5. \A p \in Owned : ~PortTaken(p) => ~PortTaken(p)'
    BY <2>2, <2>4 DEF PortTaken
  <2>6. IsConfigured(hosts_cfg)' /\ \A p \in Owned : ~PortTaken(p)'
    BY <2>5 DEF ReadyInv, PassedInv, IsConfigured, NodeIp
  <2>7. QED
    BY <2>2, <2>3, <2>6 DEF PassedInv
<1>2. LaunchedInv'
  <2> SUFFICES ASSUME ready = "launched" PROVE LaunchedInv'
    BY DEF LaunchedInv
  <2>1. run \in Runs /\ IsConfigured(hosts_cfg)'
    BY DEF ReadyInv, LaunchedInv, IsConfigured, NodeIp
  <2> SUFFICES ASSUME NEW p \in Processes
               PROVE  /\ loaded[p]' \in {NoFile, hosts_cfg'}
                      /\ children[run][p]' # "failed"
                      /\ \A r \in Runs : r # run => children[r][p]' # "starting"
                      /\ Pending(p)' => children[run][p]' = "none" /\ FreeOfOthers(p)'
                      /\ children[run][p]' = "starting" => FreeOfOthers(p)'
    BY <2>1 DEF LaunchedInv
  <2>2. /\ loaded[p] \in {NoFile, hosts_cfg}
        /\ children[run][p] # "failed"
        /\ \A r \in Runs : r # run => children[r][p] # "starting"
        /\ Pending(p) => children[run][p] = "none" /\ FreeOfOthers(p)
        /\ children[run][p] = "starting" => FreeOfOthers(p)
    BY DEF ReadyInv, LaunchedInv
  <2>3. FreeOfOthers(p) => FreeOfOthers(p)'
    BY <2>2 DEF FreeOfOthers, Ending
  <2>4. /\ children'[run][p] # "failed"
        /\ children'[run][p] = "starting" => children[run][p] = "starting"
        /\ children[run][p] = "none" => children'[run][p] = "none"
        /\ \A r \in Runs : r # run => children'[r][p] # "starting"
    BY <2>1, <2>2 DEF Ending, Running
  <2>5. QED
    BY <2>2, <2>3, <2>4
<1>3. QED
  BY <1>1, <1>2 DEF ReadyInv

\* A signal only tells programs to end.
LEMMA SignalEnding ==
    ASSUME TypeOK, NEW r \in Runs, NEW ps \in SUBSET Processes, Signal(r, ps)
    PROVE  Ending
BY SignalEffect DEF Ending

\* The steps of the launcher after its call.
LEMMA ReadyLauncher ==
    ASSUME TypeOK, Launching, ReadyInv,
           LauncherStep \/ StartFails \/ Interrupt \/ InterruptAlone
           \/ InterruptFinally \/ KillLauncher
    PROVE  ReadyInv'
<1>1. run \in Runs /\ UNCHANGED <<run, hosts_cfg, loaded, ready>> /\ launcher.pc # "idle"
  BY DEF Launching, LauncherStep, OpenLog, Spawn, AppendLaunched, TimeIsUp, Terminate, WaitOrKill,
         SaveMeta, StartFails, Interrupt, InterruptAlone,
                InterruptFinally, KillLauncher, configVars, programVars
<1>2. ready # "passed"
  BY <1>1 DEF ReadyInv, PassedInv
<1>3. /\ children \in [Runs -> [Processes -> Status]]
      /\ launched \subseteq Processes /\ launcher.todo \subseteq Processes
      /\ launcher \in [pc : LauncherPc, todo : SUBSET Processes]
  BY DEF TypeOK, LauncherState
<1>4. CASE OpenLog
  <2>1. Ending /\ \A p \in Processes : Pending(p)' => Pending(p)
    BY <1>3, <1>4 DEF OpenLog, Ending, Pending
  <2>2. QED
    BY <1>1, <1>2, <2>1, ReadyEnding
<1>5. CASE TimeIsUp \/ StartFails \/ SaveMeta \/ KillLauncher \/ InterruptAlone
  <2>1. Ending /\ \A p \in Processes : ~Pending(p)'
    BY <1>3, <1>5 DEF TimeIsUp, StartFails, SaveMeta, KillLauncher, InterruptAlone, NoLauncher, programVars,
                      Ending, Pending
  <2>2. QED
    BY <1>1, <1>2, <2>1, ReadyEnding
<1>6. CASE AppendLaunched
  <2>1. PICK p \in launcher.todo :
            IsNext(p) /\ launcher' = [launcher EXCEPT !.todo = @ \ {p},
                            !.pc = IF launcher.todo = {p} THEN "running" ELSE "open"]
    BY <1>6 DEF AppendLaunched
  <2>2. /\ launcher.pc = "append" /\ launcher'.todo = launcher.todo \ {p}
        /\ launcher'.pc \in {"running", "open"}
    BY <1>3, <1>6, <2>1 DEF AppendLaunched
  <2>3. \A q \in Processes : IsNext(q) => q = p
    BY <1>3, <2>1, NextIsOne
  <2>4. \A q \in Processes : Pending(q)' => Pending(q)
    BY <2>2, <2>3 DEF Pending
  <2>5. Ending
    BY <1>6 DEF AppendLaunched, programVars, Ending
  <2>6. QED
    BY <1>1, <1>2, <2>4, <2>5, ReadyEnding
<1>7. CASE Interrupt
  <2>1. Ending
    BY <1>1, <1>7, SignalEnding DEF Interrupt
  <2>2. \A p \in Processes : ~Pending(p)'
    BY <1>3, <1>7 DEF Interrupt, Pending
  <2>3. QED
    BY <1>1, <1>2, <2>1, <2>2, ReadyEnding
<1>8. CASE InterruptFinally
  <2>1. Ending
    BY <1>1, <1>8, SignalEnding DEF InterruptFinally
  <2>2. \A p \in Processes : ~Pending(p)'
    BY <1>8 DEF InterruptFinally, NoLauncher, Pending
  <2>3. QED
    BY <1>1, <1>2, <2>1, <2>2, ReadyEnding
<1>9. CASE Terminate
  <2>1. Ending
    BY <1>1, <1>3, <1>9, SignalEnding DEF Terminate
  <2>2. \A p \in Processes : ~Pending(p)'
    BY <1>3, <1>9 DEF Terminate, Pending
  <2>3. QED
    BY <1>1, <1>2, <2>1, <2>2, ReadyEnding
<1>10. CASE WaitOrKill
  <2>1. Ending
    BY <1>1, <1>3, <1>10 DEF WaitOrKill, Ending
  <2>2. \A p \in Processes : ~Pending(p)'
    BY <1>3, <1>10 DEF WaitOrKill, Pending
  <2>3. QED
    BY <1>1, <1>2, <2>1, <2>2, ReadyEnding
<1>11. CASE Spawn
  <2>1. PICK p \in launcher.todo : IsNext(p) /\ SetChild(run, p, "starting")
    BY <1>11 DEF Spawn
  <2>2. /\ p \in Processes /\ "starting" \in Status
        /\ launcher.pc = "spawn" /\ launcher'.pc = "append" /\ launcher'.todo = launcher.todo
    BY <1>3, <1>11, <2>1 DEF Spawn, Status, Running
  <2>3. /\ children'[run][p] = "starting"
        /\ \A s \in Runs, q \in Processes : s # run \/ q # p => children'[s][q] = children[s][q]
    BY <1>1, <2>1, <2>2, SetChildEffect
  <2> SUFFICES ASSUME ready = "launched" PROVE LaunchedInv'
    BY <1>1, <1>2 DEF ReadyInv, PassedInv, LaunchedInv
  <2>4. IsConfigured(hosts_cfg)'
    BY <1>1 DEF ReadyInv, LaunchedInv, IsConfigured, NodeIp
  <2>5. Pending(p) /\ IsNext(p)'
    BY <2>1, <2>2 DEF Pending, IsNext
  <2>6. \A q \in Processes : Pending(q)' => Pending(q) /\ q # p
    BY <2>2, <2>5 DEF Pending
  <2>7. \A q \in Processes : FreeOfOthers(q) => FreeOfOthers(q)'
    BY <1>1, <2>3 DEF FreeOfOthers
  <2>8. QED
    BY <1>1, <2>2, <2>3, <2>4, <2>5, <2>6, <2>7 DEF ReadyInv, LaunchedInv
<1>12. QED
  BY <1>4, <1>5, <1>6, <1>7, <1>8, <1>9, <1>10, <1>11 DEF LauncherStep

\* A program that starts finds its port free.
LEMMA ReadyStartListener ==
    ASSUME TypeOK, ReadyInv, NEW r \in Runs, NEW p \in Processes, StartListener(r, p)
    PROVE  ReadyInv'
<1>1. /\ UNCHANGED <<hosts_cfg, launcher, run, ready>>
      /\ children[r][p] = "starting"
      /\ SetChild(r, p, IF PortTaken(p) THEN "failed" ELSE "up")
      /\ loaded' = IF r = run THEN [loaded EXCEPT ![p] = hosts_cfg] ELSE loaded
  BY DEF StartListener, configVars
<1>2. loaded \in [Processes -> Content \cup {NoFile}]
  BY DEF TypeOK
<1>3. ready # "passed"
  BY <1>1 DEF ReadyInv, PassedInv
<1> SUFFICES ASSUME ready = "launched" PROVE LaunchedInv'
  BY <1>1, <1>3 DEF ReadyInv, PassedInv, LaunchedInv
<1>4. r = run /\ FreeOfOthers(p)
  BY <1>1 DEF ReadyInv, LaunchedInv
<1>5. ~PortTaken(p)
  BY <1>1, <1>4 DEF PortTaken, FreeOfOthers
<1>6. /\ children'[run][p] = "up"
      /\ \A s \in Runs, q \in Processes : s # run \/ q # p => children'[s][q] = children[s][q]
  BY <1>1, <1>4, <1>5, SetChildEffect DEF Status, Running
<1>7. \A q \in Processes : /\ FreeOfOthers(q) => FreeOfOthers(q)'
                           /\ Pending(q)' => Pending(q)
  BY <1>1, <1>6 DEF FreeOfOthers, Pending, IsNext
<1>8. ~Pending(p)
  BY <1>1, <1>4 DEF ReadyInv, LaunchedInv
<1>9. \A q \in Processes : loaded'[q] \in {NoFile, hosts_cfg}
  BY <1>1, <1>2, <1>4 DEF ReadyInv, LaunchedInv
<1>10. IsConfigured(hosts_cfg)'
  BY <1>1 DEF ReadyInv, LaunchedInv, IsConfigured, NodeIp
<1>11. QED
  BY <1>1, <1>4, <1>6, <1>7, <1>8, <1>9, <1>10 DEF ReadyInv, LaunchedInv

\* Every step keeps ReadyInv.
LEMMA ReadyNext == TypeOK /\ Launching /\ LifeInv /\ ReadyInv /\ [Next]_vars => ReadyInv'
<1> SUFFICES ASSUME TypeOK, Launching, LifeInv, ReadyInv, [Next]_vars PROVE ReadyInv'
  OBVIOUS
<1>1. children \in [Runs -> [Processes -> Status]] /\ run \in 0 .. MaxRuns
  BY DEF TypeOK
<1>2. CASE Configure \/ UNCHANGED vars
  <2>1. UNCHANGED <<launcher, run, launched, children, loaded>>
    BY <1>2 DEF Configure, vars, runVars, programVars
  <2>2. CASE ready' = "no"
    BY <2>2 DEF ReadyInv, PassedInv, LaunchedInv
  <2>3. CASE ready' # "no"
    <3>1. hosts_cfg' = hosts_cfg /\ ready' = ready
      BY <1>2, <2>3 DEF Configure, vars, configVars
    <3>2. Ending /\ \A p \in Processes : Pending(p)' => Pending(p)
      BY <2>1 DEF Ending, Pending, IsNext
    <3>3. ready = "passed" => launcher'.pc = "idle"
      BY <2>1 DEF ReadyInv, PassedInv
    <3>4. QED
      BY <2>1, <3>1, <3>2, <3>3, ReadyEnding
  <2>4. QED
    BY <2>2, <2>3
<1>3. CASE Preflight
  <2>1. /\ ready' = "passed" /\ UNCHANGED <<hosts_cfg, launcher, children>>
        /\ launcher.pc = "idle" /\ IsConfigured(hosts_cfg)
        /\ \A r \in Runs, p \in Processes : children[r][p] # "starting"
    BY <1>3 DEF Preflight, configVars, runVars, programVars
  <2>2. \A p \in Owned : ~PortTaken(p)
    BY <1>3 DEF Preflight, CheckPorts, Owned
  <2>3. Owned' = Owned /\ IsConfigured(hosts_cfg)'
    BY <2>1 DEF Owned, DetectMyNode, NodesHere, IsSingleHost, IsConfigured, NodeIp, ProcessesForNode
  <2>4. \A p \in Owned : ~PortTaken(p)'
    BY <2>1, <2>2 DEF PortTaken
  <2>5. QED
    BY <2>1, <2>3, <2>4 DEF ReadyInv, PassedInv, LaunchedInv
<1>4. ASSUME NEW wanted \in SUBSET Processes \ {{}}, Start(wanted) PROVE ReadyInv'
  <2> SUFFICES ASSUME ready' # "no" PROVE ReadyInv'
    BY DEF ReadyInv, PassedInv, LaunchedInv
  <2>1. /\ ready' = "launched" /\ ready = "passed" /\ wanted \subseteq Owned
        /\ run' = run + 1 /\ loaded' = [p \in Processes |-> NoFile]
        /\ launcher' = [pc |-> "open", todo |-> wanted]
        /\ UNCHANGED <<hosts_cfg, children>>
    BY <1>4 DEF Start
  <2>2. run' \in Runs /\ run' > run
    BY <1>1, <1>4, LauncherAssumption DEF Start, Runs
  <2>3. \A p \in Processes : children[run'][p] = "none"
    BY <2>2 DEF LifeInv, Unborn
  <2>4. /\ IsConfigured(hosts_cfg)'
        /\ \A p \in Owned : ~PortTaken(p)
        /\ \A r \in Runs, p \in Processes : children[r][p] # "starting"
    BY <2>1 DEF ReadyInv, PassedInv, IsConfigured, NodeIp
  <2>5. \A p \in wanted : FreeOfOthers(p)'
    BY <2>1, <2>4 DEF PortTaken, FreeOfOthers
  <2>6. QED
    BY <2>1, <2>2, <2>3, <2>4, <2>5 DEF ReadyInv, PassedInv, LaunchedInv, Pending
<1>5. CASE LauncherStep \/ StartFails \/ Interrupt \/ InterruptAlone
           \/ InterruptFinally \/ KillLauncher
  BY <1>5, ReadyLauncher
<1>6. ASSUME NEW r \in Runs, NEW p \in Processes, ShutdownHandler(r, p) \/ Pkill(r, p) \/ FlowEnds(r)
      PROVE  ReadyInv'
  <2>1. UNCHANGED <<hosts_cfg, launcher, run, loaded, ready>>
    BY <1>6 DEF ShutdownHandler, Pkill, FlowEnds, configVars
  <2>2. ASSUME NEW q \in Processes, SetChild(r, q, "ended"), children[r][q] \in Running
        PROVE  Ending
    BY <2>2, <1>1, SetChildEffect DEF Ending, Status
  <2>3. Ending
    BY <1>6, <2>2, SignalEnding, LauncherAssumption
       DEF ShutdownHandler, Pkill, FlowEnds, Running
  <2>4. \A q \in Processes : Pending(q)' => Pending(q)
    BY <2>1 DEF Pending, IsNext
  <2>5. ready = "passed" => launcher'.pc = "idle"
    BY <2>1 DEF ReadyInv, PassedInv
  <2>6. QED
    BY <2>1, <2>3, <2>4, <2>5, ReadyEnding
<1>7. ASSUME NEW r \in Runs, NEW p \in Processes, StartListener(r, p) PROVE ReadyInv'
  BY <1>7, ReadyStartListener
<1>8. \E p \in Processes : TRUE
  BY LauncherAssumption
<1>9. QED
  BY <1>2, <1>3, <1>4, <1>5, <1>6, <1>7, <1>8 DEF Next, ProgramStep

\* It holds in every reachable state.
LEMMA ReadyInvariant == Spec => [](TypeOK /\ ReadyInv)
<1>1. Init => ReadyInv
  BY DEF Init, LaunchInit, ReadyInv, PassedInv, LaunchedInv
<1>2. QED
  BY <1>1, ReadyNext, LifeInvariant, PTL DEF Spec

\* A program that loads a configured file takes no peer to be on localhost.
LEMMA ConfiguredHosts ==
    ASSUME NEW content \in Content, IsConfigured(content), NEW q \in Processes
    PROVE  LoadHosts(content)[q] # Localhost
<1>1. PICK n : n \in Nodes
  BY HostsAssumption
<1>2. content # Empty
  BY <1>1 DEF IsConfigured, NodeIp, Empty
<1>3. content \in [Nodes -> Address \cup {Unset}]
  BY <1>2 DEF Content, Whole
<1>4. ProcessNode[q] \in Nodes
  BY HostsAssumption
<1>5. NodeIp(content, ProcessNode[q]) \in Address
  BY <1>3, <1>4 DEF IsConfigured, NodeIp
<1>6. QED
  BY <1>4, <1>5, HostsAssumption DEF LoadHosts, IsConfigured

\* After a preflight that passed, a run of the processes this machine owns
\* binds every port, and no program of it takes a peer to be on localhost,
\* unless the file was changed in between.
THEOREM PreflightHolds == Spec => []PreflightMeans
<1>1. TypeOK /\ ReadyInv => PreflightMeans
  <2> SUFFICES ASSUME TypeOK, ReadyInv, ready = "launched", NEW p \in Processes
               PROVE  /\ children[run][p] # "failed"
                      /\ loaded[p] # NoFile =>
                            \A q \in Processes : LoadHosts(loaded[p])[q] # Localhost
    BY DEF PreflightMeans
  <2>1. /\ children[run][p] # "failed" /\ loaded[p] \in {NoFile, hosts_cfg}
        /\ IsConfigured(hosts_cfg) /\ hosts_cfg \in Content
    BY DEF ReadyInv, LaunchedInv, TypeOK
  <2>2. QED
    BY <2>1, ConfiguredHosts
<1>2. QED
  BY <1>1, ReadyInvariant, PTL

=============================================================================
