---------------------------- MODULE HostsConfig ----------------------------
(***************************************************************************)
(* The configuration file config/hosts.cfg, the tool that rewrites it in   *)
(* place (src/infra/configure_hosts.py) and the functions that read it:    *)
(* read_config of the infrastructure's tools and the loaders of the        *)
(* programs.                                                               *)
(*                                                                         *)
(* A content is the [nodes] section.  A file that is opened for writing is *)
(* empty until it is closed, and an empty file is one that every reader    *)
(* accepts.  One person works on the machine: the tool is not run twice at *)
(* once, nor the file edited by hand while the tool runs.                  *)
(***************************************************************************)
EXTENDS Naturals, Sequences

CONSTANTS
    NodeKeys,       \* NODE_KEYS, in order
    ProcessNode,    \* PROCESS_NODE, which is also the [process_hosts] section
    Address,        \* IP addresses
    LocalIps,       \* those among them that local_ips finds on this machine
    Entries,        \* the addresses of the nodes that somebody enters
    Localhost,      \* "localhost"
    Unset,          \* the empty string
    NoFile,         \* the content of a backup that does not exist
    MaxCalls        \* bound: commands given and edits made by hand

Nodes == {NodeKeys[i] : i \in DOMAIN NodeKeys}
Processes == DOMAIN ProcessNode

Whole == [Nodes -> Address \cup {Unset}]
Empty == [n \in {} |-> Unset]
Content == Whole \cup {Empty}

ASSUME HostsAssumption ==
    /\ NodeKeys \in Seq(Nodes)
    /\ Nodes # {}
    /\ ProcessNode \in [Processes -> Nodes]
    /\ LocalIps \subseteq Address
    /\ Entries \subseteq [Nodes -> Address]
    /\ Localhost \notin Address /\ Unset \notin Address /\ Localhost # Unset
    /\ NoFile \notin Content
    /\ MaxCalls \in Nat

VARIABLES
    hosts_cfg,      \* config/hosts.cfg
    backup,         \* BACKUP_PATH
    tool,           \* what configure_hosts.py is in the middle of
    calls,          \* how many commands and edits there were
    original,       \* history: the file as the tool found it before its backup
    torn            \* history: the tool ended while it wrote the backup

configVars == <<hosts_cfg, backup, tool, calls, original, torn>>

Idle == [pc |-> "idle", new |-> Empty]

ConfigInit ==
    /\ hosts_cfg = [n \in Nodes |-> Unset]
    /\ backup = NoFile
    /\ tool = Idle
    /\ calls = 0
    /\ original = NoFile
    /\ torn = FALSE

----------------------------------------------------------------------------
(* Reading the file.                                                       *)

\* A node that is not in the file is as good as one without an address.
NodeIp(content, n) == IF n \in DOMAIN content THEN content[n] ELSE Unset

IsConfigured(content) == \A n \in Nodes : NodeIp(content, n) # Unset

IsSingleHost(content) ==
    IsConfigured(content) /\ \A m, n \in Nodes : NodeIp(content, m) = NodeIp(content, n)

NodesHere(content) == {i \in DOMAIN NodeKeys : NodeIp(content, NodeKeys[i]) \in LocalIps}

\* Which node this machine is: the first with an address of this machine, the
\* first of all when one address serves every node, or none.
DetectMyNode(content) ==
    IF NodesHere(content) # {}
    THEN {NodeKeys[CHOOSE i \in NodesHere(content) : \A j \in NodesHere(content) : i <= j]}
    ELSE IF IsSingleHost(content) THEN {NodeKeys[1]} ELSE {}

ProcessesForNode(n) == {p \in Processes : ProcessNode[p] = n}

\* What a program takes for the host of process p.
LoadHosts(content) ==
    [p \in Processes |->
        IF NodeIp(content, ProcessNode[p]) = Unset
        THEN Localhost ELSE NodeIp(content, ProcessNode[p])]

----------------------------------------------------------------------------
(* configure_hosts.py                                                      *)

Call == calls < MaxCalls /\ calls' = calls + 1

\* Mutant: every call takes a backup.
ApplyIpsBacksUp(new) ==
    /\ tool = Idle
    /\ hosts_cfg \in Whole /\ hosts_cfg # new
    /\ Call
    /\ tool' = [pc |-> "create", new |-> new]
    /\ original' = IF backup = NoFile THEN hosts_cfg ELSE original
    /\ UNCHANGED <<hosts_cfg, backup, torn>>

\* apply_ips gives up when the file lacks a node's line, as an empty file
\* does, and when there is nothing to change.
ApplyIps(new) ==
    /\ tool = Idle
    /\ hosts_cfg \in Whole /\ hosts_cfg # new
    /\ Call
    /\ IF backup = NoFile
       THEN /\ tool' = [pc |-> "create", new |-> new]
            /\ original' = hosts_cfg
       ELSE /\ tool' = [pc |-> "truncate", new |-> new]
            /\ UNCHANGED original
    /\ UNCHANGED <<hosts_cfg, backup, torn>>

CreateBackup ==
    /\ tool.pc = "create"
    /\ backup' = Empty
    /\ tool' = [tool EXCEPT !.pc = "copy"]
    /\ UNCHANGED <<hosts_cfg, calls, original, torn>>

\* Mutant: what is backed up is the new content.
CopyUpdated ==
    /\ tool.pc = "copy"
    /\ backup' = tool.new
    /\ tool' = [tool EXCEPT !.pc = "truncate"]
    /\ UNCHANGED <<hosts_cfg, calls, original, torn>>

CopyBackup ==
    /\ tool.pc = "copy"
    /\ backup' = hosts_cfg
    /\ tool' = [tool EXCEPT !.pc = "truncate"]
    /\ UNCHANGED <<hosts_cfg, calls, original, torn>>

TruncateConfig ==
    /\ tool.pc = "truncate"
    /\ hosts_cfg' = Empty
    /\ tool' = [tool EXCEPT !.pc = "write"]
    /\ UNCHANGED <<backup, calls, original, torn>>

WriteConfig ==
    /\ tool.pc = "write"
    /\ hosts_cfg' = tool.new
    /\ tool' = Idle
    /\ UNCHANGED <<backup, calls, original, torn>>

\* Mutant: nobody looks whether there is a backup.
RestoreBlindly ==
    /\ tool = Idle
    /\ Call
    /\ tool' = [pc |-> "truncate", new |-> backup]
    /\ UNCHANGED <<hosts_cfg, backup, original, torn>>

\* restore copies the backup, whatever it holds, over the file.
Restore ==
    /\ tool = Idle
    /\ backup # NoFile
    /\ Call
    /\ tool' = [pc |-> "truncate", new |-> backup]
    /\ UNCHANGED <<hosts_cfg, backup, original, torn>>

\* The tool is interrupted or the machine goes down between two steps.
Crash ==
    /\ tool # Idle
    /\ tool' = Idle
    /\ torn' = (torn \/ tool.pc = "copy")
    /\ UNCHANGED <<hosts_cfg, backup, calls, original>>

\* The other way to enter the addresses, with an editor.
EditByHand(new) ==
    /\ tool = Idle
    /\ hosts_cfg # new
    /\ Call
    /\ hosts_cfg' = new
    /\ UNCHANGED <<backup, tool, original, torn>>

ConfigNext ==
    \/ \E new \in Entries : ApplyIps(new)
    \/ CreateBackup
    \/ CopyBackup
    \/ TruncateConfig
    \/ WriteConfig
    \/ Restore
    \/ Crash
    \/ \E new \in Entries : EditByHand(new)

=============================================================================
