-------------------------------- MODULE Link --------------------------------
(***************************************************************************)
(* What a node of infra/messaging.py promises to those that send to one    *)
(* peer, and to the peer: messages arrive in the order they were sent in,  *)
(* until a connection fails.  From then on messages may be lost and may    *)
(* overtake each other, but none arrives twice or out of nowhere.          *)
(***************************************************************************)
EXTENDS SequencesExt

CONSTANT Message

VARIABLES
    sent,       \* the messages sent so far, in the order they were sent in
    pending,    \* those that are on their way
    inbox,      \* those that have arrived, in the order they arrived in
    failed      \* a connection has failed

vars == <<sent, pending, inbox, failed>>

Init ==
    /\ sent = <<>>
    /\ pending = {}
    /\ inbox = <<>>
    /\ failed = FALSE

\* m was sent before n.
Before(m, n) ==
    \E i, j \in DOMAIN sent : i < j /\ sent[i] = m /\ sent[j] = n

Send(m) ==
    /\ m \notin Range(sent)
    /\ sent' = Append(sent, m)
    /\ pending' = pending \cup {m}
    /\ UNCHANGED <<inbox, failed>>

Arrive(m) ==
    /\ failed \/ \A n \in pending : ~Before(n, m)
    /\ inbox' = Append(inbox, m)
    /\ pending' = pending \ {m}
    /\ UNCHANGED <<sent, failed>>

Drop(gone) ==
    /\ failed
    /\ pending' = pending \ gone
    /\ UNCHANGED <<sent, inbox, failed>>

Fail ==
    /\ failed' = TRUE
    /\ UNCHANGED <<sent, pending, inbox>>

Next ==
    \/ \E m \in Message : Send(m)
    \/ \E m \in pending : Arrive(m)
    \/ \E gone \in SUBSET pending : Drop(gone)
    \/ Fail

Spec == Init /\ [][Next]_vars

=============================================================================
