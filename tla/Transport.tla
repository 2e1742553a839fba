----------------------------- MODULE Transport -----------------------------
(***************************************************************************)
(* The transport of infra/messaging.py, between one sending Node and one   *)
(* receiving Node.  Threads of the sender call send, which share one       *)
(* persistent connection, made by the first of them and guarded by a lock; *)
(* at the receiver every connection has a reader thread that puts what it  *)
(* reads into the inbox.  A send that fails discards the connection, and   *)
(* the next one makes another.                                             *)
(*                                                                         *)
(* A step is one section under _links_lock, one lock-free read of          *)
(* _out_locks, or one frame.  Frames do not mix: a socket is used under    *)
(* the lock that was made for it, or after it was closed.  Discarding a    *)
(* failed link and closing its socket are one step: a frame that another   *)
(* thread writes in between goes into a broken connection and is lost, as  *)
(* one written before the failure was noticed.                             *)
(***************************************************************************)
EXTENDS Naturals, SequencesExt

CONSTANTS
    Senders,        \* the threads that call send
    MaxSends,       \* bound: how many sends each of them calls
    MaxConnections, \* bound: how many connections are made
    MaxFailures,    \* bound: how many failures there are
    MayClose        \* whether close may be called while threads still send

ASSUME TransportAssumption ==
    /\ MaxSends \in Nat \ {0}
    /\ MaxConnections \in Nat
    /\ MaxFailures \in Nat
    /\ MayClose \in BOOLEAN

Message == Senders \X (1..MaxSends)

Conn == 1..MaxConnections

None == 0       \* no connection

VARIABLES
    out_link,       \* _out_links: the connection to the peer
    out_lock,       \* _out_locks: the connection whose lock is entered there
    conns,          \* the connections made so far
    pc,             \* the step of each sender
    sock,           \* the connection each sender holds
    call,           \* how many sends each sender has begun
    inbox,          \* the queue of the receiving node
    sent,           \* history: the messages handed to a connection
    failures        \* how many failures there were

nodeVars == <<out_link, out_lock>>
senderVars == <<pc, sock, call>>
vars == <<nodeVars, conns, senderVars, inbox, sent, failures>>

NewConnection ==
    [closed |-> FALSE, broken |-> FALSE, stream |-> <<>>, read |-> <<>>]

Init ==
    /\ out_link = None
    /\ out_lock = None
    /\ conns = <<>>
    /\ pc = [t \in Senders |-> "link"]
    /\ sock = [t \in Senders |-> None]
    /\ call = [t \in Senders |-> 1]
    /\ inbox = <<>>
    /\ sent = <<>>
    /\ failures = 0

Goto(t, step) == pc' = [pc EXCEPT ![t] = step]

\* Mutant: the caller sends once too often.
EndCallTooLate(t) ==
    IF call[t] <= MaxSends
    THEN Goto(t, "link") /\ call' = [call EXCEPT ![t] = @ + 1]
    ELSE Goto(t, "done") /\ UNCHANGED call

\* send returns, or raises: the caller goes on with its next message.
EndCall(t) ==
    IF call[t] < MaxSends
    THEN Goto(t, "link") /\ call' = [call EXCEPT ![t] = @ + 1]
    ELSE Goto(t, "done") /\ UNCHANGED call

----------------------------------------------------------------------------
(* _get_link                                                               *)

GetLink(t) ==
    /\ pc[t] = "link"
    /\ IF out_link # None
       THEN Goto(t, "lookup") /\ sock' = [sock EXCEPT ![t] = out_link]
       ELSE Goto(t, "connect") /\ UNCHANGED sock
    /\ UNCHANGED <<nodeVars, conns, call, inbox, sent, failures>>

Connect(t) ==
    /\ pc[t] = "connect"
    /\ Len(conns) < MaxConnections
    /\ conns' = Append(conns, NewConnection)
    /\ sock' = [sock EXCEPT ![t] = Len(conns')]
    /\ Goto(t, "register")
    /\ UNCHANGED <<nodeVars, call, inbox, sent, failures>>

\* The peer does not answer until the deadline.
GiveUp(t) ==
    /\ pc[t] = "connect"
    /\ failures < MaxFailures
    /\ failures' = failures + 1
    /\ EndCall(t)
    /\ UNCHANGED <<nodeVars, conns, sock, inbox, sent>>

\* Mutant: the race for the same peer is not noticed.
RegisterBlindly(t) ==
    /\ pc[t] = "register"
    /\ out_link' = sock[t]
    /\ out_lock' = sock[t]
    /\ Goto(t, "lookup")
    /\ UNCHANGED <<conns, sock, call, inbox, sent, failures>>

\* Mutant: the loser of the race goes on with the socket it has closed.
RegisterKeepsClosed(t) ==
    /\ pc[t] = "register"
    /\ IF out_link # None
       THEN conns' = [conns EXCEPT ![sock[t]].closed = TRUE] /\ UNCHANGED nodeVars
       ELSE out_link' = sock[t] /\ out_lock' = sock[t] /\ UNCHANGED conns
    /\ Goto(t, "lookup")
    /\ UNCHANGED <<sock, call, inbox, sent, failures>>

\* Mutant: the loser of the race leaves its socket open.
RegisterLeaks(t) ==
    /\ pc[t] = "register"
    /\ sock' = [sock EXCEPT ![t] = IF out_link # None THEN out_link ELSE @]
    /\ out_link' = sock'[t]
    /\ out_lock' = sock'[t]
    /\ Goto(t, "lookup")
    /\ UNCHANGED <<conns, call, inbox, sent, failures>>

Register(t) ==
    /\ pc[t] = "register"
    /\ IF out_link # None
       THEN /\ conns' = [conns EXCEPT ![sock[t]].closed = TRUE]
            /\ sock' = [sock EXCEPT ![t] = out_link]
            /\ UNCHANGED nodeVars
       ELSE /\ out_link' = sock[t]
            /\ out_lock' = sock[t]
            /\ UNCHANGED <<conns, sock>>
    /\ Goto(t, "lookup")
    /\ UNCHANGED <<call, inbox, sent, failures>>

----------------------------------------------------------------------------
(* send                                                                    *)

\* _out_locks[target_pid] raises KeyError when another thread's send has
\* failed since.
LookUpLock(t) ==
    /\ pc[t] = "lookup"
    /\ IF out_lock # None THEN Goto(t, "send") /\ UNCHANGED call ELSE EndCall(t)
    /\ UNCHANGED <<nodeVars, conns, sock, inbox, sent, failures>>

\* The bytes are handed to TCP, which takes them of a broken connection too.
SendFrame(t) ==
    /\ pc[t] = "send"
    /\ ~conns[sock[t]].closed
    /\ conns' = [conns EXCEPT ![sock[t]].stream = Append(@, <<t, call[t]>>)]
    /\ sent' = Append(sent, <<t, call[t]>>)
    /\ EndCall(t)
    /\ UNCHANGED <<nodeVars, sock, inbox, failures>>

\* Mutant: the failed link stays registered.
SendFailsKeepsLink(t) ==
    /\ pc[t] = "send"
    /\ conns[sock[t]].closed \/ conns[sock[t]].broken
    /\ conns' = [conns EXCEPT ![sock[t]].closed = TRUE]
    /\ EndCall(t)
    /\ UNCHANGED <<nodeVars, sock, inbox, sent, failures>>

\* Whatever link is registered by now is discarded; only the own one is closed.
SendFails(t) ==
    /\ pc[t] = "send"
    /\ conns[sock[t]].closed \/ conns[sock[t]].broken
    /\ out_link' = None
    /\ out_lock' = None
    /\ conns' = [conns EXCEPT ![sock[t]].closed = TRUE]
    /\ EndCall(t)
    /\ UNCHANGED <<sock, inbox, sent, failures>>

----------------------------------------------------------------------------
(* _reader_loop                                                            *)

ReadFrame(c) ==
    /\ conns[c].read = <<>> /\ conns[c].stream # <<>>
    /\ conns' = [conns EXCEPT ![c].read = <<Head(conns[c].stream)>>, ![c].stream = Tail(@)]
    /\ UNCHANGED <<nodeVars, senderVars, inbox, sent, failures>>

PutInbox(c) ==
    /\ conns[c].read # <<>>
    /\ inbox' = inbox \o conns[c].read
    /\ conns' = [conns EXCEPT ![c].read = <<>>]
    /\ UNCHANGED <<nodeVars, senderVars, sent, failures>>

\* The reader of a broken connection gets an error in place of the rest.
ReaderStops(c) ==
    /\ conns[c].broken
    /\ conns[c].read = <<>> /\ conns[c].stream # <<>>
    /\ conns' = [conns EXCEPT ![c].stream = <<>>]
    /\ UNCHANGED <<nodeVars, senderVars, inbox, sent, failures>>

----------------------------------------------------------------------------
(* Failures.                                                               *)

Break(c) ==
    /\ ~conns[c].broken /\ ~conns[c].closed
    /\ failures < MaxFailures
    /\ failures' = failures + 1
    /\ conns' = [conns EXCEPT ![c].broken = TRUE]
    /\ UNCHANGED <<nodeVars, senderVars, inbox, sent>>

\* close: the node drops its link, and leaves _out_locks alone.
Close ==
    /\ MayClose
    /\ out_link # None
    /\ failures < MaxFailures
    /\ failures' = failures + 1
    /\ conns' = [conns EXCEPT ![out_link].closed = TRUE]
    /\ out_link' = None
    /\ UNCHANGED <<out_lock, senderVars, inbox, sent>>

----------------------------------------------------------------------------

SenderStep(t) ==
    \/ GetLink(t) \/ Connect(t) \/ Register(t)
    \/ LookUpLock(t) \/ SendFrame(t) \/ SendFails(t)

ReaderStep(c) == ReadFrame(c) \/ PutInbox(c) \/ ReaderStops(c)

Step == (\E t \in Senders : SenderStep(t)) \/ (\E c \in DOMAIN conns : ReaderStep(c))

Failure == Close \/ (\E t \in Senders : GiveUp(t)) \/ (\E c \in DOMAIN conns : Break(c))

Next == Step \/ Failure

Spec == Init /\ [][Next]_vars

\* The threads of both nodes run: as long as one can move, one does.
FairSpec == Spec /\ WF_vars(Step)

----------------------------------------------------------------------------
(* Properties.                                                             *)

Connection == [closed : BOOLEAN, broken : BOOLEAN,
               stream : Seq(Message), read : Seq(Message)]

\* Every variable has its type.
TypeOK ==
    /\ out_link \in Conn \cup {None}
    /\ out_lock \in Conn \cup {None}
    /\ conns \in Seq(Connection) /\ Len(conns) <= MaxConnections
    /\ pc \in [Senders -> {"link", "connect", "register", "lookup", "send", "done"}]
    /\ sock \in [Senders -> Conn \cup {None}]
    /\ call \in [Senders -> 1..MaxSends]
    /\ inbox \in Seq(Message)
    /\ sent \in Seq(Message)
    /\ failures \in 0..MaxFailures

\* The frames of a connection that have not reached the inbox, oldest first.
Frames(c) == conns[c].read \o conns[c].stream

OnTheWay == UNION {Range(Frames(c)) : c \in DOMAIN conns}

\* The promise, for the messages of all senders together.
Promise == INSTANCE Link WITH
    pending <- OnTheWay,
    failed <- failures > 0

\* As long as nothing fails, messages arrive in the order of sending though
\* several threads race to connect; and a failure, with the reconnections and
\* the two readers it leads to, makes no message arrive twice.
KeepsPromise == Promise!Spec

\* Without a failure every message arrives.
EveryMessageArrives == <>(failures > 0 \/ Range(inbox) = Message)

\* At most one connection is left open when all calls have ended without a
\* failure.
OneConnection ==
    failures = 0 /\ (\A t \in Senders : pc[t] = "done")
        => \A c, d \in DOMAIN conns : ~conns[c].closed /\ ~conns[d].closed => c = d

\* A registered link is usable: it has the lock that was made for it and no
\* thread has closed it, though threads that hold an older link fail later.
LinkUsable ==
    out_link # None => out_lock = out_link /\ ~conns[out_link].closed

----------------------------------------------------------------------------
(* What the documentation claims and the code does not keep.               *)

\* Two sends of one thread to the same peer are delivered in the order they
\* were issued in.
DeliveredInOrder ==
    \A i, j \in DOMAIN inbox :
        i < j /\ inbox[i][1] = inbox[j][1] => inbox[i][2] < inbox[j][2]

=============================================================================
