-------------------------- MODULE TransportProofs --------------------------
(***************************************************************************)
(* Proofs that Transport implements Link, and that its links are usable,   *)
(* for any number of sending threads, sends, connections and failures.     *)
(*                                                                         *)
(* The inductive invariant has three layers: which connection a thread may *)
(* hold and who may close it (Held, Own, LinkUsable), what is certain as   *)
(* long as nothing has failed (Quiet), and where the messages are (Fresh,  *)
(* SentOnce, OneRead, OnceEach, InOrder).  The refinement follows from the *)
(* last, because a step either leaves the frames of every connection       *)
(* alone, or appends a new one, takes the oldest or drops the rest of one. *)
(***************************************************************************)
EXTENDS Transport, SequenceTheorems, TLAPS

\* A thread that is to use a connection holds one that was made.
Held ==
    /\ out_link \in 0..Len(conns) /\ out_lock \in 0..Len(conns)
    /\ \A t \in Senders :
          /\ sock[t] \in 0..Len(conns)
          /\ pc[t] \in {"register", "lookup", "send"} => sock[t] # None

\* A connection that is not registered yet is open, and known to the thread alone
\* that made it.
Own ==
    \A t \in Senders : pc[t] = "register" =>
        /\ sock[t] # out_link
        /\ ~conns[sock[t]].closed
        /\ \A u \in Senders : u # t => sock[u] # sock[t]

\* As long as nothing has failed, the registered connection stays registered, and
\* all threads and all frames are there.
OneLink == \A t \in Senders : pc[t] \in {"lookup", "send"} => sock[t] = out_link

AllThere ==
    \A c \in DOMAIN conns :
        /\ ~conns[c].broken
        /\ Frames(c) # <<>> => c = out_link
        /\ ~conns[c].closed => c = out_link \/ \E t \in Senders : pc[t] = "register" /\ sock[t] = c

Quiet == failures = 0 => OneLink /\ AllThere

\* The message that a thread is about to send is a new one.
Fresh ==
    \A t \in Senders : \A n \in 1..MaxSends :
        <<t, n>> \in Range(sent) => n < call[t] \/ (n = call[t] /\ pc[t] = "done")

SentOnce == \A i, j \in DOMAIN sent : sent[i] = sent[j] => i = j

\* The reader has at most one message in its hands.
OneRead == \A c \in DOMAIN conns : conns[c].read # <<>> => Len(conns[c].read) = 1

\* A message that is on its way was sent, and is in one place of one connection.
OnceEach ==
    \A c \in DOMAIN conns : \A i \in DOMAIN Frames(c) :
        /\ Frames(c)[i] \in Range(sent)
        /\ \A d \in DOMAIN conns : \A j \in DOMAIN Frames(d) :
              Frames(c)[i] = Frames(d)[j] => c = d /\ i = j

\* A connection keeps the order of sending.
InOrder ==
    \A c \in DOMAIN conns : \A i, j \in DOMAIN Frames(c) :
        i < j => Promise!Before(Frames(c)[i], Frames(c)[j])

Links == TypeOK /\ Held /\ Own /\ LinkUsable

Places == Fresh /\ SentOnce /\ OneRead /\ OnceEach /\ InOrder

IInv == Links /\ Quiet /\ Places

----------------------------------------------------------------------------
(* Sequences of messages, and what a step changes of a connection.         *)

\* The messages in a sequence are those at its places.
LEMMA InRange ==
    ASSUME NEW S, NEW s \in Seq(S), NEW x
    PROVE  x \in Range(s) <=> \E i \in 1..Len(s) : s[i] = x
  BY RangeEquality

\* Sequences of one element, in front or at the end of another.
LEMMA OneFirst ==
    ASSUME NEW S, NEW x \in S, NEW s \in Seq(S)
    PROVE  /\ <<x>> \in Seq(S) /\ Len(<<x>>) = 1 /\ <<x>>[1] = x
           /\ <<x>> \o s \in Seq(S) /\ <<x>> \o s # <<>>
           /\ (<<x>> \o s)[1] = x /\ Tail(<<x>> \o s) = s
<1>1. <<x>> \in Seq(S) /\ Len(<<x>>) = 1 /\ <<x>>[1] = x
  OBVIOUS
<1>2. Len(s) \in Nat
  BY LenProperties
<1>3. /\ <<x>> \o s \in Seq(S) /\ Len(<<x>> \o s) = 1 + Len(s)
      /\ \A i \in 1..(1 + Len(s)) : (<<x>> \o s)[i] = IF i <= 1 THEN <<x>>[i] ELSE s[i - 1]
  BY <1>1, ConcatProperties
<1>4. <<x>> \o s # <<>> /\ (<<x>> \o s)[1] = x
  BY <1>1, <1>2, <1>3, EmptySeq
<1>5. /\ Tail(<<x>> \o s) \in Seq(S) /\ Len(Tail(<<x>> \o s)) = Len(s)
      /\ \A i \in 1..Len(s) : Tail(<<x>> \o s)[i] = (<<x>> \o s)[i + 1]
  BY <1>2, <1>3, <1>4, HeadTailProperties
<1>6. \A i \in 1..Len(s) : Tail(<<x>> \o s)[i] = s[i]
  BY <1>2, <1>3, <1>5
<1>7. Tail(<<x>> \o s) = s
  BY <1>5, <1>6, SeqEqual
<1>8. QED
  BY <1>1, <1>3, <1>4, <1>7

LEMMA HeadAndTail ==
    ASSUME NEW S, NEW s \in Seq(S), s # <<>>
    PROVE  Head(s) \in S /\ Tail(s) \in Seq(S) /\ <<Head(s)>> \o Tail(s) = s
<1> DEFINE both == <<Head(s)>> \o Tail(s)
<1>1. /\ Head(s) \in S /\ Head(s) = s[1] /\ Tail(s) \in Seq(S)
      /\ Len(s) \in Nat \ {0} /\ Len(Tail(s)) = Len(s) - 1
      /\ \A i \in 1..(Len(s) - 1) : Tail(s)[i] = s[i + 1]
  BY HeadTailProperties, EmptySeq
<1>2. <<Head(s)>> \in Seq(S) /\ Len(<<Head(s)>>) = 1 /\ <<Head(s)>>[1] = s[1]
  BY <1>1
<1>3. /\ both \in Seq(S) /\ Len(both) = 1 + Len(Tail(s))
      /\ \A i \in 1..(1 + Len(Tail(s))) :
            both[i] = IF i <= 1 THEN <<Head(s)>>[i] ELSE Tail(s)[i - 1]
  BY <1>1, <1>2, ConcatProperties
<1> HIDE DEF both
<1>4. Len(both) = Len(s) /\ \A i \in 1..Len(both) : both[i] = s[i]
  BY <1>1, <1>2, <1>3
<1>5. both = s
  BY <1>3, <1>4, SeqEqual
<1>6. QED
  BY <1>1, <1>5 DEF both

LEMMA AppendPlaces ==
    ASSUME NEW S, NEW s \in Seq(S), NEW x \in S
    PROVE  /\ Append(s, x) \in Seq(S)
           /\ DOMAIN s = 1..Len(s) /\ Len(s) \in Nat
           /\ DOMAIN Append(s, x) = 1..(Len(s) + 1)
           /\ \A i \in DOMAIN s : Append(s, x)[i] = s[i]
           /\ Append(s, x)[Len(s) + 1] = x
           /\ Range(Append(s, x)) = Range(s) \cup {x}
<1>1. /\ Append(s, x) \in Seq(S)
      /\ DOMAIN s = 1..Len(s) /\ Len(s) \in Nat
      /\ DOMAIN Append(s, x) = 1..(Len(s) + 1)
      /\ \A i \in DOMAIN s : Append(s, x)[i] = s[i]
      /\ Append(s, x)[Len(s) + 1] = x
  BY AppendProperties, LenProperties
<1>2. \A y : y \in Range(Append(s, x)) <=> \E i \in 1..(Len(s) + 1) : Append(s, x)[i] = y
  <2> DEFINE l == Append(s, x)
  <2>1. l \in Seq(S) /\ Len(l) = Len(s) + 1
    BY AppendProperties
  <2> HIDE DEF l
  <2>2. \A y : y \in Range(l) <=> \E i \in 1..(Len(s) + 1) : l[i] = y
    BY <2>1, InRange
  <2>3. QED
    BY <2>2 DEF l
<1>3. \A y : y \in Range(s) <=> \E i \in 1..Len(s) : s[i] = y
  BY InRange
<1>4. ASSUME NEW y PROVE y \in Range(Append(s, x)) <=> y \in Range(s) \cup {x}
  <2>1. ASSUME NEW i \in 1..(Len(s) + 1), Append(s, x)[i] = y PROVE y \in Range(s) \cup {x}
    <3>1. CASE i = Len(s) + 1
      BY <1>1, <2>1, <3>1
    <3>2. CASE i \in 1..Len(s)
      BY <1>1, <1>3, <2>1, <3>2
    <3>3. QED
      BY <1>1, <3>1, <3>2
  <2>2. ASSUME y \in Range(s) PROVE y \in Range(Append(s, x))
    <3>1. PICK i \in 1..Len(s) : s[i] = y
      BY <1>3, <2>2
    <3>2. i \in 1..(Len(s) + 1) /\ Append(s, x)[i] = y
      BY <1>1, <3>1
    <3>3. QED
      BY <1>2, <3>2
  <2>3. x \in Range(Append(s, x))
    <3>1. Len(s) + 1 \in 1..(Len(s) + 1)
      BY <1>1
    <3>2. QED
      BY <1>1, <1>2, <3>1
  <2>4. QED
    BY <1>2, <2>1, <2>2, <2>3
<1>5. QED
  BY <1>1, <1>4

LEMMA TailPlaces ==
    ASSUME NEW S, NEW s \in Seq(S), s # <<>>
    PROVE  /\ Head(s) \in S /\ Head(s) = s[1]
           /\ Tail(s) \in Seq(S)
           /\ DOMAIN s = 1..Len(s) /\ Len(s) \in Nat \ {0}
           /\ DOMAIN Tail(s) = 1..(Len(s) - 1)
           /\ \A i \in 1..(Len(s) - 1) : Tail(s)[i] = s[i + 1]
  BY HeadTailProperties, LenProperties, EmptySeq

\* Only the connection c has changed.
Changed(c) ==
    /\ conns' \in Seq(Connection) /\ Len(conns') = Len(conns)
    /\ \A d \in DOMAIN conns : d # c => conns'[d] = conns[d] /\ Frames(d)' = Frames(d)

Conns == conns \in Seq(Connection)

LEMMA ConnsTyped ==
    ASSUME Conns
    PROVE  /\ DOMAIN conns = 1..Len(conns) /\ Len(conns) \in Nat
           /\ \A c \in DOMAIN conns :
                /\ conns[c] \in Connection
                /\ conns[c].closed \in BOOLEAN /\ conns[c].broken \in BOOLEAN
                /\ conns[c].read \in Seq(Message) /\ conns[c].stream \in Seq(Message)
                /\ Frames(c) \in Seq(Message)
                /\ Len(Frames(c)) = Len(conns[c].read) + Len(conns[c].stream)
<1>1. /\ DOMAIN conns = 1..Len(conns) /\ Len(conns) \in Nat
      /\ \A c \in DOMAIN conns : conns[c] \in Connection
  BY LenProperties, ElementOfSeq DEF Conns
<1>2. \A c \in DOMAIN conns :
        /\ conns[c].closed \in BOOLEAN /\ conns[c].broken \in BOOLEAN
        /\ conns[c].read \in Seq(Message) /\ conns[c].stream \in Seq(Message)
  BY <1>1 DEF Connection
<1>3. QED
  BY <1>1, <1>2, ConcatProperties DEF Frames

LEMMA Replace ==
    ASSUME Conns, NEW c \in DOMAIN conns, NEW r \in Connection,
           conns' = [conns EXCEPT ![c] = r]
    PROVE  Changed(c) /\ conns'[c] = r /\ Frames(c)' = r.read \o r.stream
<1>1. /\ conns' \in Seq(Connection) /\ Len(conns') = Len(conns)
      /\ \A d \in DOMAIN conns : conns'[d] = IF d = c THEN r ELSE conns[d]
  BY ConnsTyped, ExceptSeq DEF Conns
<1>2. QED
  BY <1>1 DEF Changed, Frames

LEMMA CloseOne ==
    ASSUME Conns, NEW c \in DOMAIN conns, conns' = [conns EXCEPT ![c].closed = TRUE]
    PROVE  /\ Changed(c) /\ Frames(c)' = Frames(c)
           /\ conns'[c].closed /\ conns'[c].broken = conns[c].broken
           /\ conns'[c].read = conns[c].read
<1> DEFINE r == [conns[c] EXCEPT !.closed = TRUE]
<1>1. /\ r \in Connection /\ r.closed /\ r.broken = conns[c].broken
      /\ r.read = conns[c].read /\ r.stream = conns[c].stream
  BY ConnsTyped DEF Connection
<1>2. conns' = [conns EXCEPT ![c] = r]
  OBVIOUS
<1> HIDE DEF r
<1>3. QED
  BY <1>1, <1>2, Replace DEF Frames

LEMMA BreakOne ==
    ASSUME Conns, NEW c \in DOMAIN conns, conns' = [conns EXCEPT ![c].broken = TRUE]
    PROVE  /\ Changed(c) /\ Frames(c)' = Frames(c)
           /\ conns'[c].closed = conns[c].closed
           /\ conns'[c].read = conns[c].read
<1> DEFINE r == [conns[c] EXCEPT !.broken = TRUE]
<1>1. /\ r \in Connection /\ r.closed = conns[c].closed
      /\ r.read = conns[c].read /\ r.stream = conns[c].stream
  BY ConnsTyped DEF Connection
<1>2. conns' = [conns EXCEPT ![c] = r]
  OBVIOUS
<1> HIDE DEF r
<1>3. QED
  BY <1>1, <1>2, Replace DEF Frames

LEMMA WriteOne ==
    ASSUME Conns, NEW c \in DOMAIN conns, NEW m \in Message,
           conns' = [conns EXCEPT ![c].stream = Append(@, m)]
    PROVE  /\ Changed(c) /\ Frames(c)' = Append(Frames(c), m)
           /\ conns'[c].closed = conns[c].closed /\ conns'[c].broken = conns[c].broken
           /\ conns'[c].read = conns[c].read
<1> DEFINE r == [conns[c] EXCEPT !.stream = Append(conns[c].stream, m)]
<1>0. Append(conns[c].stream, m) \in Seq(Message)
  BY ConnsTyped, AppendProperties
<1>1. /\ r \in Connection /\ r.closed = conns[c].closed /\ r.broken = conns[c].broken
      /\ r.read = conns[c].read /\ r.stream = Append(conns[c].stream, m)
  BY <1>0, ConnsTyped DEF Connection
<1>2. conns' = [conns EXCEPT ![c] = r]
  OBVIOUS
<1>3. ASSUME NEW a \in Seq(Message), NEW b \in Seq(Message)
      PROVE  a \o Append(b, m) = Append(a \o b, m)
  <2>1. a \o b \in Seq(Message) /\ <<m>> \in Seq(Message)
    BY ConcatProperties
  <2>2. Append(b, m) = b \o <<m>> /\ Append(a \o b, m) = (a \o b) \o <<m>>
    BY <2>1, AppendIsConcat
  <2>3. QED
    BY <2>1, <2>2, ConcatAssociative
<1> HIDE DEF r
<1>4. conns[c].read \o Append(conns[c].stream, m) = Append(conns[c].read \o conns[c].stream, m)
  BY <1>3, ConnsTyped
<1>5. QED
  BY <1>1, <1>2, <1>4, Replace DEF Frames

LEMMA ReadOne ==
    ASSUME Conns, NEW c \in DOMAIN conns, ReadFrame(c)
    PROVE  /\ Changed(c) /\ Frames(c)' = Frames(c)
           /\ conns'[c].closed = conns[c].closed /\ conns'[c].broken = conns[c].broken
           /\ Len(conns'[c].read) = 1
<1> DEFINE first == <<Head(conns[c].stream)>>
           rest == Tail(conns[c].stream)
           mid == [conns EXCEPT ![c].read = first]
           half == [conns[c] EXCEPT !.read = first]
           r == [half EXCEPT !.stream = rest]
<1>1. Head(conns[c].stream) \in Message /\ rest \in Seq(Message) /\ first \o rest = conns[c].stream
  BY ConnsTyped, HeadAndTail DEF ReadFrame
<1>2. first \in Seq(Message) /\ Len(first) = 1
  BY <1>1
<1>3. mid[c] = half /\ conns' = [mid EXCEPT ![c].stream = rest]
  BY ConnsTyped DEF ReadFrame
<1> HIDE DEF first, rest
<1>4. conns' = [conns EXCEPT ![c] = r]
  BY <1>3
<1>5. /\ half \in Connection /\ half.closed = conns[c].closed /\ half.broken = conns[c].broken
      /\ half.read = first
  BY <1>2, ConnsTyped DEF Connection
<1> HIDE DEF half
<1>6. /\ r \in Connection /\ r.closed = conns[c].closed /\ r.broken = conns[c].broken
      /\ r.read = first /\ r.stream = rest
  BY <1>1, <1>5 DEF Connection
<1> HIDE DEF r
<1>7. Frames(c) = conns[c].stream
  BY ConnsTyped, ConcatEmptySeq DEF Frames, ReadFrame
<1>8. QED
  BY <1>1, <1>2, <1>4, <1>6, <1>7, Replace

LEMMA DeliverOne ==
    ASSUME Conns, OneRead, NEW c \in DOMAIN conns, PutInbox(c)
    PROVE  /\ Changed(c) /\ Frames(c) # <<>> /\ Frames(c)' = Tail(Frames(c))
           /\ inbox' = inbox \o <<Frames(c)[1]>>
           /\ conns'[c].closed = conns[c].closed /\ conns'[c].broken = conns[c].broken
           /\ conns'[c].read = <<>>
<1> DEFINE r == [conns[c] EXCEPT !.read = <<>>]
           m == conns[c].read[1]
<1>1. /\ r \in Connection /\ r.closed = conns[c].closed /\ r.broken = conns[c].broken
      /\ r.read = <<>> /\ r.stream = conns[c].stream
  BY ConnsTyped, EmptySeq DEF Connection
<1>2. conns' = [conns EXCEPT ![c] = r]
  BY DEF PutInbox
<1>3. conns[c].read = <<m>> /\ m \in Message
  <2>1. Len(conns[c].read) = 1
    BY DEF OneRead, PutInbox
  <2>2. \A l \in Seq(Message) : Len(l) = 1 => l = <<l[1]>> /\ l[1] \in Message
    OBVIOUS
  <2>3. QED
    BY <2>1, <2>2, ConnsTyped
<1> HIDE DEF r, m
<1>4. /\ <<m>> \o conns[c].stream # <<>> /\ Tail(<<m>> \o conns[c].stream) = conns[c].stream
      /\ (<<m>> \o conns[c].stream)[1] = m
      /\ <<>> \o conns[c].stream = conns[c].stream
  <2>1. conns[c].stream \in Seq(Message)
    BY ConnsTyped
  <2>2. <<>> \o conns[c].stream = conns[c].stream
    BY <2>1, ConcatEmptySeq
  <2>3. QED
    BY <1>3, <2>1, <2>2, OneFirst
<1>5. inbox' = inbox \o <<m>>
  BY <1>3 DEF PutInbox
<1>6. QED
  BY <1>1, <1>2, <1>3, <1>4, <1>5, Replace DEF Frames

LEMMA StopOne ==
    ASSUME Conns, NEW c \in DOMAIN conns, ReaderStops(c)
    PROVE  /\ Changed(c) /\ Frames(c)' = <<>>
           /\ conns'[c].closed = conns[c].closed /\ conns'[c].broken = conns[c].broken
           /\ conns'[c].read = <<>>
<1> DEFINE r == [conns[c] EXCEPT !.stream = <<>>]
<1>1. /\ r \in Connection /\ r.closed = conns[c].closed /\ r.broken = conns[c].broken
      /\ r.read = conns[c].read /\ r.stream = <<>>
  BY ConnsTyped, EmptySeq DEF Connection
<1>2. conns' = [conns EXCEPT ![c] = r]
  BY DEF ReaderStops
<1> HIDE DEF r
<1>3. conns[c].read = <<>> /\ <<>> \o <<>> = <<>>
  BY DEF ReaderStops
<1>4. QED
  BY <1>1, <1>2, <1>3, Replace

LEMMA OpenOne ==
    ASSUME Conns, NEW new, new = Len(conns) + 1, conns' = Append(conns, NewConnection)
    PROVE  /\ conns' \in Seq(Connection) /\ Len(conns') = new
           /\ DOMAIN conns' = DOMAIN conns \cup {new} /\ new \notin DOMAIN conns
           /\ \A d \in DOMAIN conns : conns'[d] = conns[d] /\ Frames(d)' = Frames(d)
           /\ conns'[new] = NewConnection
<1>1. NewConnection \in Connection /\ NewConnection.read = <<>> /\ NewConnection.stream = <<>>
  BY EmptySeq DEF NewConnection, Connection
<1>2. /\ conns' \in Seq(Connection) /\ Len(conns') = new
      /\ \A d \in 1..Len(conns) : conns'[d] = conns[d]
      /\ conns'[new] = NewConnection
  BY <1>1, AppendProperties DEF Conns
<1>3. DOMAIN conns' = 1..(Len(conns) + 1) /\ DOMAIN conns = 1..Len(conns) /\ Len(conns) \in Nat
  BY <1>2, LenProperties DEF Conns
<1>4. \A d \in DOMAIN conns : Frames(d)' = Frames(d)
  BY <1>2, <1>3 DEF Frames
<1>5. DOMAIN conns' = DOMAIN conns \cup {new} /\ new \notin DOMAIN conns
  BY <1>3
<1>6. QED
  BY <1>2, <1>3, <1>4, <1>5

----------------------------------------------------------------------------
(* Which connection a thread may hold, and who may close it.               *)

LEMMA TypeGives ==
    ASSUME TypeOK
    PROVE  /\ Conns /\ DOMAIN conns = 1..Len(conns) /\ Len(conns) \in Nat
           /\ Len(conns) <= MaxConnections /\ MaxConnections \in Nat
           /\ \A t \in Senders : <<t, call[t]>> \in Message
<1>1. Conns
  BY DEF TypeOK, Conns
<1>2. QED
  BY <1>1, ConnsTyped, TransportAssumption DEF TypeOK, Message

\* A call that ends leaves its thread at the next call, or at the end of all.
LEMMA CallEnds ==
    ASSUME TypeOK, NEW t \in Senders, EndCall(t)
    PROVE  /\ pc' \in [Senders -> {"link", "connect", "register", "lookup", "send", "done"}]
           /\ call' \in [Senders -> 1..MaxSends]
           /\ \/ pc'[t] = "link" /\ call'[t] = call[t] + 1
              \/ pc'[t] = "done" /\ call'[t] = call[t]
           /\ \A u \in Senders : u # t => pc'[u] = pc[u] /\ call'[u] = call[u]
<1>0. MaxSends \in Nat
  BY TransportAssumption
<1>1. CASE call[t] < MaxSends
  <2>1. pc' = [pc EXCEPT ![t] = "link"] /\ call' = [call EXCEPT ![t] = call[t] + 1]
    BY <1>1 DEF EndCall, Goto
  <2>2. call \in [Senders -> 1..MaxSends] /\ call[t] + 1 \in 1..MaxSends
    BY <1>0, <1>1 DEF TypeOK
  <2>3. /\ call' \in [Senders -> 1..MaxSends] /\ call'[t] = call[t] + 1
        /\ \A u \in Senders : u # t => call'[u] = call[u]
    BY <2>1, <2>2
  <2>4. /\ pc' \in [Senders -> {"link", "connect", "register", "lookup", "send", "done"}]
        /\ pc'[t] = "link" /\ \A u \in Senders : u # t => pc'[u] = pc[u]
    BY <2>1 DEF TypeOK
  <2>5. QED
    BY <2>3, <2>4
<1>2. CASE ~(call[t] < MaxSends)
  BY <1>2 DEF EndCall, Goto, TypeOK
<1>3. QED
  BY <1>1, <1>2

\* A step changes the place of one thread, which has its type at any place.
LEMMA Goes ==
    ASSUME TypeOK, NEW t \in Senders,
           NEW to \in {"link", "connect", "register", "lookup", "send", "done"}, Goto(t, to)
    PROVE  /\ pc' \in [Senders -> {"link", "connect", "register", "lookup", "send", "done"}]
           /\ pc'[t] = to /\ \A u \in Senders : u # t => pc'[u] = pc[u]
  BY DEF Goto, TypeOK

\* What the steps of a thread do to its place and to the connection it holds.
LEMMA GetLinkDoes ==
    ASSUME TypeOK, NEW t \in Senders, GetLink(t)
    PROVE  /\ pc' \in [Senders -> {"link", "connect", "register", "lookup", "send", "done"}]
           /\ sock' \in [Senders -> Conn \cup {None}]
           /\ \/ out_link # None /\ pc'[t] = "lookup" /\ sock'[t] = out_link
              \/ out_link = None /\ pc'[t] = "connect" /\ sock'[t] = sock[t]
           /\ \A u \in Senders : u # t => pc'[u] = pc[u] /\ sock'[u] = sock[u]
<1>1. CASE out_link # None
  BY <1>1, Goes DEF GetLink, TypeOK
<1>2. CASE out_link = None
  BY <1>2, Goes DEF GetLink, TypeOK
<1>3. QED
  BY <1>1, <1>2

LEMMA ConnectDoes ==
    ASSUME TypeOK, NEW t \in Senders, Connect(t)
    PROVE  /\ pc' \in [Senders -> {"link", "connect", "register", "lookup", "send", "done"}]
           /\ sock' \in [Senders -> Conn \cup {None}]
           /\ pc'[t] = "register" /\ sock'[t] = Len(conns) + 1
           /\ \A u \in Senders : u # t => pc'[u] = pc[u] /\ sock'[u] = sock[u]
           /\ conns' \in Seq(Connection) /\ Len(conns') = Len(conns) + 1
           /\ Len(conns') <= MaxConnections
           /\ DOMAIN conns' = DOMAIN conns \cup {Len(conns) + 1} /\ Len(conns) + 1 \notin DOMAIN conns
           /\ \A d \in DOMAIN conns : conns'[d] = conns[d] /\ Frames(d)' = Frames(d)
           /\ conns'[Len(conns) + 1] = NewConnection
<1>1. /\ conns' \in Seq(Connection) /\ Len(conns') = Len(conns) + 1
      /\ DOMAIN conns' = DOMAIN conns \cup {Len(conns) + 1} /\ Len(conns) + 1 \notin DOMAIN conns
      /\ \A d \in DOMAIN conns : conns'[d] = conns[d] /\ Frames(d)' = Frames(d)
      /\ conns'[Len(conns) + 1] = NewConnection
  BY TypeGives, OpenOne DEF Connect
<1>2. Len(conns) + 1 \in Conn /\ Len(conns') <= MaxConnections
  BY <1>1, TypeGives DEF Connect, Conn
<1>3. sock' = [sock EXCEPT ![t] = Len(conns) + 1]
  BY <1>1 DEF Connect
<1>4. /\ sock' \in [Senders -> Conn \cup {None}] /\ sock'[t] = Len(conns) + 1
      /\ \A u \in Senders : u # t => sock'[u] = sock[u]
  BY <1>2, <1>3 DEF TypeOK
<1>5. /\ pc' \in [Senders -> {"link", "connect", "register", "lookup", "send", "done"}]
      /\ pc'[t] = "register" /\ \A u \in Senders : u # t => pc'[u] = pc[u]
  BY Goes DEF Connect
<1>6. QED
  BY <1>1, <1>2, <1>4, <1>5

LEMMA RegisterDoes ==
    ASSUME TypeOK, Held, NEW t \in Senders, Register(t), NEW c, c = sock[t]
    PROVE  /\ pc[t] = "register" /\ c \in DOMAIN conns /\ c # None
           /\ pc' \in [Senders -> {"link", "connect", "register", "lookup", "send", "done"}]
           /\ sock' \in [Senders -> Conn \cup {None}]
           /\ pc'[t] = "lookup" /\ sock'[t] = out_link' /\ out_link' # None
           /\ \A u \in Senders : u # t => pc'[u] = pc[u] /\ sock'[u] = sock[u]
           /\ conns' \in Seq(Connection) /\ Len(conns') = Len(conns)
           /\ \A d \in DOMAIN conns : Frames(d)' = Frames(d)
           /\ \A d \in DOMAIN conns : conns'[d].broken = conns[d].broken /\ conns'[d].read = conns[d].read
           /\ \/ /\ out_link # None /\ out_link' = out_link /\ out_lock' = out_lock
                 /\ conns'[c].closed
                 /\ \A d \in DOMAIN conns : d # c => conns'[d] = conns[d]
              \/ /\ out_link = None /\ out_link' = c /\ out_lock' = c
                 /\ conns' = conns
<1>1. pc[t] = "register" /\ c \in DOMAIN conns /\ c # None
  BY TypeGives DEF Register, Held, None
<1>2. /\ pc' \in [Senders -> {"link", "connect", "register", "lookup", "send", "done"}]
      /\ pc'[t] = "lookup" /\ \A u \in Senders : u # t => pc'[u] = pc[u]
  BY Goes DEF Register
<1>3. CASE out_link # None
  <2>1. /\ conns' = [conns EXCEPT ![c].closed = TRUE]
        /\ sock' = [sock EXCEPT ![t] = out_link]
        /\ out_link' = out_link /\ out_lock' = out_lock
    BY <1>3 DEF Register, nodeVars
  <2>2. /\ Changed(c) /\ Frames(c)' = Frames(c)
        /\ conns'[c].closed /\ conns'[c].broken = conns[c].broken
        /\ conns'[c].read = conns[c].read
    BY <1>1, <2>1, TypeGives, CloseOne
  <2>3. /\ sock' \in [Senders -> Conn \cup {None}] /\ sock'[t] = out_link
        /\ \A u \in Senders : u # t => sock'[u] = sock[u]
    BY <2>1 DEF TypeOK
  <2>4. QED
    BY <1>1, <1>2, <1>3, <2>1, <2>2, <2>3 DEF Changed
<1>4. CASE out_link = None
  <2>1. /\ conns' = conns /\ sock' = sock /\ out_link' = c /\ out_lock' = c
    BY <1>4 DEF Register
  <2>2. conns' \in Seq(Connection) /\ \A d \in DOMAIN conns : Frames(d)' = Frames(d)
    BY <2>1 DEF TypeOK, Frames
  <2>3. QED
    BY <1>1, <1>2, <1>4, <2>1, <2>2 DEF TypeOK
<1>5. QED
  BY <1>3, <1>4

LEMMA SendFrameDoes ==
    ASSUME TypeOK, Held, NEW t \in Senders, SendFrame(t), NEW c, c = sock[t]
    PROVE  /\ pc[t] = "send" /\ c \in DOMAIN conns /\ Changed(c)
           /\ Frames(c)' = Append(Frames(c), <<t, call[t]>>)
           /\ \A d \in DOMAIN conns :
                /\ conns'[d].closed = conns[d].closed /\ conns'[d].broken = conns[d].broken
                /\ conns'[d].read = conns[d].read
<1>1. pc[t] = "send" /\ c \in DOMAIN conns
  BY TypeGives DEF SendFrame, Held, None
<1>2. conns' = [conns EXCEPT ![c].stream = Append(@, <<t, call[t]>>)]
  BY DEF SendFrame
<1>3. /\ Changed(c) /\ Frames(c)' = Append(Frames(c), <<t, call[t]>>)
      /\ conns'[c].closed = conns[c].closed
      /\ conns'[c].broken = conns[c].broken
      /\ conns'[c].read = conns[c].read
  BY <1>1, <1>2, TypeGives, WriteOne
<1>4. QED
  BY <1>1, <1>3 DEF Changed

LEMMA SendFailsDoes ==
    ASSUME TypeOK, Held, NEW t \in Senders, SendFails(t), NEW c, c = sock[t]
    PROVE  /\ pc[t] = "send" /\ c \in DOMAIN conns /\ Changed(c)
           /\ out_link' = None /\ out_lock' = None
           /\ \A d \in DOMAIN conns :
                Frames(d)' = Frames(d) /\ conns'[d].broken = conns[d].broken /\ conns'[d].read = conns[d].read
<1>1. pc[t] = "send" /\ c \in DOMAIN conns
  BY TypeGives DEF SendFails, Held, None
<1>2. /\ Changed(c) /\ Frames(c)' = Frames(c)
      /\ conns'[c].broken = conns[c].broken
      /\ conns'[c].read = conns[c].read
  <2>1. conns' = [conns EXCEPT ![c].closed = TRUE]
    BY DEF SendFails
  <2>2. QED
    BY <1>1, <2>1, TypeGives, CloseOne
<1>3. QED
  BY <1>1, <1>2 DEF Changed, SendFails

LEMMA CloseDoes ==
    ASSUME TypeOK, Held, Close, NEW c, c = out_link
    PROVE  /\ c \in DOMAIN conns /\ Changed(c) /\ out_link' = None
           /\ failures \in Nat /\ failures' = failures + 1
           /\ \A d \in DOMAIN conns :
                Frames(d)' = Frames(d) /\ conns'[d].broken = conns[d].broken /\ conns'[d].read = conns[d].read
<1>1. c \in DOMAIN conns
  BY TypeGives DEF Close, Held, None
<1>2. /\ Changed(c) /\ Frames(c)' = Frames(c)
      /\ conns'[c].broken = conns[c].broken
      /\ conns'[c].read = conns[c].read
  <2>1. conns' = [conns EXCEPT ![c].closed = TRUE]
    BY DEF Close
  <2>2. QED
    BY <1>1, <2>1, TypeGives, CloseOne
<1>3. failures \in Nat /\ failures' = failures + 1 /\ out_link' = None
  BY TransportAssumption DEF Close, TypeOK
<1>4. QED
  BY <1>1, <1>2, <1>3 DEF Changed

\* What the reader of a connection, or a failure of it, does to it.
LEMMA ReaderDoes ==
    ASSUME TypeOK, OneRead, NEW c \in DOMAIN conns, ReaderStep(c)
    PROVE  /\ Changed(c) /\ UNCHANGED <<nodeVars, senderVars, sent, failures>>
           /\ inbox' \in Seq(Message)
           /\ conns'[c].closed = conns[c].closed /\ conns'[c].broken = conns[c].broken
           /\ conns'[c].read # <<>> => Len(conns'[c].read) = 1
<1>0. Conns /\ inbox \in Seq(Message) /\ conns[c].read \in Seq(Message)
  BY TypeGives, ConnsTyped DEF TypeOK
<1>1. CASE ReadFrame(c)
  BY <1>0, <1>1, ReadOne DEF ReadFrame
<1>2. CASE PutInbox(c)
  <2>1. inbox' \in Seq(Message)
    BY <1>0, <1>2, ConcatProperties DEF PutInbox
  <2>2. QED
    BY <1>0, <1>2, <2>1, DeliverOne DEF PutInbox
<1>3. CASE ReaderStops(c)
  BY <1>0, <1>3, StopOne DEF ReaderStops
<1>4. QED
  BY <1>1, <1>2, <1>3 DEF ReaderStep

\* A step that neither makes nor closes a connection, nor gives one to a thread.
Gentle ==
    /\ out_link' = out_link /\ out_lock' = out_lock /\ sock' = sock
    /\ \A t \in Senders : \/ pc'[t] = pc[t]
                          \/ pc[t] # "register" /\ pc'[t] \in {"link", "done"}
                          \/ pc[t] = "lookup" /\ pc'[t] = "send"
    /\ conns' \in Seq(Connection) /\ Len(conns') = Len(conns)
    /\ \A d \in DOMAIN conns : conns'[d].closed = conns[d].closed

LEMMA GentleSteps ==
    ASSUME TypeOK, Held, OneRead,
           \/ \E t \in Senders : LookUpLock(t) \/ SendFrame(t) \/ GiveUp(t)
           \/ \E c \in DOMAIN conns : ReaderStep(c) \/ Break(c)
    PROVE  Gentle
<1> USE DEF Gentle
<1>0. conns \in Seq(Connection)
  BY DEF TypeOK
<1>1. ASSUME NEW t \in Senders, LookUpLock(t) PROVE Gentle
  <2>1. CASE out_lock # None
    BY <1>0, <1>1, <2>1, Goes DEF LookUpLock, nodeVars
  <2>2. CASE out_lock = None
    BY <1>0, <1>1, <2>2, CallEnds DEF LookUpLock, nodeVars
  <2>3. QED
    BY <2>1, <2>2
<1>2. ASSUME NEW t \in Senders, SendFrame(t) PROVE Gentle
  <2>1. PICK c : c = sock[t]
    OBVIOUS
  <2>2. /\ pc[t] = "send" /\ conns' \in Seq(Connection) /\ Len(conns') = Len(conns)
        /\ \A d \in DOMAIN conns : conns'[d].closed = conns[d].closed
    BY <1>2, <2>1, SendFrameDoes DEF Changed
  <2>3. EndCall(t) /\ out_link' = out_link /\ out_lock' = out_lock /\ sock' = sock
    BY <1>2 DEF SendFrame, nodeVars
  <2>4. QED
    BY <2>2, <2>3, CallEnds
<1>3. ASSUME NEW t \in Senders, GiveUp(t) PROVE Gentle
  BY <1>0, <1>3, CallEnds DEF GiveUp, nodeVars
<1>4. ASSUME NEW c \in DOMAIN conns, ReaderStep(c) PROVE Gentle
  BY <1>4, ReaderDoes DEF Changed, nodeVars, senderVars
<1>5. ASSUME NEW c \in DOMAIN conns, Break(c) PROVE Gentle
  BY <1>5, BreakOne, TypeGives DEF Break, Changed, nodeVars, senderVars
<1>6. QED
  BY <1>1, <1>2, <1>3, <1>4, <1>5

\* Every variable keeps its type.
LEMMA TypeNext ==
    ASSUME TypeOK, Held, OneRead, Next
    PROVE  TypeOK'
<1> USE DEF TypeOK
<1>0. conns \in Seq(Connection) /\ Len(conns) <= MaxConnections
  OBVIOUS
<1>1. ASSUME NEW t \in Senders, GetLink(t) PROVE TypeOK'
  BY <1>1, GetLinkDoes DEF GetLink, nodeVars
<1>2. ASSUME NEW t \in Senders, Connect(t) PROVE TypeOK'
  BY <1>2, ConnectDoes DEF Connect, nodeVars
<1>3. ASSUME NEW t \in Senders, Register(t) PROVE TypeOK'
  <2>1. PICK c : c = sock[t]
    OBVIOUS
  <2>2. c \in Conn
    BY <1>3, <2>1, RegisterDoes DEF Conn
  <2>3. out_link' \in Conn \cup {None} /\ out_lock' \in Conn \cup {None}
    BY <1>3, <2>1, <2>2, RegisterDoes
  <2>4. QED
    BY <1>3, <2>1, <2>3, RegisterDoes DEF Register
<1>4. ASSUME NEW t \in Senders, LookUpLock(t) PROVE TypeOK'
  <2>1. CASE out_lock # None
    BY <1>4, <2>1, Goes DEF LookUpLock, nodeVars
  <2>2. CASE out_lock = None
    BY <1>4, <2>2, CallEnds DEF LookUpLock, nodeVars
  <2>3. QED
    BY <2>1, <2>2
<1>5. ASSUME NEW t \in Senders, SendFrame(t) PROVE TypeOK'
  <2>1. PICK c : c = sock[t]
    OBVIOUS
  <2>2. conns' \in Seq(Connection) /\ Len(conns') = Len(conns)
    BY <1>5, <2>1, SendFrameDoes DEF Changed
  <2>3. sent' \in Seq(Message)
    BY <1>5, TypeGives, AppendProperties DEF SendFrame
  <2>4. QED
    BY <1>0, <1>5, <2>2, <2>3, CallEnds DEF SendFrame, nodeVars
<1>6. ASSUME NEW t \in Senders, SendFails(t) PROVE TypeOK'
  <2>1. PICK c : c = sock[t]
    OBVIOUS
  <2>2. /\ conns' \in Seq(Connection) /\ Len(conns') = Len(conns)
        /\ out_link' = None /\ out_lock' = None
    BY <1>6, <2>1, SendFailsDoes DEF Changed
  <2>3. QED
    BY <1>0, <1>6, <2>2, CallEnds DEF SendFails
<1>7. ASSUME NEW c \in DOMAIN conns, ReaderStep(c) PROVE TypeOK'
  BY <1>0, <1>7, ReaderDoes DEF Changed, nodeVars, senderVars
<1>8. failures + 1 \in 0..MaxFailures \/ ~(failures < MaxFailures)
  BY TransportAssumption
<1>9. ASSUME NEW c \in DOMAIN conns, Break(c) PROVE TypeOK'
  <2>1. conns' \in Seq(Connection) /\ Len(conns') = Len(conns)
    BY <1>9, BreakOne, TypeGives DEF Break, Changed
  <2>2. QED
    BY <1>0, <1>8, <1>9, <2>1 DEF Break, nodeVars, senderVars
<1>10. ASSUME Close PROVE TypeOK'
  <2>1. PICK c : c = out_link
    OBVIOUS
  <2>2. conns' \in Seq(Connection) /\ Len(conns') = Len(conns) /\ out_link' = None
    BY <1>10, <2>1, CloseDoes DEF Changed
  <2>3. QED
    BY <1>0, <1>8, <1>10, <2>2 DEF Close, senderVars
<1>11. ASSUME NEW t \in Senders, GiveUp(t) PROVE TypeOK'
  BY <1>8, <1>11, CallEnds DEF GiveUp, nodeVars
<1>12. QED
  BY <1>1, <1>2, <1>3, <1>4, <1>5, <1>6, <1>7, <1>9, <1>10, <1>11
  DEF Next, Step, Failure, SenderStep

\* A gentle step leaves every thread with the connection it had, and that
\* connection as it was.
LEMMA GentleLinks ==
    ASSUME Links, Gentle
    PROVE  Held' /\ Own' /\ LinkUsable'
<1>0. /\ TypeOK /\ Held /\ Own /\ LinkUsable
      /\ DOMAIN conns = 1..Len(conns) /\ Len(conns) \in Nat
  BY TypeGives DEF Links
<1>1. /\ out_link' = out_link /\ out_lock' = out_lock /\ sock' = sock
      /\ Len(conns') = Len(conns)
      /\ \A d \in DOMAIN conns : conns'[d].closed = conns[d].closed
      /\ \A t \in Senders :
            /\ pc'[t] = "register" => pc[t] = "register"
            /\ pc'[t] \in {"register", "lookup", "send"} => pc[t] \in {"register", "lookup", "send"}
  BY DEF Gentle
<1>2. Held'
  BY <1>0, <1>1 DEF Held
<1>3. \A t \in Senders : pc[t] = "register" => sock[t] \in DOMAIN conns
  BY <1>0 DEF Held, None
<1>4. Own'
  BY <1>0, <1>1, <1>3 DEF Own
<1>5. out_link # None => out_link \in DOMAIN conns
  BY <1>0 DEF Held, None
<1>6. LinkUsable'
  BY <1>0, <1>1, <1>5 DEF LinkUsable
<1>7. QED
  BY <1>2, <1>4, <1>6

\* Only a thread's own connection that lost the race, the connection whose
\* failure takes the link out, or the registered link is closed.
LEMMA LinksNext ==
    ASSUME Links, OneRead, Next
    PROVE  Held' /\ Own' /\ LinkUsable'
<1>0. /\ TypeOK /\ Held /\ Own /\ LinkUsable
      /\ DOMAIN conns = 1..Len(conns) /\ Len(conns) \in Nat
  BY TypeGives DEF Links
<1>a. \A t \in Senders : pc[t] \in {"register", "lookup", "send"} => sock[t] \in DOMAIN conns
  BY <1>0 DEF Held, None
<1>b. out_link # None => out_link \in DOMAIN conns
  BY <1>0 DEF Held, None
<1>1. ASSUME NEW t \in Senders, GetLink(t) PROVE Held' /\ Own' /\ LinkUsable'
  <2>1. /\ out_link' = out_link /\ out_lock' = out_lock /\ conns' = conns
    BY <1>1 DEF GetLink, nodeVars
  <2>2. Held'
    BY <1>0, <1>1, <2>1, GetLinkDoes DEF Held
  <2>3. Own'
    <3> SUFFICES ASSUME NEW u \in Senders, pc'[u] = "register"
                 PROVE  /\ sock'[u] # out_link' /\ ~conns'[sock'[u]].closed
                        /\ \A w \in Senders : w # u => sock'[w] # sock'[u]
      BY DEF Own
    <3>1. u # t /\ pc[u] = "register" /\ sock'[u] = sock[u]
      BY <1>0, <1>1, GetLinkDoes
    <3>2. /\ sock[u] # out_link /\ ~conns[sock[u]].closed
          /\ \A w \in Senders : w # u => sock[w] # sock[u]
      BY <1>0, <3>1 DEF Own
    <3>3. \A w \in Senders : sock'[w] = sock[w] \/ sock'[w] = out_link
      BY <1>0, <1>1, GetLinkDoes
    <3>4. QED
      BY <2>1, <3>1, <3>2, <3>3
  <2>4. LinkUsable'
    BY <1>0, <2>1 DEF LinkUsable
  <2>5. QED
    BY <2>2, <2>3, <2>4
<1>2. ASSUME NEW t \in Senders, Connect(t) PROVE Held' /\ Own' /\ LinkUsable'
  <2> DEFINE new == Len(conns) + 1
  <2>0. /\ pc'[t] = "register" /\ sock'[t] = new
        /\ \A u \in Senders : u # t => pc'[u] = pc[u] /\ sock'[u] = sock[u]
        /\ Len(conns') = new /\ new \notin DOMAIN conns /\ new # None /\ Len(conns) < new /\ new \in Nat
        /\ \A d \in DOMAIN conns : conns'[d] = conns[d]
        /\ ~conns'[new].closed
    BY <1>0, <1>2, ConnectDoes DEF NewConnection, None
  <2>1. out_link' = out_link /\ out_lock' = out_lock
    BY <1>2 DEF Connect, nodeVars
  <2>2. \A d \in 0..Len(conns) : d \in 0..new /\ d # new
    BY <1>0
  <2> HIDE DEF new
  <2>3. Held'
    BY <1>0, <2>0, <2>1, <2>2 DEF Held
  <2>4. \A u \in Senders : sock[u] # new
    BY <1>0, <2>2 DEF Held
  <2>5. out_link # new
    BY <1>0, <2>2 DEF Held
  <2>6. Own'
    BY <1>0, <1>a, <2>0, <2>1, <2>4, <2>5 DEF Own
  <2>7. LinkUsable'
    BY <1>0, <1>b, <2>0, <2>1 DEF LinkUsable
  <2>8. QED
    BY <2>3, <2>6, <2>7
<1>3. ASSUME NEW t \in Senders, Register(t) PROVE Held' /\ Own' /\ LinkUsable'
  <2>1. PICK c : c = sock[t]
    OBVIOUS
  <2>2. /\ pc[t] = "register" /\ c \in DOMAIN conns /\ c # None
        /\ pc'[t] = "lookup" /\ sock'[t] = out_link' /\ out_link' # None
        /\ \A u \in Senders : u # t => pc'[u] = pc[u] /\ sock'[u] = sock[u]
        /\ Len(conns') = Len(conns)
        /\ \/ /\ out_link # None /\ out_link' = out_link /\ out_lock' = out_lock
              /\ \A d \in DOMAIN conns : d # c => conns'[d] = conns[d]
           \/ /\ out_link = None /\ out_link' = c /\ out_lock' = c
              /\ conns' = conns
    BY <1>0, <1>3, <2>1, RegisterDoes
  <2>3. /\ c # out_link /\ ~conns[c].closed
        /\ \A u \in Senders : u # t => sock[u] # c
    BY <1>0, <2>1, <2>2 DEF Own
  <2>4. out_link' \in 0..Len(conns) /\ out_lock' \in 0..Len(conns)
    BY <1>0, <2>2 DEF Held
  <2>5. Held'
    BY <1>0, <2>2, <2>4 DEF Held
  <2>6. Own'
    <3> SUFFICES ASSUME NEW u \in Senders, pc'[u] = "register"
                 PROVE  /\ sock'[u] # out_link' /\ ~conns'[sock'[u]].closed
                        /\ \A w \in Senders : w # u => sock'[w] # sock'[u]
      BY DEF Own
    <3>1. u # t /\ pc[u] = "register" /\ sock'[u] = sock[u]
      BY <2>2
    <3>2. /\ sock[u] # out_link /\ ~conns[sock[u]].closed
          /\ \A w \in Senders : w # u => sock[w] # sock[u]
      BY <1>0, <3>1 DEF Own
    <3>3. sock[u] # c /\ sock[u] \in DOMAIN conns
      BY <1>a, <2>3, <3>1
    <3>4. sock'[u] # out_link' /\ ~conns'[sock'[u]].closed
      BY <2>2, <3>1, <3>2, <3>3
    <3>5. QED
      BY <2>2, <3>1, <3>2, <3>4
  <2>7. LinkUsable'
    BY <1>0, <1>b, <2>2, <2>3 DEF LinkUsable
  <2>8. QED
    BY <2>5, <2>6, <2>7
<1>4. ASSUME NEW c \in DOMAIN conns, Changed(c), out_link' = None,
             out_lock' \in 0..Len(conns), sock' = sock,
             \A u \in Senders : pc'[u] = pc[u] \/ pc'[u] \in {"link", "done"},
             \A u \in Senders : pc[u] = "register" => sock[u] # c
      PROVE  Held' /\ Own' /\ LinkUsable'
  <2>1. /\ Len(conns') = Len(conns)
        /\ \A d \in DOMAIN conns : d # c => conns'[d] = conns[d]
    BY <1>4 DEF Changed
  <2>2. Held'
    BY <1>0, <1>4, <2>1 DEF Held, None
  <2>3. Own'
    BY <1>0, <1>a, <1>4, <2>1 DEF Own, None
  <2>4. LinkUsable'
    BY <1>4 DEF LinkUsable
  <2>5. QED
    BY <2>2, <2>3, <2>4
<1>5. ASSUME NEW t \in Senders, SendFails(t) PROVE Held' /\ Own' /\ LinkUsable'
  <2>1. PICK c : c = sock[t]
    OBVIOUS
  <2>2. pc[t] = "send" /\ c \in DOMAIN conns /\ Changed(c) /\ out_link' = None /\ out_lock' = None
    BY <1>0, <1>5, <2>1, SendFailsDoes
  <2>3. sock' = sock /\ \A u \in Senders : pc'[u] = pc[u] \/ pc'[u] \in {"link", "done"}
    BY <1>0, <1>5, CallEnds DEF SendFails
  <2>4. \A u \in Senders : pc[u] = "register" => sock[u] # c
    BY <1>0, <2>1, <2>2 DEF Own
  <2>5. None \in 0..Len(conns)
    BY <1>0 DEF None
  <2>6. QED
    BY <1>4, <2>2, <2>3, <2>4, <2>5
<1>6. ASSUME Close PROVE Held' /\ Own' /\ LinkUsable'
  <2>1. PICK c : c = out_link
    OBVIOUS
  <2>2. c \in DOMAIN conns /\ Changed(c) /\ out_link' = None
    BY <1>0, <1>6, <2>1, CloseDoes
  <2>3. out_lock' = out_lock /\ sock' = sock /\ pc' = pc
    BY <1>6 DEF Close, senderVars
  <2>4. \A u \in Senders : pc[u] = "register" => sock[u] # c
    BY <1>0, <2>1 DEF Own
  <2>5. out_lock' \in 0..Len(conns)
    BY <1>0, <2>3 DEF Held
  <2>6. QED
    BY <1>4, <2>2, <2>3, <2>4, <2>5
<1>7. ASSUME Gentle PROVE Held' /\ Own' /\ LinkUsable'
  BY <1>7, GentleLinks
<1>8. QED
  BY <1>0, <1>1, <1>2, <1>3, <1>5, <1>6, <1>7, GentleSteps
  DEF Next, Step, Failure, SenderStep

----------------------------------------------------------------------------
(* What is certain as long as nothing has failed.                          *)

\* A step that registers no connection and closes none, and puts frames into
\* the registered one at most.
LEMMA AllThereKeeps ==
    ASSUME AllThere, out_link' = out_link, DOMAIN conns' = DOMAIN conns,
           \A u \in Senders : pc[u] = "register" => pc'[u] = "register" /\ sock'[u] = sock[u],
           \A d \in DOMAIN conns :
              /\ conns'[d].closed = conns[d].closed /\ conns'[d].broken = conns[d].broken
              /\ Frames(d)' # <<>> => Frames(d) # <<>> \/ d = out_link
    PROVE  AllThere'
  BY DEF AllThere

LEMMA QuietNext ==
    ASSUME Links, OneRead, Quiet, Next
    PROVE  Quiet'
<1>0. /\ TypeOK /\ Held /\ Own /\ LinkUsable /\ failures \in Nat
      /\ DOMAIN conns = 1..Len(conns) /\ Len(conns) \in Nat
  BY TypeGives, TransportAssumption DEF Links, TypeOK
<1> SUFFICES ASSUME failures' = 0 PROVE OneLink' /\ AllThere'
  BY DEF Quiet
<1>a. \A t \in Senders : pc[t] \in {"register", "lookup", "send"} =>
        sock[t] # None /\ sock[t] \in DOMAIN conns
  BY <1>0 DEF Held, None
<1>b. ASSUME failures' = failures PROVE failures = 0 /\ OneLink /\ AllThere
  BY <1>b DEF Quiet
<1>1. ASSUME NEW t \in Senders, GetLink(t) PROVE OneLink' /\ AllThere'
  <2>1. OneLink /\ AllThere /\ conns' = conns /\ out_link' = out_link
    BY <1>1, <1>b DEF GetLink, nodeVars
  <2>2. /\ pc[t] = "link"
        /\ \/ pc'[t] = "lookup" /\ sock'[t] = out_link
           \/ pc'[t] = "connect"
        /\ \A u \in Senders : u # t => pc'[u] = pc[u] /\ sock'[u] = sock[u]
    BY <1>0, <1>1, GetLinkDoes DEF GetLink
  <2>3. OneLink'
    BY <2>1, <2>2 DEF OneLink
  <2>4. \A d \in DOMAIN conns : Frames(d)' = Frames(d)
    BY <2>1 DEF Frames
  <2>5. AllThere'
    BY <2>1, <2>2, <2>4, AllThereKeeps
  <2>6. QED
    BY <2>3, <2>5
<1>2. ASSUME NEW t \in Senders, Connect(t) PROVE OneLink' /\ AllThere'
  <2> DEFINE new == Len(conns) + 1
  <2>1. OneLink /\ AllThere /\ out_link' = out_link /\ pc[t] = "connect"
    BY <1>2, <1>b DEF Connect, nodeVars
  <2>2. /\ pc'[t] = "register" /\ sock'[t] = new
        /\ \A u \in Senders : u # t => pc'[u] = pc[u] /\ sock'[u] = sock[u]
        /\ DOMAIN conns' = DOMAIN conns \cup {new}
        /\ \A d \in DOMAIN conns : conns'[d] = conns[d] /\ Frames(d)' = Frames(d)
        /\ conns'[new] = NewConnection
    BY <1>0, <1>2, ConnectDoes
  <2> HIDE DEF new
  <2>3. OneLink'
    BY <2>1, <2>2 DEF OneLink
  <2>4. ~conns'[new].broken /\ conns'[new].read \o conns'[new].stream = <<>>
    BY <2>2 DEF NewConnection
  <2>5. AllThere'
    <3> SUFFICES ASSUME NEW d \in DOMAIN conns'
                 PROVE  /\ ~conns'[d].broken
                        /\ Frames(d)' # <<>> => d = out_link'
                        /\ ~conns'[d].closed => d = out_link' \/ \E u \in Senders : pc'[u] = "register" /\ sock'[u] = d
      BY DEF AllThere
    <3>1. CASE d \in DOMAIN conns
      BY <2>1, <2>2, <3>1 DEF AllThere
    <3>2. CASE d = new
      BY <2>2, <2>4, <3>2 DEF Frames
    <3>3. QED
      BY <2>2, <3>1, <3>2
  <2>6. QED
    BY <2>3, <2>5
<1>3. ASSUME NEW t \in Senders, Register(t) PROVE OneLink' /\ AllThere'
  <2>1. PICK c : c = sock[t]
    OBVIOUS
  <2>2. /\ pc[t] = "register" /\ c \in DOMAIN conns /\ c # None
        /\ pc'[t] = "lookup" /\ sock'[t] = out_link'
        /\ \A u \in Senders : u # t => pc'[u] = pc[u] /\ sock'[u] = sock[u]
        /\ Len(conns') = Len(conns) /\ conns' \in Seq(Connection)
        /\ \A d \in DOMAIN conns : Frames(d)' = Frames(d) /\ conns'[d].broken = conns[d].broken
        /\ \/ /\ out_link # None /\ out_link' = out_link /\ conns'[c].closed
              /\ \A d \in DOMAIN conns : d # c => conns'[d] = conns[d]
           \/ out_link = None /\ out_link' = c /\ conns' = conns
    BY <1>0, <1>3, <2>1, RegisterDoes
  <2>3. OneLink /\ AllThere /\ DOMAIN conns' = DOMAIN conns
    BY <1>0, <1>3, <1>b, <2>2, LenProperties DEF Register
  <2>4. \A u \in Senders : u # t /\ pc[u] \in {"lookup", "send"} => out_link # None
    BY <1>a, <2>3 DEF OneLink
  <2>5. OneLink'
    BY <2>2, <2>3, <2>4 DEF OneLink
  <2>6. out_link = None => \A d \in DOMAIN conns : d # out_link
    BY <1>0 DEF None
  <2>7. AllThere'
    BY <2>1, <2>2, <2>3, <2>6 DEF AllThere
  <2>8. QED
    BY <2>5, <2>7
<1>4. ASSUME NEW t \in Senders, LookUpLock(t) PROVE OneLink' /\ AllThere'
  <2>1. /\ OneLink /\ AllThere /\ conns' = conns /\ out_link' = out_link /\ sock' = sock
        /\ pc[t] = "lookup"
    BY <1>4, <1>b DEF LookUpLock, nodeVars
  <2>2. pc'[t] # "register" /\ \A u \in Senders : u # t => pc'[u] = pc[u]
    BY <1>0, <1>4, CallEnds, Goes DEF LookUpLock
  <2>3. OneLink'
    BY <2>1, <2>2 DEF OneLink
  <2>4. \A d \in DOMAIN conns : Frames(d)' = Frames(d)
    BY <2>1 DEF Frames
  <2>5. AllThere'
    BY <2>1, <2>2, <2>4, AllThereKeeps
  <2>6. QED
    BY <2>3, <2>5
<1>5. ASSUME NEW t \in Senders, SendFrame(t) PROVE OneLink' /\ AllThere'
  <2>1. PICK c : c = sock[t]
    OBVIOUS
  <2>2. /\ OneLink /\ AllThere /\ out_link' = out_link /\ sock' = sock /\ EndCall(t)
    BY <1>5, <1>b DEF SendFrame, nodeVars
  <2>3. /\ pc[t] = "send" /\ c \in DOMAIN conns /\ Changed(c)
        /\ \A d \in DOMAIN conns :
             conns'[d].closed = conns[d].closed /\ conns'[d].broken = conns[d].broken
    BY <1>0, <1>5, <2>1, SendFrameDoes
  <2>4. pc'[t] \in {"link", "done"} /\ \A u \in Senders : u # t => pc'[u] = pc[u]
    BY <1>0, <2>2, CallEnds
  <2>5. c = out_link
    BY <2>1, <2>2, <2>3 DEF OneLink
  <2>6. DOMAIN conns' = DOMAIN conns /\ \A d \in DOMAIN conns : d # c => Frames(d)' = Frames(d)
    BY <1>0, <2>3, LenProperties DEF Changed
  <2>7. OneLink'
    BY <2>2, <2>4 DEF OneLink
  <2>8. AllThere'
    BY <2>2, <2>3, <2>4, <2>5, <2>6, AllThereKeeps
  <2>9. QED
    BY <2>7, <2>8
<1>6. ASSUME NEW t \in Senders, SendFails(t) PROVE FALSE
  <2>1. /\ OneLink /\ AllThere /\ pc[t] = "send"
        /\ conns[sock[t]].closed \/ conns[sock[t]].broken
    BY <1>6, <1>b DEF SendFails
  <2>2. sock[t] = out_link /\ out_link # None /\ out_link \in DOMAIN conns
    BY <1>a, <2>1 DEF OneLink
  <2>3. QED
    BY <1>0, <2>1, <2>2 DEF LinkUsable, AllThere
<1>7. ASSUME NEW c \in DOMAIN conns, ReaderStep(c) PROVE OneLink' /\ AllThere'
  <2>1. /\ Changed(c) /\ UNCHANGED <<nodeVars, senderVars, sent, failures>>
        /\ conns'[c].closed = conns[c].closed /\ conns'[c].broken = conns[c].broken
    BY <1>0, <1>7, ReaderDoes
  <2>2. /\ OneLink /\ AllThere /\ out_link' = out_link /\ sock' = sock /\ pc' = pc
    BY <1>b, <2>1 DEF nodeVars, senderVars
  <2>3. Frames(c)' # <<>> => Frames(c) # <<>>
    BY <1>0, <1>7, TypeGives, ReadOne, DeliverOne, StopOne DEF ReaderStep
  <2>4. /\ DOMAIN conns' = DOMAIN conns
        /\ \A d \in DOMAIN conns : d # c => conns'[d] = conns[d] /\ Frames(d)' = Frames(d)
    BY <1>0, <2>1, LenProperties DEF Changed
  <2>5. AllThere'
    BY <2>1, <2>2, <2>3, <2>4, AllThereKeeps
  <2>6. QED
    BY <2>2, <2>5 DEF OneLink
<1>8. ASSUME (\E c \in DOMAIN conns : Break(c)) \/ Close \/ (\E t \in Senders : GiveUp(t)) PROVE FALSE
  BY <1>0, <1>8 DEF Break, Close, GiveUp
<1>9. QED
  BY <1>1, <1>2, <1>3, <1>4, <1>5, <1>6, <1>7, <1>8 DEF Next, Step, Failure, SenderStep

----------------------------------------------------------------------------
(* What a step does to the frames.                                         *)

\* It moves none,
Keeps ==
    /\ sent' = sent /\ inbox' = inbox
    /\ failures' \in Nat /\ failures' >= failures
    /\ DOMAIN conns \subseteq DOMAIN conns'
    /\ \A d \in DOMAIN conns' : IF d \in DOMAIN conns THEN Frames(d)' = Frames(d) ELSE Frames(d)' = <<>>

Only(c) ==
    /\ failures' = failures
    /\ DOMAIN conns' = DOMAIN conns
    /\ \A d \in DOMAIN conns : d # c => Frames(d)' = Frames(d)

\* writes the new frame m to c,
Writes(c, m) ==
    /\ Only(c)
    /\ m \notin Range(sent) /\ sent' = Append(sent, m) /\ inbox' = inbox
    /\ Frames(c)' = Append(Frames(c), m)

\* moves the oldest frame of c to the inbox,
Takes(c) ==
    /\ Only(c)
    /\ Frames(c) # <<>> /\ Frames(c)' = Tail(Frames(c))
    /\ sent' = sent /\ inbox' = inbox \o <<Frames(c)[1]>>

\* or drops the frames of c, which is broken.
Drops(c) ==
    /\ Only(c)
    /\ conns[c].broken
    /\ Frames(c)' = <<>>
    /\ sent' = sent /\ inbox' = inbox

LEMMA FramesNext ==
    ASSUME Links, OneRead, Fresh, Next
    PROVE  \/ Keeps
           \/ \E c \in DOMAIN conns : Takes(c) \/ Drops(c) \/ \E m \in Message : Writes(c, m)
<1>0. /\ TypeOK /\ Held /\ Conns /\ failures \in Nat
      /\ conns \in Seq(Connection) /\ DOMAIN conns = 1..Len(conns)
  BY TypeGives, TransportAssumption DEF Links, TypeOK
<1>1. ASSUME NEW t \in Senders, GetLink(t) \/ LookUpLock(t) \/ GiveUp(t) PROVE Keeps
  <2>1. conns' = conns /\ sent' = sent /\ inbox' = inbox
    BY <1>1 DEF GetLink, LookUpLock, GiveUp
  <2>2. failures' = failures \/ failures' = failures + 1
    BY <1>1 DEF GetLink, LookUpLock, GiveUp
  <2>3. failures' \in Nat /\ failures' >= failures
    BY <1>0, <2>2
  <2>4. DOMAIN conns' = DOMAIN conns /\ \A d \in DOMAIN conns : Frames(d)' = Frames(d)
    BY <2>1 DEF Frames
  <2>5. QED
    BY <2>1, <2>3, <2>4 DEF Keeps
<1>2. ASSUME NEW t \in Senders, Connect(t) PROVE Keeps
  <2>0. PICK new : new = Len(conns) + 1
    OBVIOUS
  <2>1. /\ DOMAIN conns' = DOMAIN conns \cup {new}
        /\ \A d \in DOMAIN conns : Frames(d)' = Frames(d)
        /\ conns'[new] = NewConnection
    BY <1>0, <1>2, <2>0, ConnectDoes
  <2>2. sent' = sent /\ inbox' = inbox /\ failures' = failures
    BY <1>2 DEF Connect
  <2>3. Frames(new)' = <<>>
    <3>1. conns'[new].read \o conns'[new].stream = <<>>
      BY <2>1 DEF NewConnection
    <3>2. QED
      BY <3>1 DEF Frames
  <2>4. failures' \in Nat /\ failures' >= failures
    BY <1>0, <2>2
  <2>5. QED
    BY <2>1, <2>2, <2>3, <2>4 DEF Keeps
<1>3. ASSUME NEW t \in Senders, Register(t) PROVE Keeps
  <2>1. PICK c : c = sock[t]
    OBVIOUS
  <2>2. /\ conns' \in Seq(Connection) /\ Len(conns') = Len(conns)
        /\ \A d \in DOMAIN conns : Frames(d)' = Frames(d)
    BY <1>0, <1>3, <2>1, RegisterDoes
  <2>3. DOMAIN conns' = DOMAIN conns
    BY <1>0, <2>2, LenProperties
  <2>4. QED
    BY <1>0, <1>3, <2>2, <2>3 DEF Register, Keeps
<1>4. ASSUME NEW t \in Senders, SendFrame(t)
      PROVE  \E c \in DOMAIN conns, m \in Message : Writes(c, m)
  <2>1. PICK c : c = sock[t]
    OBVIOUS
  <2>2. PICK m : m = <<t, call[t]>>
    OBVIOUS
  <2>3. /\ pc[t] = "send" /\ c \in DOMAIN conns /\ Changed(c)
        /\ Frames(c)' = Append(Frames(c), m)
    BY <1>0, <1>4, <2>1, <2>2, SendFrameDoes
  <2>4. call[t] \in 1..MaxSends /\ m \in Message
    BY <1>0, <2>2, TypeGives DEF TypeOK
  <2>5. m \notin Range(sent)
    BY <2>2, <2>3, <2>4, TransportAssumption DEF Fresh
  <2>6. DOMAIN conns' = DOMAIN conns /\ \A d \in DOMAIN conns : d # c => Frames(d)' = Frames(d)
    BY <1>0, <2>3, LenProperties DEF Changed
  <2>7. sent' = Append(sent, m) /\ inbox' = inbox /\ failures' = failures
    BY <1>4, <2>2 DEF SendFrame
  <2>8. Writes(c, m)
    BY <2>3, <2>5, <2>6, <2>7 DEF Writes, Only
  <2>9. QED
    BY <2>3, <2>4, <2>8
<1>5. ASSUME NEW c \in DOMAIN conns, Changed(c), Frames(c)' = Frames(c),
             sent' = sent, inbox' = inbox, failures' \in Nat, failures' >= failures
      PROVE  Keeps
  <2>1. DOMAIN conns' = DOMAIN conns /\ \A d \in DOMAIN conns : Frames(d)' = Frames(d)
    BY <1>0, <1>5, LenProperties DEF Changed
  <2>2. QED
    BY <1>5, <2>1 DEF Keeps
<1>6. ASSUME NEW t \in Senders, SendFails(t) PROVE Keeps
  <2>1. PICK c : c = sock[t]
    OBVIOUS
  <2>2. c \in DOMAIN conns /\ Changed(c) /\ Frames(c)' = Frames(c)
    BY <1>0, <1>6, <2>1, SendFailsDoes
  <2>3. sent' = sent /\ inbox' = inbox /\ failures' = failures
    BY <1>6 DEF SendFails
  <2>4. QED
    BY <1>0, <1>5, <2>2, <2>3
<1>7. ASSUME NEW c \in DOMAIN conns, ReadFrame(c) PROVE Keeps
  <2>1. Changed(c) /\ Frames(c)' = Frames(c)
    BY <1>0, <1>7, ReadOne
  <2>2. sent' = sent /\ inbox' = inbox /\ failures' \in Nat /\ failures' >= failures
    BY <1>0, <1>7 DEF ReadFrame
  <2>3. QED
    BY <1>5, <2>1, <2>2
<1>8. ASSUME NEW c \in DOMAIN conns, Changed(c), failures' = failures PROVE Only(c)
  BY <1>0, <1>8, LenProperties DEF Changed, Only
<1>9. ASSUME NEW c \in DOMAIN conns, PutInbox(c) PROVE Takes(c)
  <2>1. /\ Changed(c) /\ Frames(c) # <<>> /\ Frames(c)' = Tail(Frames(c))
        /\ inbox' = inbox \o <<Frames(c)[1]>>
    BY <1>0, <1>9, DeliverOne
  <2>2. sent' = sent /\ failures' = failures
    BY <1>9 DEF PutInbox
  <2>3. QED
    BY <1>8, <2>1, <2>2 DEF Takes
<1>10. ASSUME NEW c \in DOMAIN conns, ReaderStops(c) PROVE Drops(c)
  <2>1. Changed(c) /\ Frames(c)' = <<>>
    BY <1>0, <1>10, StopOne
  <2>2. conns[c].broken /\ sent' = sent /\ inbox' = inbox /\ failures' = failures
    BY <1>10 DEF ReaderStops
  <2>3. QED
    BY <1>8, <2>1, <2>2 DEF Drops
<1>11. ASSUME NEW c \in DOMAIN conns, Break(c) PROVE Keeps
  <2>1. Changed(c) /\ Frames(c)' = Frames(c)
    BY <1>0, <1>11, BreakOne DEF Break
  <2>2. sent' = sent /\ inbox' = inbox /\ failures' \in Nat /\ failures' >= failures
    BY <1>0, <1>11 DEF Break
  <2>3. QED
    BY <1>5, <2>1, <2>2
<1>12. ASSUME Close PROVE Keeps
  <2>1. PICK c : c = out_link
    OBVIOUS
  <2>2. /\ c \in DOMAIN conns /\ Changed(c) /\ Frames(c)' = Frames(c)
        /\ failures' \in Nat /\ failures' >= failures
    BY <1>0, <1>12, <2>1, CloseDoes
  <2>3. sent' = sent /\ inbox' = inbox
    BY <1>12 DEF Close
  <2>4. QED
    BY <1>5, <2>2, <2>3
<1>13. QED
  BY <1>1, <1>2, <1>3, <1>4, <1>6, <1>7, <1>9, <1>10, <1>11, <1>12
  DEF Next, Step, Failure, SenderStep, ReaderStep

----------------------------------------------------------------------------
(* Where the messages are.                                                 *)

\* The frames of a connection are those it had, except the first one or all.
Shrinks ==
    /\ sent' = sent
    /\ \A d \in DOMAIN conns' :
          \/ Frames(d)' = <<>>
          \/ /\ d \in DOMAIN conns
             /\ \/ Frames(d)' = Frames(d)
                \/ Frames(d) # <<>> /\ Frames(d)' = Tail(Frames(d))

LEMMA Shifted ==
    ASSUME Conns, Shrinks, NEW d \in DOMAIN conns'
    PROVE  \E k \in {0, 1} : \A i \in DOMAIN Frames(d)' :
              /\ i \in Nat /\ d \in DOMAIN conns
              /\ i + k \in DOMAIN Frames(d) /\ Frames(d)'[i] = Frames(d)[i + k]
<1>1. CASE Frames(d)' = <<>>
  BY <1>1
<1>2. CASE d \in DOMAIN conns /\ Frames(d)' = Frames(d)
  <2>1. Frames(d) \in Seq(Message)
    BY <1>2, ConnsTyped
  <2>2. \A i \in DOMAIN Frames(d) : i \in Nat /\ i + 0 = i
    BY <2>1, LenProperties
  <2>3. QED
    BY <1>2, <2>2
<1>3. CASE d \in DOMAIN conns /\ Frames(d) # <<>> /\ Frames(d)' = Tail(Frames(d))
  <2>1. Frames(d) \in Seq(Message)
    BY <1>3, ConnsTyped
  <2>2. /\ DOMAIN Frames(d) = 1..Len(Frames(d)) /\ Len(Frames(d)) \in Nat \ {0}
        /\ DOMAIN Tail(Frames(d)) = 1..(Len(Frames(d)) - 1)
        /\ \A i \in 1..(Len(Frames(d)) - 1) : Tail(Frames(d))[i] = Frames(d)[i + 1]
    BY <1>3, <2>1, TailPlaces
  <2>3. QED
    BY <1>3, <2>2
<1>4. QED
  BY <1>1, <1>2, <1>3 DEF Shrinks

LEMMA ShrinksKeeps ==
    ASSUME Conns, Shrinks, OnceEach, InOrder
    PROVE  OnceEach' /\ InOrder'
<1>1. OnceEach'
  <2> SUFFICES ASSUME NEW c \in DOMAIN conns', NEW i \in DOMAIN Frames(c)'
               PROVE  /\ Frames(c)'[i] \in Range(sent')
                      /\ \A d \in DOMAIN conns' : \A j \in DOMAIN Frames(d)' :
                            Frames(c)'[i] = Frames(d)'[j] => c = d /\ i = j
    BY DEF OnceEach
  <2>1. PICK k \in {0, 1} : \A j \in DOMAIN Frames(c)' :
          /\ j \in Nat /\ c \in DOMAIN conns
          /\ j + k \in DOMAIN Frames(c) /\ Frames(c)'[j] = Frames(c)[j + k]
    BY Shifted
  <2>2. Frames(c)'[i] \in Range(sent')
    BY <2>1 DEF OnceEach, Shrinks
  <2>3. ASSUME NEW d \in DOMAIN conns', NEW j \in DOMAIN Frames(d)', Frames(c)'[i] = Frames(d)'[j]
        PROVE  c = d /\ i = j
    <3>1. CASE c = d
      <4>1. i \in Nat /\ j \in Nat /\ i + k = j + k
        BY <2>1, <2>3, <3>1 DEF OnceEach
      <4>2. QED
        BY <3>1, <4>1
    <3>2. CASE c # d
      <4>1. PICK l \in {0, 1} : \A n \in DOMAIN Frames(d)' :
              /\ d \in DOMAIN conns
              /\ n + l \in DOMAIN Frames(d) /\ Frames(d)'[n] = Frames(d)[n + l]
        BY Shifted
      <4>2. QED
        BY <2>1, <2>3, <3>2, <4>1 DEF OnceEach
    <3>3. QED
      BY <3>1, <3>2
  <2>4. QED
    BY <2>2, <2>3
<1>2. InOrder'
  <2> SUFFICES ASSUME NEW c \in DOMAIN conns', NEW i \in DOMAIN Frames(c)', NEW j \in DOMAIN Frames(c)',
                      i < j
               PROVE  Promise!Before(Frames(c)[i], Frames(c)[j])'
    BY DEF InOrder
  <2>1. PICK k \in {0, 1} : \A n \in DOMAIN Frames(c)' :
          /\ n \in Nat /\ c \in DOMAIN conns
          /\ n + k \in DOMAIN Frames(c) /\ Frames(c)'[n] = Frames(c)[n + k]
    BY Shifted
  <2>2. i + k < j + k
    BY <2>1
  <2>3. Promise!Before(Frames(c)[i + k], Frames(c)[j + k])
    BY <2>1, <2>2 DEF InOrder
  <2>4. QED
    BY <2>1, <2>3 DEF Promise!Before, Shrinks
<1>3. QED
  BY <1>1, <1>2

\* A new message comes after all others.
LEMMA WritesKeeps ==
    ASSUME Conns, sent \in Seq(Message), NEW c \in DOMAIN conns, NEW m \in Message, Writes(c, m),
           SentOnce, OnceEach, InOrder
    PROVE  SentOnce' /\ OnceEach' /\ InOrder'
<1> DEFINE L == Len(sent)
           F == Frames(c)
           N == Len(Frames(c))
<1>1. /\ DOMAIN sent = 1..L /\ L \in Nat
      /\ DOMAIN sent' = 1..(L + 1)
      /\ \A i \in DOMAIN sent : sent'[i] = sent[i]
      /\ sent'[L + 1] = m
      /\ Range(sent') = Range(sent) \cup {m}
      /\ m \notin Range(sent)
  BY AppendPlaces DEF Writes
<1>2. F \in Seq(Message)
  BY ConnsTyped
<1>3. /\ DOMAIN F = 1..N /\ N \in Nat
      /\ DOMAIN Append(F, m) = 1..(N + 1)
      /\ \A i \in DOMAIN F : Append(F, m)[i] = F[i]
      /\ Append(F, m)[N + 1] = m
  BY <1>2, AppendPlaces
<1>4. \A i \in DOMAIN sent : sent[i] \in Range(sent)
  BY DEF Range
<1> HIDE DEF L, N
<1>5. SentOnce'
  <2> SUFFICES ASSUME NEW i \in 1..(L + 1), NEW j \in 1..(L + 1), sent'[i] = sent'[j]
               PROVE  i = j
    BY <1>1 DEF SentOnce
  <2>1. CASE i \in 1..L /\ j \in 1..L
    BY <1>1, <2>1 DEF SentOnce
  <2>2. CASE i = L + 1 /\ j \in 1..L
    BY <1>1, <1>4, <2>2
  <2>3. CASE i \in 1..L /\ j = L + 1
    BY <1>1, <1>4, <2>3
  <2>4. QED
    BY <1>1, <2>1, <2>2, <2>3
<1>6. DOMAIN conns' = DOMAIN conns /\ Frames(c)' = Append(F, m)
      /\ \A d \in DOMAIN conns : d # c => Frames(d)' = Frames(d)
  BY DEF Writes, Only
<1>7. ASSUME NEW d \in DOMAIN conns', NEW i \in DOMAIN Frames(d)'
      PROVE  \/ d = c /\ i = N + 1 /\ Frames(d)'[i] = m
             \/ d \in DOMAIN conns /\ i \in DOMAIN Frames(d) /\ Frames(d)'[i] = Frames(d)[i]
                /\ (d = c => i < N + 1)
  <2>1. CASE d # c
    BY <1>6, <2>1
  <2>2. CASE d = c
    <3>1. i \in 1..(N + 1)
      BY <1>3, <1>6, <2>2
    <3>2. CASE i = N + 1
      BY <1>3, <1>6, <2>2, <3>2
    <3>3. CASE i \in 1..N
      BY <1>3, <1>6, <2>2, <3>3
    <3>4. QED
      BY <1>3, <3>1, <3>2, <3>3
  <2>3. QED
    BY <2>1, <2>2
<1>8. OnceEach'
  <2> SUFFICES ASSUME NEW d \in DOMAIN conns', NEW i \in DOMAIN Frames(d)'
               PROVE  /\ Frames(d)'[i] \in Range(sent')
                      /\ \A e \in DOMAIN conns' : \A j \in DOMAIN Frames(e)' :
                            Frames(d)'[i] = Frames(e)'[j] => d = e /\ i = j
    BY DEF OnceEach
  <2>1. \A e \in DOMAIN conns : \A j \in DOMAIN Frames(e) : Frames(e)[j] \in Range(sent) /\ Frames(e)[j] # m
    BY <1>1 DEF OnceEach
  <2>2. CASE d = c /\ i = N + 1 /\ Frames(d)'[i] = m
    BY <1>1, <1>7, <2>1, <2>2
  <2>3. CASE d \in DOMAIN conns /\ i \in DOMAIN Frames(d) /\ Frames(d)'[i] = Frames(d)[i]
    <3>1. Frames(d)'[i] \in Range(sent') /\ Frames(d)'[i] # m
      BY <1>1, <2>1, <2>3
    <3>2. ASSUME NEW e \in DOMAIN conns', NEW j \in DOMAIN Frames(e)', Frames(d)'[i] = Frames(e)'[j]
          PROVE  d = e /\ i = j
      <4>1. e \in DOMAIN conns /\ j \in DOMAIN Frames(e) /\ Frames(e)'[j] = Frames(e)[j]
        BY <1>7, <3>1, <3>2
      <4>2. Frames(d)[i] = Frames(e)[j]
        BY <2>3, <3>2, <4>1
      <4>3. QED
        BY <2>3, <4>1, <4>2 DEF OnceEach
    <3>3. QED
      BY <3>1, <3>2
  <2>4. QED
    BY <1>7, <2>2, <2>3
<1>9. InOrder'
  <2> SUFFICES ASSUME NEW d \in DOMAIN conns', NEW i \in DOMAIN Frames(d)', NEW j \in DOMAIN Frames(d)',
                      i < j
               PROVE  Promise!Before(Frames(d)[i], Frames(d)[j])'
    BY DEF InOrder
  <2>1. CASE d \in DOMAIN conns /\ j \in DOMAIN Frames(d) /\ Frames(d)'[j] = Frames(d)[j]
               /\ i \in DOMAIN Frames(d) /\ Frames(d)'[i] = Frames(d)[i]
    <3>1. PICK a \in DOMAIN sent, b \in DOMAIN sent : a < b /\ sent[a] = Frames(d)[i] /\ sent[b] = Frames(d)[j]
      BY <2>1 DEF InOrder, Promise!Before
    <3>2. a \in DOMAIN sent' /\ b \in DOMAIN sent' /\ sent'[a] = sent[a] /\ sent'[b] = sent[b]
      BY <1>1
    <3>3. QED
      BY <2>1, <3>1, <3>2 DEF Promise!Before
  <2>2. CASE d = c /\ j = N + 1 /\ Frames(d)'[j] = m
    <3>1. i \in DOMAIN F /\ Frames(d)'[i] = F[i]
      BY <1>3, <1>7, <2>2
    <3>2. F[i] \in Range(sent)
      BY <3>1 DEF OnceEach
    <3>3. PICK a \in DOMAIN sent : sent[a] = F[i]
      BY <3>2 DEF Range
    <3>4. /\ a \in DOMAIN sent' /\ L + 1 \in DOMAIN sent' /\ a < L + 1
          /\ sent'[a] = F[i] /\ sent'[L + 1] = m
      BY <1>1, <3>3
    <3>5. QED
      BY <2>2, <3>1, <3>4 DEF Promise!Before
  <2>3. d = c => j \in 1..(N + 1) /\ i \in 1..(N + 1)
    BY <1>3, <1>6
  <2>4. QED
    BY <1>3, <1>7, <2>1, <2>2, <2>3
<1>10. QED
  BY <1>5, <1>8, <1>9

\* A thread that is done stays so, and calls are counted upwards.
LEMMA FreshNext ==
    ASSUME TypeOK, Held, Fresh, Next
    PROVE  Fresh'
<1>0. MaxSends \in Nat /\ \A t \in Senders : call[t] \in 1..MaxSends
  BY TransportAssumption DEF TypeOK
<1>1. ASSUME sent' = sent,
             \A t \in Senders :
                \/ call'[t] = call[t] + 1
                \/ call'[t] = call[t] /\ (pc[t] = "done" => pc'[t] = "done")
      PROVE  Fresh'
  BY <1>0, <1>1 DEF Fresh
<1>2. ASSUME NEW t \in Senders, GetLink(t) \/ Connect(t) \/ Register(t) PROVE Fresh'
  <2>1. sent' = sent /\ call' = call /\ pc[t] # "done" /\ \A u \in Senders : u # t => pc'[u] = pc[u]
    BY <1>2, GetLinkDoes, ConnectDoes, Goes DEF GetLink, Connect, Register
  <2>2. QED
    BY <1>1, <2>1
<1>3. ASSUME NEW t \in Senders, sent' = sent, pc[t] # "done", EndCall(t) PROVE Fresh'
  BY <1>1, <1>3, CallEnds
<1>4. ASSUME NEW t \in Senders, LookUpLock(t) PROVE Fresh'
  <2>1. CASE out_lock # None
    <3>1. sent' = sent /\ call' = call /\ pc[t] # "done" /\ \A u \in Senders : u # t => pc'[u] = pc[u]
      BY <1>4, <2>1, Goes DEF LookUpLock
    <3>2. QED
      BY <1>1, <3>1
  <2>2. CASE out_lock = None
    BY <1>3, <1>4, <2>2 DEF LookUpLock
  <2>3. QED
    BY <2>1, <2>2
<1>5. ASSUME NEW t \in Senders, SendFrame(t) PROVE Fresh'
  <2>1. PICK m : m = <<t, call[t]>>
    OBVIOUS
  <2>2. pc[t] = "send" /\ EndCall(t) /\ sent' = Append(sent, m) /\ sent \in Seq(Message) /\ m \in Message
    BY <1>5, <2>1, TypeGives DEF SendFrame, TypeOK
  <2>3. Range(sent') = Range(sent) \cup {m}
    BY <2>2, AppendPlaces
  <2>4. /\ \/ pc'[t] = "link" /\ call'[t] = call[t] + 1
           \/ pc'[t] = "done" /\ call'[t] = call[t]
        /\ \A u \in Senders : u # t => pc'[u] = pc[u] /\ call'[u] = call[u]
    BY <2>2, CallEnds
  <2>5. SUFFICES ASSUME NEW u \in Senders, NEW n \in 1..MaxSends, <<u, n>> \in Range(sent')
                 PROVE  n < call'[u] \/ (n = call'[u] /\ pc'[u] = "done")
    BY DEF Fresh
  <2>6. CASE <<u, n>> = m
    <3>1. u = t /\ n = call[t]
      BY <2>1, <2>6
    <3>2. QED
      BY <1>0, <2>4, <3>1
  <2>7. CASE <<u, n>> \in Range(sent)
    <3>1. n < call[u] \/ (n = call[u] /\ pc[u] = "done")
      BY <2>7 DEF Fresh
    <3>2. CASE u = t
      BY <1>0, <2>2, <2>4, <3>1, <3>2
    <3>3. CASE u # t
      BY <2>4, <3>1, <3>3
    <3>4. QED
      BY <3>2, <3>3
  <2>8. QED
    BY <2>3, <2>5, <2>6, <2>7
<1>6. ASSUME NEW t \in Senders, SendFails(t) \/ GiveUp(t) PROVE Fresh'
  BY <1>3, <1>6 DEF SendFails, GiveUp
<1>7. ASSUME sent' = sent, senderVars' = senderVars PROVE Fresh'
  BY <1>7 DEF senderVars, Fresh
<1>8. ASSUME Close \/ \E c \in DOMAIN conns : ReaderStep(c) \/ Break(c) PROVE Fresh'
  BY <1>7, <1>8 DEF Close, ReaderStep, ReadFrame, PutInbox, ReaderStops, Break
<1>9. QED
  BY <1>2, <1>4, <1>5, <1>6, <1>8 DEF Next, Step, Failure, SenderStep

LEMMA OneReadNext ==
    ASSUME TypeOK, Held, OneRead, Next
    PROVE  OneRead'
<1>0. Conns /\ conns \in Seq(Connection) /\ DOMAIN conns = 1..Len(conns)
  BY TypeGives DEF TypeOK
<1>1. ASSUME conns' \in Seq(Connection), Len(conns') = Len(conns),
             \A d \in DOMAIN conns : conns'[d].read = conns[d].read
      PROVE  OneRead'
  <2>1. DOMAIN conns' = DOMAIN conns
    BY <1>0, <1>1, LenProperties
  <2>2. QED
    BY <1>1, <2>1 DEF OneRead
<1>2. ASSUME NEW t \in Senders, GetLink(t) \/ LookUpLock(t) \/ GiveUp(t) PROVE OneRead'
  BY <1>2 DEF GetLink, LookUpLock, GiveUp, OneRead
<1>3. ASSUME NEW t \in Senders, Connect(t) PROVE OneRead'
  <2>1. PICK new : new = Len(conns) + 1
    OBVIOUS
  <2>2. /\ DOMAIN conns' = DOMAIN conns \cup {new}
        /\ \A d \in DOMAIN conns : conns'[d] = conns[d]
        /\ conns'[new] = NewConnection
    BY <1>3, <2>1, ConnectDoes
  <2>3. conns'[new].read = <<>>
    BY <2>2 DEF NewConnection
  <2>4. QED
    BY <2>2, <2>3 DEF OneRead
<1>4. ASSUME NEW t \in Senders, Register(t) \/ SendFrame(t) \/ SendFails(t) PROVE OneRead'
  <2>1. PICK c : c = sock[t]
    OBVIOUS
  <2>2. CASE Register(t)
    BY <1>1, <2>1, <2>2, RegisterDoes
  <2>3. CASE SendFrame(t)
    BY <1>1, <2>1, <2>3, SendFrameDoes DEF Changed
  <2>4. CASE SendFails(t)
    BY <1>1, <2>1, <2>4, SendFailsDoes DEF Changed
  <2>5. QED
    BY <1>4, <2>2, <2>3, <2>4
<1>5. ASSUME NEW c \in DOMAIN conns, Changed(c), conns'[c].read # <<>> => Len(conns'[c].read) = 1
      PROVE  OneRead'
  <2>1. DOMAIN conns' = DOMAIN conns /\ \A d \in DOMAIN conns : d # c => conns'[d] = conns[d]
    BY <1>0, <1>5, LenProperties DEF Changed
  <2>2. QED
    BY <1>5, <2>1 DEF OneRead
<1>6. ASSUME NEW c \in DOMAIN conns, ReaderStep(c) PROVE OneRead'
  BY <1>5, <1>6, ReaderDoes
<1>7. ASSUME NEW c \in DOMAIN conns, Break(c) PROVE OneRead'
  <2>1. Changed(c) /\ conns'[c].read = conns[c].read
    BY <1>0, <1>7, BreakOne DEF Break
  <2>2. QED
    BY <1>5, <2>1 DEF OneRead
<1>8. ASSUME Close PROVE OneRead'
  <2>1. PICK c : c = out_link
    OBVIOUS
  <2>2. QED
    BY <1>1, <1>8, <2>1, CloseDoes DEF Changed
<1>9. QED
  BY <1>2, <1>3, <1>4, <1>6, <1>7, <1>8 DEF Next, Step, Failure, SenderStep

----------------------------------------------------------------------------
(* The invariant.                                                          *)

LEMMA InvariantInit == Init => IInv
<1> SUFFICES ASSUME Init PROVE IInv
  OBVIOUS
<1>0. /\ MaxSends \in Nat \ {0} /\ MaxConnections \in Nat /\ MaxFailures \in Nat
  BY TransportAssumption
<1>1. conns = <<>> /\ Len(conns) = 0 /\ DOMAIN conns = {} /\ sent = <<>> /\ DOMAIN sent = {}
  BY DEF Init
<1>2. TypeOK
  BY <1>0, EmptySeq DEF Init, TypeOK, None
<1>3. Held /\ Own /\ LinkUsable
  BY <1>1 DEF Init, Held, Own, LinkUsable, None
<1>4. Quiet
  BY <1>1 DEF Init, Quiet, OneLink, AllThere
<1>5. Fresh /\ SentOnce /\ OneRead /\ OnceEach /\ InOrder
  BY <1>1 DEF Fresh, SentOnce, OneRead, OnceEach, InOrder, Range
<1>6. QED
  BY <1>2, <1>3, <1>4, <1>5 DEF IInv, Links, Places

LEMMA InvariantNext == IInv /\ [Next]_vars => IInv'
<1> SUFFICES ASSUME IInv, [Next]_vars PROVE IInv'
  OBVIOUS
<1>0. /\ Links /\ TypeOK /\ Held /\ Quiet /\ Fresh /\ SentOnce /\ OneRead /\ OnceEach /\ InOrder
      /\ Conns /\ sent \in Seq(Message)
  BY TypeGives DEF IInv, Links, Places, TypeOK
<1>1. CASE Next
  <2>1. Links'
    BY <1>0, <1>1, TypeNext, LinksNext DEF Links
  <2>2. Quiet' /\ Fresh' /\ OneRead'
    BY <1>0, <1>1, QuietNext, FreshNext, OneReadNext
  <2>3. SentOnce' /\ OnceEach' /\ InOrder'
    <3>1. ASSUME Shrinks PROVE SentOnce' /\ OnceEach' /\ InOrder'
      BY <1>0, <3>1, ShrinksKeeps DEF SentOnce, Shrinks
    <3>2. CASE Keeps
      BY <3>1, <3>2 DEF Keeps, Shrinks
    <3>3. ASSUME NEW c \in DOMAIN conns, Takes(c) \/ Drops(c) PROVE Shrinks
      BY <3>3 DEF Takes, Drops, Only, Shrinks
    <3>4. ASSUME NEW c \in DOMAIN conns, NEW m \in Message, Writes(c, m)
          PROVE  SentOnce' /\ OnceEach' /\ InOrder'
      BY <1>0, <3>4, WritesKeeps
    <3>5. QED
      BY <1>0, <1>1, <3>1, <3>2, <3>3, <3>4, FramesNext
  <2>4. QED
    BY <2>1, <2>2, <2>3 DEF IInv, Places
<1>2. CASE UNCHANGED vars
  <2>1. /\ Links'
    BY <1>0, <1>2 DEF Links, TypeOK, Held, Own, LinkUsable, vars, nodeVars, senderVars
  <2>2. Quiet'
    BY <1>0, <1>2 DEF Quiet, OneLink, AllThere, Frames, vars, nodeVars, senderVars
  <2>3. conns' = conns /\ sent' = sent /\ pc' = pc /\ call' = call
    BY <1>2 DEF vars, senderVars
  <2>4. Fresh' /\ SentOnce' /\ OneRead'
    BY <1>0, <2>3 DEF Fresh, SentOnce, OneRead
  <2>a. \A d \in DOMAIN conns : Frames(d)' = Frames(d)
    BY <2>3 DEF Frames
  <2>5. OnceEach'
    BY <1>0, <2>3, <2>a DEF OnceEach
  <2>6. InOrder'
    <3> SUFFICES ASSUME NEW c \in DOMAIN conns, NEW i \in DOMAIN Frames(c), NEW j \in DOMAIN Frames(c), i < j
                 PROVE  Promise!Before(Frames(c)[i], Frames(c)[j])'
      BY <2>3, <2>a DEF InOrder
    <3>1. Promise!Before(Frames(c)[i], Frames(c)[j])
      BY <1>0 DEF InOrder
    <3>2. QED
      BY <2>3, <2>a, <3>1 DEF Promise!Before
  <2>7. QED
    BY <2>1, <2>2, <2>4, <2>5, <2>6 DEF IInv, Places
<1>3. QED
  BY <1>1, <1>2

LEMMA Invariant == Spec => []IInv
  BY InvariantInit, InvariantNext, PTL DEF Spec

----------------------------------------------------------------------------
(* The transport implements Link.                                          *)

LEMMA WhatIsOnTheWay ==
    \A m : m \in OnTheWay <=> \E c \in DOMAIN conns : \E i \in DOMAIN Frames(c) : Frames(c)[i] = m
  BY DEF OnTheWay, Range

\* A step that moves no frame is none of the promise, except a first failure.
LEMMA KeepsIsNone ==
    ASSUME Keeps, failures \in Nat
    PROVE  Promise!Fail \/ UNCHANGED Promise!vars
<1>1. \A d \in DOMAIN conns' : \/ d \in DOMAIN conns /\ Range(Frames(d)') = Range(Frames(d))
                               \/ d \notin DOMAIN conns /\ Range(Frames(d)') = {}
  BY DEF Keeps, Range
<1>2. \A d \in DOMAIN conns : d \in DOMAIN conns'
  BY DEF Keeps
<1>3. OnTheWay' = OnTheWay
  <2>1. OnTheWay' = UNION {Range(Frames(d)') : d \in DOMAIN conns'}
    BY DEF OnTheWay, Range
  <2>2. QED
    BY <1>1, <1>2, <2>1 DEF OnTheWay
<1>4. sent' = sent /\ inbox' = inbox
  BY DEF Keeps
<1>5. CASE failures > 0
  <2>1. (failures > 0)' <=> failures > 0
    BY <1>5 DEF Keeps
  <2>2. QED
    BY <1>3, <1>4, <2>1 DEF Promise!vars
<1>6. CASE ~(failures > 0)
  <2>1. CASE failures' > 0
    <3>1. (failures > 0)' = TRUE
      BY <2>1
    <3>2. QED
      BY <1>3, <1>4, <3>1 DEF Promise!Fail
  <2>2. CASE ~(failures' > 0)
    BY <1>3, <1>4, <1>6, <2>2 DEF Promise!vars
  <2>3. QED
    BY <2>1, <2>2
<1>7. QED
  BY <1>5, <1>6

LEMMA OnlyOneMoves ==
    ASSUME NEW c \in DOMAIN conns, Only(c)
    PROVE  \A m : m \in OnTheWay' <=>
              \/ \E d \in DOMAIN conns \ {c} : \E i \in DOMAIN Frames(d) : Frames(d)[i] = m
              \/ \E i \in DOMAIN Frames(c)' : Frames(c)'[i] = m
<1>1. OnTheWay' = UNION {Range(Frames(d)') : d \in DOMAIN conns}
  BY DEF OnTheWay, Range, Only
<1>2. \A d \in DOMAIN conns \ {c} : Frames(d)' = Frames(d)
  BY DEF Only
<1>3. \A m : m \in OnTheWay' <=> \E d \in DOMAIN conns : \E i \in DOMAIN Frames(d)' : Frames(d)'[i] = m
  BY <1>1 DEF Range
<1>4. QED
  BY <1>2, <1>3

LEMMA WritesIsSend ==
    ASSUME Conns, NEW c \in DOMAIN conns, NEW m \in Message, Writes(c, m)
    PROVE  Promise!Send(m)
<1>1. /\ Only(c) /\ m \notin Range(sent) /\ sent' = Append(sent, m) /\ inbox' = inbox
      /\ Frames(c)' = Append(Frames(c), m) /\ failures' = failures
  BY DEF Writes, Only
<1>2. Frames(c) \in Seq(Message)
  BY ConnsTyped
<1>3. /\ DOMAIN Frames(c) = 1..Len(Frames(c)) /\ Len(Frames(c)) \in Nat
      /\ DOMAIN Frames(c)' = 1..(Len(Frames(c)) + 1)
      /\ \A i \in DOMAIN Frames(c) : Frames(c)'[i] = Frames(c)[i]
      /\ Frames(c)'[Len(Frames(c)) + 1] = m
  BY <1>1, <1>2, AppendPlaces
<1>4. \A n : (\E i \in DOMAIN Frames(c)' : Frames(c)'[i] = n)
               <=> n = m \/ \E i \in DOMAIN Frames(c) : Frames(c)[i] = n
  <2> SUFFICES ASSUME NEW n
               PROVE  (\E i \in DOMAIN Frames(c)' : Frames(c)'[i] = n)
                        <=> n = m \/ \E i \in DOMAIN Frames(c) : Frames(c)[i] = n
    OBVIOUS
  <2>1. ASSUME NEW i \in DOMAIN Frames(c)', Frames(c)'[i] = n
        PROVE  n = m \/ \E j \in DOMAIN Frames(c) : Frames(c)[j] = n
    <3>1. i \in DOMAIN Frames(c) \/ i = Len(Frames(c)) + 1
      BY <1>3
    <3>2. QED
      BY <1>3, <2>1, <3>1
  <2>2. ASSUME NEW j \in DOMAIN Frames(c), Frames(c)[j] = n
        PROVE  \E i \in DOMAIN Frames(c)' : Frames(c)'[i] = n
    <3>1. j \in DOMAIN Frames(c)' /\ Frames(c)'[j] = n
      BY <1>3, <2>2
    <3>2. QED
      BY <3>1
  <2>3. Len(Frames(c)) + 1 \in DOMAIN Frames(c)'
    BY <1>3
  <2>4. QED
    BY <1>3, <2>1, <2>2, <2>3
<1>5. OnTheWay' = OnTheWay \cup {m}
  BY <1>1, <1>4, OnlyOneMoves, WhatIsOnTheWay
<1>6. m \notin Promise!Range(sent)
  BY <1>1 DEF Range, Promise!Range
<1>7. QED
  BY <1>1, <1>5, <1>6 DEF Promise!Send

\* While nothing has failed, all that is on its way is in one connection, and the
\* oldest of it arrives.
LEMMA TakesIsArrive ==
    ASSUME IInv, NEW c \in DOMAIN conns, Takes(c), NEW m, m = Frames(c)[1]
    PROVE  m \in OnTheWay /\ Promise!Arrive(m)
<1>0. /\ Conns /\ Quiet /\ SentOnce /\ OnceEach /\ InOrder /\ failures \in Nat
      /\ inbox \in Seq(Message) /\ sent \in Seq(Message)
  BY TypeGives, TransportAssumption DEF IInv, Links, Places, TypeOK
<1>1. /\ Only(c) /\ Frames(c) # <<>> /\ Frames(c)' = Tail(Frames(c))
      /\ sent' = sent /\ inbox' = inbox \o <<m>> /\ failures' = failures
  BY DEF Takes, Only
<1>2. Frames(c) \in Seq(Message)
  BY <1>0, ConnsTyped
<1>3. /\ m \in Message
      /\ DOMAIN Frames(c) = 1..Len(Frames(c)) /\ Len(Frames(c)) \in Nat \ {0}
      /\ DOMAIN Frames(c)' = 1..(Len(Frames(c)) - 1)
      /\ \A i \in 1..(Len(Frames(c)) - 1) : Frames(c)'[i] = Frames(c)[i + 1]
  BY <1>1, <1>2, TailPlaces
<1>4. 1 \in DOMAIN Frames(c) /\ \A i \in DOMAIN Frames(c) : i = 1 \/ (1 < i /\ i - 1 \in DOMAIN Frames(c)')
  BY <1>3
<1>5. m \in OnTheWay
  BY <1>4, WhatIsOnTheWay
<1>6. OnTheWay' = OnTheWay \ {m}
  <2>1. ASSUME NEW n, n \in OnTheWay' PROVE n \in OnTheWay \ {m}
    <3>1. CASE \E d \in DOMAIN conns \ {c} : \E i \in DOMAIN Frames(d) : Frames(d)[i] = n
      BY <1>0, <1>4, <3>1, WhatIsOnTheWay DEF OnceEach
    <3>2. CASE \E i \in DOMAIN Frames(c)' : Frames(c)'[i] = n
      <4>1. PICK i \in DOMAIN Frames(c)' : Frames(c)'[i] = n
        BY <3>2
      <4>2. i + 1 \in DOMAIN Frames(c) /\ i + 1 # 1 /\ Frames(c)[i + 1] = n
        BY <1>3, <4>1
      <4>3. n # m
        BY <1>0, <1>4, <4>2 DEF OnceEach
      <4>4. QED
        BY <4>2, <4>3, WhatIsOnTheWay
    <3>3. QED
      BY <1>1, <2>1, <3>1, <3>2, OnlyOneMoves
  <2>2. ASSUME NEW n, n \in OnTheWay, n # m PROVE n \in OnTheWay'
    <3>1. PICK d \in DOMAIN conns : \E i \in DOMAIN Frames(d) : Frames(d)[i] = n
      BY <2>2, WhatIsOnTheWay
    <3>2. CASE d # c
      BY <1>1, <3>1, <3>2, OnlyOneMoves
    <3>3. CASE d = c
      <4>1. PICK i \in DOMAIN Frames(c) : Frames(c)[i] = n
        BY <3>1, <3>3
      <4>2. i - 1 \in DOMAIN Frames(c)'
        BY <1>4, <2>2, <4>1
      <4>3. Frames(c)'[i - 1] = n
        BY <1>3, <4>1, <4>2
      <4>4. QED
        BY <1>1, <4>2, <4>3, OnlyOneMoves
    <3>4. QED
      BY <3>2, <3>3
  <2>3. QED
    BY <2>1, <2>2
<1>7. ASSUME failures = 0, NEW n \in OnTheWay, Promise!Before(n, m) PROVE FALSE
  <2>0. PICK d \in DOMAIN conns : \E j \in DOMAIN Frames(d) : Frames(d)[j] = n
    BY WhatIsOnTheWay
  <2>1. PICK j \in DOMAIN Frames(d) : Frames(d)[j] = n
    BY <2>0
  <2>2. Frames(d) \in Seq(Message)
    BY <1>0, ConnsTyped
  <2>3. Frames(d) # <<>>
    BY <2>1
  <2>4. d = c
    BY <1>0, <1>1, <1>7, <2>3 DEF Quiet, AllThere
  <2>5. PICK a \in DOMAIN sent, b \in DOMAIN sent : a < b /\ sent[a] = n /\ sent[b] = m
    BY <1>7 DEF Promise!Before
  <2>6. DOMAIN sent = 1..Len(sent) /\ Len(sent) \in Nat
    BY <1>0, LenProperties
  <2>7. CASE j = 1
    BY <1>0, <2>1, <2>4, <2>5, <2>6, <2>7 DEF SentOnce
  <2>8. CASE 1 < j
    <3>1. Promise!Before(m, n)
      BY <1>0, <1>4, <2>1, <2>4, <2>8 DEF InOrder
    <3>2. PICK e \in DOMAIN sent, f \in DOMAIN sent : e < f /\ sent[e] = m /\ sent[f] = n
      BY <3>1 DEF Promise!Before
    <3>3. e = b /\ f = a
      BY <1>0, <2>5, <3>2 DEF SentOnce
    <3>4. QED
      BY <2>5, <2>6, <3>2, <3>3
  <2>9. QED
    BY <1>4, <2>1, <2>4, <2>7, <2>8
<1>8. failures > 0 \/ \A n \in OnTheWay : ~Promise!Before(n, m)
  BY <1>0, <1>7
<1>9. inbox' = Append(inbox, m)
  BY <1>0, <1>1, <1>3, AppendIsConcat
<1>10. QED
  BY <1>1, <1>5, <1>6, <1>8, <1>9 DEF Promise!Arrive

\* Frames are dropped of a broken connection only.
LEMMA DropsIsDrop ==
    ASSUME IInv, NEW c \in DOMAIN conns, Drops(c)
    PROVE  \E gone \in SUBSET OnTheWay : Promise!Drop(gone)
<1>0. Quiet /\ OnceEach /\ failures \in Nat
  BY TransportAssumption DEF IInv, Links, Places, TypeOK
<1>1. /\ Only(c) /\ conns[c].broken /\ Frames(c)' = <<>>
      /\ sent' = sent /\ inbox' = inbox /\ failures' = failures
  BY DEF Drops, Only
<1>2. failures > 0
  BY <1>0, <1>1 DEF Quiet, AllThere
<1> DEFINE gone == {m \in OnTheWay : \E i \in DOMAIN Frames(c) : Frames(c)[i] = m}
<1>3. \A m : ~\E i \in DOMAIN Frames(c)' : Frames(c)'[i] = m
  BY <1>1
<1>4. \A m : m \in OnTheWay' <=> \E d \in DOMAIN conns \ {c} : \E i \in DOMAIN Frames(d) : Frames(d)[i] = m
  BY <1>1, <1>3, OnlyOneMoves
<1>5. \A m : m \in OnTheWay \ gone <=>
             \E d \in DOMAIN conns \ {c} : \E i \in DOMAIN Frames(d) : Frames(d)[i] = m
  BY <1>0, WhatIsOnTheWay DEF OnceEach
<1>6. OnTheWay' = OnTheWay \ gone
  BY <1>4, <1>5
<1> HIDE DEF gone
<1>7. Promise!Drop(gone)
  BY <1>1, <1>2, <1>6 DEF Promise!Drop
<1>8. gone \in SUBSET OnTheWay
  BY DEF gone
<1>9. QED
  BY <1>7, <1>8

LEMMA PromiseNext ==
    ASSUME IInv, [Next]_vars
    PROVE  [Promise!Next]_(Promise!vars)
<1>0. Links /\ OneRead /\ Fresh /\ Conns /\ failures \in Nat
  BY TypeGives, TransportAssumption DEF IInv, Links, Places, TypeOK
<1>1. CASE Next
  <2>1. CASE Keeps
    BY <1>0, <2>1, KeepsIsNone DEF Promise!Next
  <2>2. ASSUME NEW c \in DOMAIN conns, Takes(c) PROVE Promise!Next
    <3>1. PICK m : m = Frames(c)[1]
      OBVIOUS
    <3>2. QED
      BY <2>2, <3>1, TakesIsArrive DEF Promise!Next
  <2>3. ASSUME NEW c \in DOMAIN conns, Drops(c) PROVE Promise!Next
    BY <2>3, DropsIsDrop DEF Promise!Next
  <2>4. ASSUME NEW c \in DOMAIN conns, NEW m \in Message, Writes(c, m) PROVE Promise!Next
    BY <1>0, <2>4, WritesIsSend DEF Promise!Next
  <2>5. QED
    BY <1>0, <1>1, <2>1, <2>2, <2>3, <2>4, FramesNext
<1>2. CASE UNCHANGED vars
  <2>1. conns' = conns /\ sent' = sent /\ inbox' = inbox /\ failures' = failures
    BY <1>2 DEF vars
  <2>2. OnTheWay' = OnTheWay
    BY <2>1 DEF OnTheWay, Frames, Range
  <2>3. QED
    BY <2>1, <2>2 DEF Promise!vars
<1>3. QED
  BY <1>1, <1>2

LEMMA PromiseInit == Init => Promise!Init
<1> SUFFICES ASSUME Init PROVE Promise!Init
  OBVIOUS
<1>1. conns = <<>> /\ sent = <<>> /\ inbox = <<>> /\ failures = 0
  BY DEF Init
<1>2. OnTheWay = {}
  BY <1>1 DEF OnTheWay
<1>3. (failures > 0) = FALSE
  BY <1>1
<1>4. QED
  BY <1>1, <1>2, <1>3 DEF Promise!Init

----------------------------------------------------------------------------
(* The theorems.                                                           *)

\* Every variable has its type: threads count their calls, hold connections that
\* were made and put messages into the inbox.
THEOREM TypeCorrect == Spec => []TypeOK
<1>1. IInv => TypeOK
  BY DEF IInv, Links
<1>2. QED
  BY <1>1, Invariant, PTL

\* A registered link is usable, for any number of threads, reconnections, failures
\* and calls of close: no thread whose older socket fails closes it or takes its
\* lock away.
THEOREM LinksUsable == Spec => []LinkUsable
<1>1. IInv => LinkUsable
  BY DEF IInv, Links
<1>2. QED
  BY <1>1, Invariant, PTL

\* However many threads race to connect, those that lose close their connections,
\* and without a failure one at most is left open.
THEOREM OneConnectionLeft == Spec => []OneConnection
<1>1. IInv => OneConnection
  <2> SUFFICES ASSUME IInv, failures = 0, \A t \in Senders : pc[t] = "done",
                      NEW c \in DOMAIN conns, NEW d \in DOMAIN conns,
                      ~conns[c].closed, ~conns[d].closed
               PROVE  c = d
    BY DEF OneConnection
  <2>1. AllThere
    BY DEF IInv, Quiet
  <2>2. QED
    BY <2>1 DEF AllThere
<1>2. QED
  BY <1>1, Invariant, PTL

\* The node keeps the promise of Link: as long as no connection fails, messages
\* arrive in the order of sending, and never does one arrive twice or out of
\* nowhere, whatever races, failures, reconnections and readers there are.
THEOREM ImplementsLink == Spec => KeepsPromise
<1>1. Init => Promise!Init
  BY PromiseInit
<1>2. IInv /\ [Next]_vars => [Promise!Next]_(Promise!vars)
  BY PromiseNext
<1>3. QED
  BY <1>1, <1>2, Invariant, PTL DEF Spec, KeepsPromise, Promise!Spec

=============================================================================
