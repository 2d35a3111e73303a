--------------------------- MODULE AshLinkProofs ----------------------------
(***************************************************************************)
(* Proofs about AshLink, for every modulus, pair of windows below it,      *)
(* number of payloads, faults and resets: as long as resets begin on a     *)
(* silent line, each direction of an ASH link is a reliable FIFO channel.  *)
(*                                                                         *)
(* The argument is the same for both directions, so it is made once, about *)
(* a line of frames, and used twice.  A frame has a place in its session,  *)
(* Index, of which the line carries only the remainder, Num.  The window   *)
(* makes the remainder enough: DataInOrder says that no frame on the line  *)
(* is a whole window behind the receiver, nor behind a frame ahead of it   *)
(* on the line, and AcksInOrder that acknowledgements on the line never    *)
(* run backwards nor ahead of the receiver.                                *)
(***************************************************************************)
EXTENDS AshLink, AshConnectionProofs, SequenceTheorems

Num(k) == k % SEQUENCE_MODULUS

\* The place of a DATA frame in a session whose payloads are base + 1, base + 2 and so on.
Index(f, base) == f.payload - base - 1

Acknowledges(f) == f.kind \in {"Data", "Ack", "Nak"}

LineFrame == AshFrame \cup {Garbled}

\* sent payloads were sent, received were received, over a window of w.
DataInOrder(line, base, sent, received_count, w) ==
    \A i \in 1 .. Len(line) :
        line[i].kind = "Data" =>
            /\ Index(line[i], base) \in 0 .. (sent - 1)
            /\ line[i].frame_num = Num(Index(line[i], base))
            /\ received_count <= Index(line[i], base) + w
            /\ \A j \in 1 .. i :
                  line[j].kind = "Data" => Index(line[j], base) < Index(line[i], base) + w

\* acked payloads were acknowledged to the sender, received_count were received.
AcksInOrder(line, acked, received_count) ==
    \A i \in 1 .. Len(line) :
        Acknowledges(line[i]) =>
            \E x \in acked .. received_count :
                /\ line[i].ack_num = Num(x)
                /\ \A j \in i .. Len(line) :
                      Acknowledges(line[j]) =>
                          \E y \in x .. received_count : line[j].ack_num = Num(y)

\* The histories, the sender's numbers and the receiver's agree on a session that starts after base.
SessionInOrder(base, sentSeq, gotSeq, outstanding, tx, rx, w) ==
    /\ outstanding <= w
    /\ outstanding <= Len(sentSeq)
    /\ Len(sentSeq) - outstanding <= Len(gotSeq)
    /\ Len(gotSeq) <= Len(sentSeq)
    /\ tx = Num(Len(sentSeq))
    /\ rx = Num(Len(gotSeq))
    /\ \A i \in 1 .. Len(sentSeq) : sentSeq[i] = base + i
    /\ \A i \in 1 .. Len(gotSeq) : gotSeq[i] = base + i

-----------------------------------------------------------------------------
(* The two directions *)

HostBase == hostCount - Len(hostSent)
NcpBase == HostData + ncpCount - Len(ncpSent)

HostAcked == Len(hostSent) - Len(in_flight)
NcpAcked == Len(ncpSent) - Len(ncp_out)

HostQueueInOrder ==
    \A i \in 1 .. Len(in_flight) :
        /\ in_flight[i].frame_num = Num(HostAcked + i - 1)
        /\ in_flight[i].payload = HostBase + HostAcked + i

NcpQueueInOrder ==
    \A i \in 1 .. Len(ncp_out) :
        /\ ncp_out[i][1] = Num(NcpAcked + i - 1)
        /\ ncp_out[i][2] = NcpBase + NcpAcked + i

HostDirection ==
    /\ SessionInOrder(HostBase, hostSent, ncpGot, Len(in_flight), next_tx_frame, ncp_rx, MAX_WINDOW)
    /\ HostQueueInOrder
    /\ DataInOrder(toNcp, HostBase, Len(hostSent), Len(ncpGot), MAX_WINDOW)
    /\ AcksInOrder(toHost, HostAcked, Len(ncpGot))

\* The NCP's side of a session in which got is what the host has taken, and rx what it expects.
NcpSession(got, rx) ==
    /\ SessionInOrder(NcpBase, ncpSent, got, Len(ncp_out), ncp_tx, rx, NcpWindow)
    /\ NcpQueueInOrder
    /\ DataInOrder(toHost, NcpBase, Len(ncpSent), Len(got), NcpWindow)

NcpDirection ==
    /\ NcpSession(hostGot, next_rx_frame)
    /\ AcksInOrder(toNcp, NcpAcked, Len(hostGot))

-----------------------------------------------------------------------------
(* The inductive invariant *)

LinkTypes ==
    /\ toNcp \in Seq(LineFrame) /\ toHost \in Seq(LineFrame)
    /\ \A i \in 1 .. Len(toHost) : toHost[i].kind \notin {"Rst", "Error"}
    /\ ncp_tx \in SeqNum /\ ncp_rx \in SeqNum
    /\ ncp_out \in Seq(SeqNum \X Payload)
    /\ linked \in BOOLEAN
    /\ hostSent \in Seq(Payload) /\ ncpGot \in Seq(Payload)
    /\ ncpSent \in Seq(Payload) /\ hostGot \in Seq(Payload)
    /\ hostCount \in 0 .. HostData /\ ncpCount \in 0 .. NcpData

\* A RST travels alone.
RstTravelsAlone ==
    OnLine(toNcp, "Rst") =>
        Len(toNcp) = 1 /\ toHost = <<>> /\ phase = "Resetting" /\ ~linked

\* A RSTACK is ahead of the frames of the session it announces; the host has sent nothing since its
\* RST, and has yet to take the first of them.
RstAckLeads ==
    OnLine(toHost, "RstAck") =>
        /\ toHost[1].kind = "RstAck"
        /\ \A i \in 2 .. Len(toHost) : toHost[i].kind # "RstAck"
        /\ toNcp = <<>> /\ phase = "Resetting" /\ ~linked
        /\ ncpGot = <<>> /\ ncp_rx = 0
        /\ NcpSession(<<>>, 0)
        /\ AcksInOrder(toHost, 0, 0)

LinkInv ==
    /\ ConnInv
    /\ LinkTypes
    /\ RstTravelsAlone
    /\ RstAckLeads
    /\ linked => HostDirection /\ NcpDirection

-----------------------------------------------------------------------------
(* The sequence circle *)

\* Two numbers with the same remainder are a multiple of the modulus apart.
LEMMA MultipleApart ==
    ASSUME NEW j \in Nat, NEW k \in Nat, NEW m \in Nat \ {0}, NEW p \in Int, NEW q \in Int,
           j - m * p = k - m * q, j < k
    PROVE  j + m <= k
<1>1. k - j = m * (q - p)
  OBVIOUS
<1>2. CASE q - p <= 0
  <2>1. m * (q - p) <= 0
    BY <1>2
  <2> QED BY <1>1, <2>1
<1>3. CASE q - p >= 1
  <2>1. m * (q - p) >= m
    BY <1>3
  <2> QED BY <1>1, <2>1
<1> QED BY <1>2, <1>3

\* A sequence number is what is left of the place in the session.
LEMMA NumIsRemainder ==
    ASSUME NEW k \in Nat
    PROVE  /\ Num(k) \in SeqNum
           /\ k \div SEQUENCE_MODULUS \in Nat
           /\ Num(k) = k - SEQUENCE_MODULUS * (k \div SEQUENCE_MODULUS)
BY ModulusAssumption DEF Num, SeqNum

\* Closer together than the modulus, two places with the same number are the same place.
LEMMA NumIsInjective ==
    ASSUME NEW j \in Nat, NEW k \in Nat, Num(j) = Num(k),
           j < k + SEQUENCE_MODULUS, k < j + SEQUENCE_MODULUS
    PROVE  j = k
<1> DEFINE p == j \div SEQUENCE_MODULUS
           q == k \div SEQUENCE_MODULUS
<1>1. /\ p \in Nat /\ q \in Nat
      /\ j - SEQUENCE_MODULUS * p = k - SEQUENCE_MODULUS * q
  BY NumIsRemainder
<1> HIDE DEF p, q
<1>2. ~(j < k) /\ ~(k < j)
  BY <1>1, MultipleApart, ModulusAssumption
<1> QED BY <1>2

\* The number after the one at k is the one at k + 1.
LEMMA NumSuccessor ==
    ASSUME NEW k \in Nat
    PROVE  Num(k + 1) = next_sequence(Num(k))
<1> DEFINE p == k \div SEQUENCE_MODULUS
           q == (k + 1) \div SEQUENCE_MODULUS
           n == Num(k)
           t == Num(k + 1)
<1>1. /\ p \in Nat /\ q \in Nat
      /\ n \in SeqNum /\ t \in SeqNum
      /\ n = k - SEQUENCE_MODULUS * p
      /\ t = (k + 1) - SEQUENCE_MODULUS * q
  BY NumIsRemainder
<1>2. next_sequence(n) = IF n + 1 < SEQUENCE_MODULUS THEN n + 1 ELSE 0
  BY <1>1, NextSequence
<1> HIDE DEF p, q, n, t
<1>3. CASE t < n + 1
  <2>1. t + SEQUENCE_MODULUS <= n + 1
    <3>1. t - SEQUENCE_MODULUS * (p - q) = (n + 1) - SEQUENCE_MODULUS * 0
      BY <1>1, ModulusAssumption DEF SeqNum
    <3> QED BY <1>1, <1>3, <3>1, MultipleApart, ModulusAssumption DEF SeqNum
  <2> QED BY <1>1, <1>2, <2>1, ModulusAssumption DEF SeqNum, n, t
<1>4. CASE n + 1 < t
  <2>1. (n + 1) - SEQUENCE_MODULUS * (q - p) = t - SEQUENCE_MODULUS * 0
    BY <1>1, ModulusAssumption DEF SeqNum
  <2>2. (n + 1) + SEQUENCE_MODULUS <= t
    BY <1>1, <1>4, <2>1, MultipleApart, ModulusAssumption DEF SeqNum
  <2> QED BY <1>1, <2>2, ModulusAssumption DEF SeqNum
<1>5. CASE t = n + 1
  BY <1>1, <1>2, <1>5, ModulusAssumption DEF SeqNum, n, t
<1> QED BY <1>1, <1>3, <1>4, <1>5, ModulusAssumption DEF SeqNum

\* Numbering starts at zero.
LEMMA NumZero == Num(0) = 0
BY ModulusAssumption DEF Num

-----------------------------------------------------------------------------
(* Frames on a line *)

\* What is left of a line when its first frame is taken or lost.
LEMMA TailOfLine ==
    ASSUME NEW line \in Seq(LineFrame), line # <<>>
    PROVE  /\ Head(line) = line[1] /\ line[1] \in LineFrame
           /\ Len(line) \in Nat \ {0}
           /\ Tail(line) \in Seq(LineFrame)
           /\ Len(Tail(line)) = Len(line) - 1
           /\ \A i \in 1 .. (Len(line) - 1) : Tail(line)[i] = line[i + 1]
OBVIOUS

\* What a line is when its first frame is garbled instead.
LEMMA GarbledLine ==
    ASSUME NEW line \in Seq(LineFrame), line # <<>>
    PROVE  LET noisy == <<Garbled>> \o Tail(line) IN
           /\ noisy \in Seq(LineFrame)
           /\ Len(noisy) = Len(line)
           /\ noisy[1] = Garbled
           /\ \A i \in 2 .. Len(line) : noisy[i] = line[i]
<1>1. <<Garbled>> \in Seq(LineFrame) /\ Len(<<Garbled>>) = 1 /\ <<Garbled>>[1] = Garbled
  BY DEF LineFrame
<1> QED BY <1>1, TailOfLine, ConcatProperties

\* What is on a line to which frames were added.
LEMMA LongerLine ==
    ASSUME NEW line \in Seq(LineFrame), NEW more \in Seq(LineFrame)
    PROVE  /\ line \o more \in Seq(LineFrame)
           /\ Len(line) \in Nat /\ Len(more) \in Nat
           /\ Len(line \o more) = Len(line) + Len(more)
           /\ \A i \in 1 .. Len(line) : (line \o more)[i] = line[i]
           /\ \A i \in 1 .. Len(more) : (line \o more)[Len(line) + i] = more[i]
BY ConcatProperties

\* Losing the first frame of a line, or garbling it, leaves the others in order.
LEMMA DataSurvivesFault ==
    ASSUME NEW line \in Seq(LineFrame), line # <<>>,
           NEW base \in Int, NEW sent \in Nat, NEW got \in Nat, NEW w \in Nat,
           DataInOrder(line, base, sent, got, w), NEW faulty \in Faulty(line)
    PROVE  DataInOrder(faulty, base, sent, got, w)
<1>1. CASE faulty = Tail(line)
  BY <1>1, TailOfLine DEF DataInOrder
<1>2. CASE faulty = <<Garbled>> \o Tail(line)
  <2>1. /\ Len(faulty) = Len(line) /\ Len(line) \in Nat
        /\ faulty[1].kind # "Data"
        /\ \A i \in 2 .. Len(line) : faulty[i] = line[i]
    BY <1>2, GarbledLine, TailOfLine DEF Garbled
  <2>2. \A i \in 1 .. Len(faulty) :
           faulty[i].kind = "Data" => i \in 1 .. Len(line) /\ faulty[i] = line[i]
    BY <2>1
  <2>3. \A i \in 1 .. Len(faulty) : 1 .. i \subseteq 1 .. Len(faulty)
    BY <2>1
  <2> QED BY <2>1, <2>2, <2>3 DEF DataInOrder
<1> QED BY <1>1, <1>2 DEF Faulty

\* It leaves the acknowledgements among them in order too.
LEMMA AcksSurviveFault ==
    ASSUME NEW line \in Seq(LineFrame), line # <<>>, NEW acked \in Nat, NEW got \in Nat,
           AcksInOrder(line, acked, got), NEW faulty \in Faulty(line)
    PROVE  AcksInOrder(faulty, acked, got)
<1>1. CASE faulty = Tail(line)
  <2>1. /\ Len(faulty) = Len(line) - 1 /\ Len(line) \in Nat \ {0}
        /\ \A i \in 1 .. (Len(line) - 1) : faulty[i] = line[i + 1]
    BY <1>1, TailOfLine
  <2> SUFFICES ASSUME NEW i \in 1 .. Len(faulty), Acknowledges(faulty[i])
               PROVE  \E x \in acked .. got :
                         /\ faulty[i].ack_num = Num(x)
                         /\ \A j \in i .. Len(faulty) :
                               Acknowledges(faulty[j]) =>
                                   \E y \in x .. got : faulty[j].ack_num = Num(y)
    BY DEF AcksInOrder
  <2>2. PICK x \in acked .. got :
           /\ line[i + 1].ack_num = Num(x)
           /\ \A j \in (i + 1) .. Len(line) :
                 Acknowledges(line[j]) => \E y \in x .. got : line[j].ack_num = Num(y)
    BY <2>1, SMTT(30) DEF AcksInOrder
  <2>3. ASSUME NEW j \in i .. Len(faulty), Acknowledges(faulty[j])
        PROVE  \E y \in x .. got : faulty[j].ack_num = Num(y)
    <3>1. j + 1 \in (i + 1) .. Len(line) /\ faulty[j] = line[j + 1]
      BY <2>1
    <3> QED BY <2>2, <2>3, <3>1
  <2> QED BY <2>1, <2>2, <2>3
<1>2. CASE faulty = <<Garbled>> \o Tail(line)
  <2>1. /\ Len(faulty) = Len(line) /\ Len(line) \in Nat
        /\ ~Acknowledges(faulty[1])
        /\ \A i \in 2 .. Len(line) : faulty[i] = line[i]
    BY <1>2, GarbledLine, TailOfLine DEF Garbled, Acknowledges
  <2> QED BY <2>1 DEF AcksInOrder
<1> QED BY <1>1, <1>2 DEF Faulty

\* New frames, and frames resent from the sender's queue, go behind all others.
LEMMA DataAppended ==
    ASSUME NEW line \in Seq(LineFrame), NEW more \in Seq(LineFrame),
           NEW base \in Int, NEW sent \in Nat, NEW sent2 \in Nat, NEW got \in Nat, NEW w \in Nat,
           DataInOrder(line, base, sent, got, w), sent <= sent2, got <= sent2, w > 0,
           \A i \in 1 .. Len(more) :
               more[i].kind = "Data" =>
                   /\ Index(more[i], base) \in 0 .. (sent2 - 1)
                   /\ more[i].frame_num = Num(Index(more[i], base))
                   /\ sent2 <= Index(more[i], base) + w
    PROVE  DataInOrder(line \o more, base, sent2, got, w)
<1> DEFINE longer == line \o more
<1>1. /\ Len(line) \in Nat /\ Len(more) \in Nat
      /\ Len(longer) = Len(line) + Len(more)
      /\ \A i \in 1 .. Len(line) : longer[i] = line[i]
      /\ \A i \in 1 .. Len(more) : longer[Len(line) + i] = more[i]
  BY LongerLine
<1> HIDE DEF longer
<1>2. ASSUME NEW i \in 1 .. Len(longer), longer[i].kind = "Data"
      PROVE  /\ Index(longer[i], base) \in 0 .. (sent2 - 1)
             /\ longer[i].frame_num = Num(Index(longer[i], base))
             /\ got <= Index(longer[i], base) + w
             /\ i > Len(line) => sent2 <= Index(longer[i], base) + w
  <2>1. CASE i \in 1 .. Len(line)
    BY <1>1, <1>2, <2>1 DEF DataInOrder
  <2>2. CASE i > Len(line)
    <3>1. i - Len(line) \in 1 .. Len(more) /\ longer[i] = more[i - Len(line)]
      BY <1>1, <2>2
    <3> QED BY <1>2, <3>1
  <2> QED BY <1>1, <2>1, <2>2
<1>3. ASSUME NEW i \in 1 .. Len(longer), longer[i].kind = "Data",
             NEW j \in 1 .. i, longer[j].kind = "Data"
      PROVE  Index(longer[j], base) < Index(longer[i], base) + w
  <2>1. CASE i \in 1 .. Len(line)
    <3>1. j \in 1 .. Len(line) /\ longer[i] = line[i] /\ longer[j] = line[j]
      BY <1>1, <2>1
    <3> QED BY <1>3, <2>1, <3>1 DEF DataInOrder
  <2>2. CASE i > Len(line)
    BY <1>1, <1>2, <1>3, <2>2
  <2> QED BY <1>1, <2>1, <2>2
<1>4. DataInOrder(longer, base, sent2, got, w)
  BY <1>2, <1>3 DEF DataInOrder
<1> QED BY <1>4 DEF longer

\* What the receiver writes acknowledges what it has by then.
LEMMA AcksAppended ==
    ASSUME NEW line \in Seq(LineFrame), NEW more \in Seq(LineFrame),
           NEW acked \in Nat, NEW got \in Nat, NEW got2 \in Nat,
           AcksInOrder(line, acked, got), acked <= got, got <= got2,
           \A i \in 1 .. Len(more) : Acknowledges(more[i]) => more[i].ack_num = Num(got2)
    PROVE  AcksInOrder(line \o more, acked, got2)
<1> DEFINE longer == line \o more
<1>1. /\ Len(line) \in Nat /\ Len(more) \in Nat
      /\ Len(longer) = Len(line) + Len(more)
      /\ \A i \in 1 .. Len(line) : longer[i] = line[i]
      /\ \A i \in 1 .. Len(more) : longer[Len(line) + i] = more[i]
  BY LongerLine
<1> HIDE DEF longer
<1>2. ASSUME NEW i \in 1 .. Len(longer), Acknowledges(longer[i]), i > Len(line)
      PROVE  longer[i].ack_num = Num(got2)
  <2>1. i - Len(line) \in 1 .. Len(more) /\ longer[i] = more[i - Len(line)]
    BY <1>1, <1>2
  <2> QED BY <1>2, <2>1
<1> SUFFICES ASSUME NEW i \in 1 .. Len(longer), Acknowledges(longer[i])
             PROVE  \E x \in acked .. got2 :
                       /\ longer[i].ack_num = Num(x)
                       /\ \A j \in i .. Len(longer) :
                             Acknowledges(longer[j]) =>
                                 \E y \in x .. got2 : longer[j].ack_num = Num(y)
  BY DEF AcksInOrder, longer
<1>3. CASE i > Len(line)
  <2>1. \A j \in i .. Len(longer) : Acknowledges(longer[j]) => longer[j].ack_num = Num(got2)
    BY <1>1, <1>2, <1>3
  <2> QED BY <1>2, <1>3, <2>1
<1>4. CASE i \in 1 .. Len(line)
  <2>1. PICK x \in acked .. got :
           /\ line[i].ack_num = Num(x)
           /\ \A j \in i .. Len(line) :
                 Acknowledges(line[j]) => \E y \in x .. got : line[j].ack_num = Num(y)
    BY <1>1, <1>4 DEF AcksInOrder
  <2>2. x \in acked .. got2 /\ longer[i].ack_num = Num(x) /\ got2 \in x .. got2
    BY <1>1, <1>4, <2>1
  <2>3. ASSUME NEW j \in i .. Len(longer), Acknowledges(longer[j])
        PROVE  \E y \in x .. got2 : longer[j].ack_num = Num(y)
    <3>1. CASE j > Len(line)
      BY <1>1, <1>2, <1>4, <2>2, <2>3, <3>1
    <3>2. CASE j <= Len(line)
      <4>1. j \in i .. Len(line) /\ longer[j] = line[j]
        BY <1>1, <1>4, <3>2
      <4>2. PICK y \in x .. got : line[j].ack_num = Num(y)
        BY <2>1, <2>3, <4>1
      <4> QED BY <2>1, <4>1, <4>2
    <3> QED BY <1>1, <1>4, <3>1, <3>2
  <2> QED BY <2>2, <2>3
<1> QED BY <1>1, <1>3, <1>4

\* The first DATA frame on a line, when it carries the number the receiver expects, is the very
\* next one of the session; the others then still are within a window of the receiver.
LEMMA DataTaken ==
    ASSUME NEW line \in Seq(LineFrame), line # <<>>,
           NEW base \in Int, NEW sent \in Nat, NEW got \in Nat, NEW w \in Nat,
           DataInOrder(line, base, sent, got, w), got <= sent, sent <= got + w,
           w < SEQUENCE_MODULUS, line[1].kind = "Data", line[1].frame_num = Num(got)
    PROVE  /\ Index(line[1], base) = got
           /\ got < sent
           /\ DataInOrder(Tail(line), base, sent, got + 1, w)
<1>1. /\ Len(line) \in Nat \ {0}
      /\ Len(Tail(line)) = Len(line) - 1
      /\ \A i \in 1 .. (Len(line) - 1) : Tail(line)[i] = line[i + 1]
  BY TailOfLine
<1>2. /\ Index(line[1], base) \in 0 .. (sent - 1)
      /\ Num(Index(line[1], base)) = Num(got)
      /\ got <= Index(line[1], base) + w
  BY <1>1 DEF DataInOrder
<1>3. Index(line[1], base) = got
  BY <1>2, NumIsInjective, ModulusAssumption
<1>4. ASSUME NEW i \in 1 .. Len(Tail(line)), Tail(line)[i].kind = "Data"
      PROVE  /\ Index(Tail(line)[i], base) \in 0 .. (sent - 1)
             /\ Tail(line)[i].frame_num = Num(Index(Tail(line)[i], base))
             /\ got + 1 <= Index(Tail(line)[i], base) + w
             /\ \A j \in 1 .. i :
                   Tail(line)[j].kind = "Data" =>
                       Index(Tail(line)[j], base) < Index(Tail(line)[i], base) + w
  <2>1. i + 1 \in 1 .. Len(line) /\ Tail(line)[i] = line[i + 1] /\ 1 \in 1 .. (i + 1)
    BY <1>1
  <2>2. /\ Index(line[i + 1], base) \in 0 .. (sent - 1)
        /\ line[i + 1].frame_num = Num(Index(line[i + 1], base))
        /\ \A j \in 1 .. (i + 1) :
              line[j].kind = "Data" => Index(line[j], base) < Index(line[i + 1], base) + w
    BY <1>4, <2>1 DEF DataInOrder
  <2>3. got + 1 <= Index(line[i + 1], base) + w
    BY <1>3, <2>1, <2>2
  <2>4. \A j \in 1 .. i : j + 1 \in 1 .. (i + 1) /\ Tail(line)[j] = line[j + 1]
    BY <1>1
  <2> QED BY <2>1, <2>2, <2>3, <2>4
<1> QED BY <1>2, <1>3, <1>4 DEF DataInOrder

\* The first acknowledgement on a line is between what the sender knew and what the receiver has,
\* and the others do not fall behind it.
LEMMA AckTaken ==
    ASSUME NEW line \in Seq(LineFrame), line # <<>>, NEW acked \in Nat, NEW got \in Nat,
           AcksInOrder(line, acked, got), got < acked + SEQUENCE_MODULUS, Acknowledges(line[1])
    PROVE  \E x \in acked .. got :
              line[1].ack_num = Num(x) /\ AcksInOrder(Tail(line), x, got)
<1>1. /\ Len(line) \in Nat \ {0}
      /\ Len(Tail(line)) = Len(line) - 1
      /\ \A i \in 1 .. (Len(line) - 1) : Tail(line)[i] = line[i + 1]
  BY TailOfLine
<1>2. PICK x \in acked .. got :
         /\ line[1].ack_num = Num(x)
         /\ \A j \in 1 .. Len(line) :
               Acknowledges(line[j]) => \E y \in x .. got : line[j].ack_num = Num(y)
  BY <1>1 DEF AcksInOrder
<1>3. ASSUME NEW i \in 1 .. Len(Tail(line)), Acknowledges(Tail(line)[i])
      PROVE  \E z \in x .. got :
                /\ Tail(line)[i].ack_num = Num(z)
                /\ \A j \in i .. Len(Tail(line)) :
                      Acknowledges(Tail(line)[j]) =>
                          \E y \in z .. got : Tail(line)[j].ack_num = Num(y)
  <2>1. i + 1 \in 1 .. Len(line) /\ Tail(line)[i] = line[i + 1]
    BY <1>1
  <2>2. PICK z \in acked .. got :
           /\ line[i + 1].ack_num = Num(z)
           /\ \A j \in (i + 1) .. Len(line) :
                 Acknowledges(line[j]) => \E y \in z .. got : line[j].ack_num = Num(y)
    BY <1>3, <2>1 DEF AcksInOrder
  <2>3. PICK y \in x .. got : line[i + 1].ack_num = Num(y)
    BY <1>2, <1>3, <2>1
  <2>4. y = z
    <3>1. y \in Nat /\ z \in Nat /\ Num(y) = Num(z)
      BY <2>2, <2>3
    <3>2. y < z + SEQUENCE_MODULUS /\ z < y + SEQUENCE_MODULUS
      BY ModulusAssumption
    <3> QED BY <3>1, <3>2, NumIsInjective
  <2>5. ASSUME NEW j \in i .. Len(Tail(line)), Acknowledges(Tail(line)[j])
        PROVE  \E u \in z .. got : Tail(line)[j].ack_num = Num(u)
    <3>1. j + 1 \in (i + 1) .. Len(line) /\ Tail(line)[j] = line[j + 1]
      BY <1>1
    <3> QED BY <2>2, <2>5, <3>1
  <2> QED BY <2>1, <2>2, <2>3, <2>4, <2>5
<1> QED BY <1>2, <1>3 DEF AcksInOrder

-----------------------------------------------------------------------------
(* What an acknowledgement leaves in the two queues *)

\* retire_acknowledged finds the frame the NCP waits for, or drains the queue when that is the next
\* one to be sent.
LEMMA HostRetires ==
    ASSUME ConnInv, hostSent \in Seq(Payload), hostCount \in Nat, HostQueueInOrder,
           Len(in_flight) <= Len(hostSent),
           NEW x \in HostAcked .. Len(hostSent)
    PROVE  LET left == retire_acknowledged(Num(x)) IN
           /\ left \in Seq(InFlight)
           /\ Len(left) = Len(hostSent) - x
           /\ \A i \in 1 .. Len(left) :
                 /\ left[i].frame_num = Num(x + i - 1)
                 /\ left[i].payload = HostBase + x + i
<1> DEFINE n == AcknowledgedPrefix(Num(x))
           left == retire_acknowledged(Num(x))
           a == HostAcked
<1>1. /\ in_flight \in Seq(InFlight) /\ Len(in_flight) \in Nat /\ Len(hostSent) \in Nat
      /\ a = Len(hostSent) - Len(in_flight) /\ a \in Nat /\ x \in Nat
      /\ Len(in_flight) < SEQUENCE_MODULUS
  BY WindowAssumption, ModulusAssumption DEF ConnInv, TypeOK, WindowIsConsecutive, HostAcked
<1>2. /\ n \in 0 .. Len(in_flight)
      /\ \A j \in 1 .. n : in_flight[j].frame_num # Num(x)
      /\ n < Len(in_flight) => in_flight[n + 1].frame_num = Num(x)
  BY <1>1, PrefixIsAPosition, NumIsRemainder DEF ConnInv
<1>3. \A i \in 1 .. Len(in_flight) : in_flight[i].frame_num = Num(a + i - 1)
  BY DEF HostQueueInOrder
<1>4. left = SubSeq(in_flight, n + 1, Len(in_flight))
  BY DEF retire_acknowledged
<1> HIDE DEF n, left, a
<1>5. n = x - a
  <2>1. CASE n < x - a
    <3>1. n + 1 \in 1 .. Len(in_flight) /\ in_flight[n + 1].frame_num = Num(a + n)
      BY <1>1, <1>2, <1>3, <2>1
    <3>2. a + n = x
      BY <1>1, <1>2, <2>1, <3>1, NumIsInjective, ModulusAssumption DEF a
    <3> QED BY <1>1, <1>2, <2>1, <3>2
  <2>2. CASE n > x - a
    <3>1. (x - a) + 1 \in 1 .. n /\ (x - a) + 1 \in 1 .. Len(in_flight)
      BY <1>1, <1>2, <2>2 DEF a
    <3>2. in_flight[(x - a) + 1].frame_num = Num(x)
      BY <1>1, <1>3, <3>1
    <3> QED BY <1>2, <3>1, <3>2
  <2> QED BY <1>1, <1>2, <2>1, <2>2
<1>6. /\ left \in Seq(InFlight)
      /\ Len(left) = Len(in_flight) - n
      /\ \A i \in 1 .. Len(left) : left[i] = in_flight[i + n]
  BY <1>1, <1>2, <1>4
<1>7. ASSUME NEW i \in 1 .. Len(left)
      PROVE  /\ left[i].frame_num = Num(x + i - 1)
             /\ left[i].payload = HostBase + x + i
  <2> DEFINE k == i + n
  <2>1. k \in 1 .. Len(in_flight) /\ a + k - 1 = x + i - 1 /\ a + k = x + i /\ left[i] = in_flight[k]
    BY <1>1, <1>2, <1>5, <1>6
  <2> HIDE DEF k
  <2>2. /\ in_flight[k].frame_num = Num(a + k - 1)
        /\ in_flight[k].payload = HostBase + a + k
    BY <2>1 DEF HostQueueInOrder, a
  <2>3. HostBase \in Int
    BY <1>1 DEF HostBase
  <2>4. HostBase + a + k = HostBase + (a + k) /\ HostBase + x + i = HostBase + (x + i)
    BY <1>1, <2>1, <2>3, SMTT(30)
  <2>5. left[i].frame_num = Num(x + i - 1)
    BY <2>1, <2>2, Zenon
  <2>6. left[i].payload = HostBase + x + i
    BY <2>1, <2>2, <2>4, Zenon
  <2> QED BY <2>5, <2>6
<1>8. Len(left) = Len(hostSent) - x
  BY <1>1, <1>2, <1>5, <1>6
<1> QED BY <1>6, <1>7, <1>8 DEF left

\* The NCP's queue is cut in the same way.
LEMMA NcpRetires ==
    ASSUME ncpSent \in Seq(Payload), ncpCount \in Nat, ncp_out \in Seq(SeqNum \X Payload),
           NcpQueueInOrder, Len(ncp_out) <= Len(ncpSent), Len(ncp_out) <= NcpWindow,
           NEW x \in NcpAcked .. Len(ncpSent)
    PROVE  LET left == NcpRetired(Num(x)) IN
           /\ left \in Seq(SeqNum \X Payload)
           /\ Len(left) = Len(ncpSent) - x
           /\ \A i \in 1 .. Len(left) :
                 /\ left[i][1] = Num(x + i - 1)
                 /\ left[i][2] = NcpBase + x + i
<1> DEFINE left == NcpRetired(Num(x))
           a == NcpAcked
           kept == {i \in 1 .. Len(ncp_out) : ncp_out[i][1] = Num(x)}
<1>1. /\ Len(ncp_out) \in Nat /\ Len(ncpSent) \in Nat
      /\ a = Len(ncpSent) - Len(ncp_out) /\ a \in Nat /\ x \in Nat
      /\ Len(ncp_out) < SEQUENCE_MODULUS
      /\ NcpBase \in Int
  BY LinkAssumption, ModulusAssumption DEF NcpAcked, NcpBase
<1>2. \A i \in 1 .. Len(ncp_out) : ncp_out[i][1] = Num(a + i - 1)
  BY DEF NcpQueueInOrder
<1>3. left = IF kept = {} THEN <<>>
             ELSE SubSeq(ncp_out, CHOOSE i \in kept : TRUE, Len(ncp_out))
  BY DEF NcpRetired
<1> HIDE DEF left, a
<1>4. ASSUME NEW i \in kept PROVE i = x - a + 1
  <2>1. i \in 1 .. Len(ncp_out) /\ Num(a + i - 1) = Num(x) /\ a + i - 1 \in Nat
    BY <1>1, <1>2, <1>4
  <2>2. a + i - 1 < x + SEQUENCE_MODULUS /\ x < (a + i - 1) + SEQUENCE_MODULUS
    BY <1>1, <2>1, ModulusAssumption DEF a
  <2>3. a + i - 1 = x
    BY <1>1, <2>1, <2>2, NumIsInjective
  <2> QED BY <1>1, <2>1, <2>3
<1>5. CASE x = Len(ncpSent)
  <2>1. kept = {}
    BY <1>1, <1>4, <1>5
  <2> QED BY <1>1, <1>3, <1>5, <2>1 DEF left
<1>6. CASE x < Len(ncpSent)
  <2> DEFINE n == x - a + 1
  <2>1. n \in 1 .. Len(ncp_out) /\ a + n - 1 = x
    BY <1>1, <1>6 DEF a
  <2>2. n \in kept
    BY <1>2, <2>1
  <2>3. left = SubSeq(ncp_out, n, Len(ncp_out))
    BY <1>3, <1>4, <2>2
  <2> HIDE DEF n, kept
  <2>4. /\ left \in Seq(SeqNum \X Payload)
        /\ Len(left) = Len(ncp_out) - n + 1
        /\ \A i \in 1 .. Len(left) : left[i] = ncp_out[i + n - 1]
    BY <1>1, <2>1, <2>3
  <2>5. Len(left) = Len(ncpSent) - x
    BY <1>1, <2>1, <2>4
  <2>6. ASSUME NEW i \in 1 .. Len(left)
        PROVE  left[i][1] = Num(x + i - 1) /\ left[i][2] = NcpBase + x + i
    <3> DEFINE k == i + n - 1
    <3>0. left[i] = ncp_out[k]
      BY <2>4
    <3>1. k \in 1 .. Len(ncp_out) /\ a + k - 1 = x + i - 1 /\ a + k = x + i
      <4>1. Len(left) = Len(ncp_out) - n + 1 /\ Len(left) \in Nat
        BY <2>4
      <4>2. n \in Nat /\ i \in Nat /\ i >= 1 /\ n >= 1 /\ i <= Len(left)
        BY <1>1, <2>1, <4>1
      <4>3. k \in 1 .. Len(ncp_out)
        BY <1>1, <4>1, <4>2
      <4>4. a \in Nat /\ x \in Nat /\ a + n - 1 = x
        BY <1>1, <2>1
      <4>5. a + k - 1 = x + i - 1 /\ a + k = x + i
        BY <4>2, <4>4
      <4> QED BY <4>3, <4>5
    <3> HIDE DEF k
    <3>2. ncp_out[k][1] = Num(a + k - 1) /\ ncp_out[k][2] = NcpBase + a + k
      BY <3>1 DEF NcpQueueInOrder, a
    <3>3. NcpBase + a + k = NcpBase + (a + k) /\ NcpBase + x + i = NcpBase + (x + i)
      BY <1>1, <3>1
    <3>4. left[i][1] = Num(x + i - 1)
      BY <3>0, <3>1, <3>2, Zenon
    <3>5. left[i][2] = NcpBase + x + i
      BY <3>0, <3>1, <3>2, <3>3, Zenon
    <3> QED BY <3>4, <3>5
  <2> QED BY <2>4, <2>5, <2>6 DEF left
<1> QED BY <1>1, <1>5, <1>6

-----------------------------------------------------------------------------
(* Frames and lines, by kind *)

\* The kind of a frame on a line says which fields it has.
LEMMA FrameByKind ==
    ASSUME NEW f \in LineFrame
    PROVE  /\ f.kind \in {"Data", "Ack", "Nak", "Rst", "RstAck", "Error", "Garbled"}
           /\ f.kind = "Data" => f \in DataFrames
           /\ Acknowledges(f) => f.ack_num \in SeqNum
           /\ f.kind # "Garbled" => f \in AshFrame
BY DEF LineFrame, AshFrame, DataFrames, AckFrames, NakFrames, Rst, RstAck, ErrorFrame, Garbled,
       Acknowledges

\* What write_frame puts on the line is a frame of the call's result, or nothing.
LEMMA WrittenFrame ==
    ASSUME NEW out \in Outbound
    PROVE  /\ Written(out) \in Seq(LineFrame)
           /\ \/ Written(out) = <<>> /\ out.kind \notin {"Data", "Ack", "Nak", "Rst"}
              \/ /\ Written(out) = <<out>> /\ out \in LineFrame
                 /\ out.kind \in {"Data", "Ack", "Nak", "Rst"}
<1>1. \/ out \in LineFrame /\ out.kind \in {"Data", "Ack", "Nak", "Rst"}
      \/ out.kind \in {"Nothing", "NotConnected", "WindowFull"}
  BY DEF Outbound, LineFrame, AshFrame, DataFrames, AckFrames, NakFrames, Rst, Nothing,
         NotConnected, WindowFull
<1> QED BY <1>1 DEF Written

\* A longer line carries what it carried and what was added.
LEMMA OnLongerLine ==
    ASSUME NEW line \in Seq(LineFrame), NEW more \in Seq(LineFrame), NEW kind
    PROVE  OnLine(line \o more, kind) <=> OnLine(line, kind) \/ OnLine(more, kind)
<1> DEFINE longer == line \o more
<1>1. /\ Len(line) \in Nat /\ Len(more) \in Nat
      /\ Len(longer) = Len(line) + Len(more)
      /\ \A i \in 1 .. Len(line) : longer[i] = line[i]
      /\ \A i \in 1 .. Len(more) : longer[Len(line) + i] = more[i]
  BY LongerLine
<1> HIDE DEF longer
<1>2. ASSUME NEW i \in 1 .. Len(longer), longer[i].kind = kind
      PROVE  OnLine(line, kind) \/ OnLine(more, kind)
  <2>1. CASE i \in 1 .. Len(line)
    BY <1>1, <1>2, <2>1 DEF OnLine
  <2>2. CASE i > Len(line)
    <3>1. PICK l \in Nat, m \in Nat : l = Len(line) /\ m = Len(more) /\ Len(longer) = l + m
      BY <1>1
    <3>2. i - l \in 1 .. m /\ i = l + (i - l)
      BY <2>2, <3>1
    <3>3. PICK j \in 1 .. m : i = l + j
      BY <3>2
    <3>4. longer[i] = more[j]
      BY <1>1, <3>1, <3>3
    <3> QED BY <1>2, <3>1, <3>4 DEF OnLine
  <2> QED BY <1>1, <2>1, <2>2
<1>3. ASSUME NEW i \in 1 .. Len(more), more[i].kind = kind PROVE OnLine(longer, kind)
  <2>1. Len(line) + i \in 1 .. Len(longer) /\ longer[Len(line) + i] = more[i]
    BY <1>1
  <2> QED BY <1>3, <2>1 DEF OnLine
<1>4. ASSUME NEW i \in 1 .. Len(line), line[i].kind = kind PROVE OnLine(longer, kind)
  BY <1>1, <1>4 DEF OnLine
<1> QED BY <1>2, <1>3, <1>4 DEF OnLine, longer

\* What a line carries after its first frame is taken, lost or garbled was behind that frame.
LEMMA OnFaultyLine ==
    ASSUME NEW line \in Seq(LineFrame), line # <<>>, NEW faulty \in Faulty(line),
           NEW kind, kind # "Garbled"
    PROVE  /\ faulty \in Seq(LineFrame)
           /\ OnLine(faulty, kind) => \E i \in 2 .. Len(line) : line[i].kind = kind
<1>1. CASE faulty = Tail(line)
  <2>1. ASSUME NEW i \in 1 .. Len(faulty), faulty[i].kind = kind
        PROVE  \E k \in 2 .. Len(line) : line[k].kind = kind
    <3>1. i + 1 \in 2 .. Len(line) /\ faulty[i] = line[i + 1]
      BY <1>1, TailOfLine
    <3> QED BY <2>1, <3>1
  <2> QED BY <1>1, <2>1, TailOfLine DEF OnLine
<1>2. CASE faulty = <<Garbled>> \o Tail(line)
  <2>1. /\ faulty \in Seq(LineFrame)
        /\ Len(faulty) = Len(line) /\ Len(line) \in Nat
        /\ faulty[1].kind = "Garbled"
        /\ \A i \in 2 .. Len(line) : faulty[i] = line[i]
    BY <1>2, GarbledLine, TailOfLine DEF Garbled
  <2> QED BY <2>1 DEF OnLine
<1> QED BY <1>1, <1>2 DEF Faulty

-----------------------------------------------------------------------------
(* The host's steps *)

NoHandshake == ~OnLine(toNcp, "Rst") /\ ~OnLine(toHost, "RstAck")

\* Without a RST or a RSTACK on the line, what is said of them holds.
LEMMA NoHandshakeIsEnough == NoHandshake' => RstTravelsAlone' /\ RstAckLeads'
BY DEF NoHandshake, RstTravelsAlone, RstAckLeads

\* Once the host has taken a RSTACK, neither is on the line.
LEMMA LinkedIsQuiet == LinkInv /\ linked => NoHandshake
BY DEF LinkInv, RstTravelsAlone, RstAckLeads, NoHandshake

\* When the host takes a frame other than a RSTACK, or has begun no reset, neither is either.
LEMMA OtherFrameMeansQuiet ==
    ASSUME LinkInv, toHost # <<>>, Head(toHost).kind # "RstAck"
    PROVE  NoHandshake
<1>1. Head(toHost) = toHost[1]
  BY TailOfLine DEF LinkInv, LinkTypes
<1> QED BY <1>1 DEF LinkInv, RstTravelsAlone, RstAckLeads, NoHandshake

\* begin_reset on a silent line: a RST alone, or nothing when the attempts are used up.
LEMMA HostResetStep ==
    ASSUME LinkInv, HostReset, CleanReset
    PROVE  LinkInv'
<1>1. ConnInv'
  BY BeginResetStep DEF LinkInv, HostReset
<1>2. toNcp = <<>> /\ toHost' = <<>> /\ linked' = FALSE
  BY DEF HostReset
<1>3. \/ toNcp' = <<Rst>> /\ phase' = "Resetting"
      \/ toNcp' = <<>>
  BY <1>2 DEF HostReset, begin_reset, Written, Rst, Nothing
<1>4. toNcp' \in Seq(LineFrame)
  <2>1. Rst \in LineFrame
    BY DEF LineFrame, AshFrame
  <2>2. <<Rst>> \in Seq(LineFrame) /\ <<>> \in Seq(LineFrame)
    BY <2>1
  <2> QED BY <1>3, <2>2, Zenon
<1>5. LinkTypes'
  <2>1. /\ hostSent' = <<>> /\ hostGot' = <<>>
        /\ UNCHANGED <<toHost, ncp_tx, ncp_rx, ncp_out, ncpGot, ncpSent, hostCount, ncpCount>>
    BY DEF HostReset, ncpVars
  <2>2. <<>> \in Seq(Payload)
    OBVIOUS
  <2> QED BY <1>2, <1>4, <2>1, <2>2 DEF LinkInv, LinkTypes
<1>6. RstTravelsAlone' /\ RstAckLeads'
  BY <1>2, <1>3 DEF RstTravelsAlone, RstAckLeads, OnLine
<1> QED BY <1>1, <1>2, <1>5, <1>6 DEF LinkInv

\* The frames the host writes while linked acknowledge what it has: nothing else is needed for its
\* acknowledgements to stay in order.
LEMMA HostAcksInOrder ==
    ASSUME LinkInv, linked, ConnInv', toNcp' = toNcp \o Written(outbound'),
           UNCHANGED <<ncpSent, ncp_out>>, hostGot' \in Seq(Payload),
           Len(hostGot) <= Len(hostGot'), next_rx_frame' = Num(Len(hostGot'))
    PROVE  AcksInOrder(toNcp, NcpAcked, Len(hostGot))'
<1>1. /\ toNcp \in Seq(LineFrame) /\ Len(hostGot) \in Nat /\ Len(hostGot') \in Nat
      /\ NcpAcked \in Nat /\ NcpAcked <= Len(hostGot)
      /\ AcksInOrder(toNcp, NcpAcked, Len(hostGot))
  BY DEF LinkInv, LinkTypes, NcpDirection, NcpSession, SessionInOrder, NcpAcked
<1>2. outbound' \in Outbound
  BY DEF ConnInv, TypeOK
<1>3. Acknowledges(outbound') => outbound'.ack_num = Num(Len(hostGot'))
  BY DEF ConnInv, AckNamesNextExpected, Acknowledges
<1>4. /\ Written(outbound') \in Seq(LineFrame)
      /\ \A i \in 1 .. Len(Written(outbound')) : Written(outbound')[i] = outbound'
  BY <1>2, WrittenFrame
<1>5. AcksInOrder(toNcp \o Written(outbound'), NcpAcked, Len(hostGot'))
  BY <1>1, <1>3, <1>4, AcksAppended
<1>6. NcpAcked' = NcpAcked
  BY DEF NcpAcked
<1> QED BY <1>5, <1>6

\* A call that returns something the caller does not write, and changes no field, changes nothing.
LEMMA HostIdle ==
    ASSUME LinkInv, ConnInv',
           UNCHANGED <<phase, next_tx_frame, next_rx_frame, in_flight, lineVars, ncpVars,
                       historyVars, hostCount, ncpCount>>
    PROVE  LinkInv'
<1> USE DEF lineVars, ncpVars, historyVars
<1>1. LinkTypes' /\ RstTravelsAlone'
  BY DEF LinkInv, LinkTypes, RstTravelsAlone
<1>2. HostBase' = HostBase /\ NcpBase' = NcpBase /\ HostAcked' = HostAcked /\ NcpAcked' = NcpAcked
  BY DEF HostBase, NcpBase, HostAcked, NcpAcked
<1>3. NcpQueueInOrder = NcpQueueInOrder' /\ HostQueueInOrder = HostQueueInOrder'
  BY <1>2 DEF NcpQueueInOrder, HostQueueInOrder
<1>4. NcpSession(<<>>, 0) => NcpSession(<<>>, 0)'
  BY <1>2, <1>3 DEF NcpSession
<1>5. RstAckLeads'
  BY <1>4 DEF LinkInv, RstAckLeads
<1>6. linked => HostDirection' /\ NcpDirection'
  BY <1>2, <1>3 DEF LinkInv, HostDirection, NcpDirection, NcpSession
<1> QED BY <1>1, <1>5, <1>6 DEF LinkInv

\* A frame send_data accepts gets the number of its place, and goes out behind all others.
LEMMA HostSendsInOrder ==
    ASSUME LinkInv, linked, ConnInv', hostCount < HostData, Len(in_flight) < MAX_WINDOW,
           SendDataAccepted(hostCount + 1), toNcp' = toNcp \o <<outbound'>>,
           hostSent' = Append(hostSent, hostCount + 1), hostCount' = hostCount + 1,
           UNCHANGED <<toHost, ncp_rx, ncpGot>>
    PROVE  HostDirection'
<1> DEFINE n == Len(hostSent)
           new == [frame_num |-> next_tx_frame, payload |-> hostCount + 1, sends |-> 1]
<1>1. /\ toNcp \in Seq(LineFrame) /\ hostSent \in Seq(Payload) /\ hostCount \in Nat
      /\ ncpGot \in Seq(Payload) /\ in_flight \in Seq(InFlight) /\ MAX_WINDOW \in Nat
      /\ n \in Nat /\ Len(in_flight) \in Nat /\ Len(ncpGot) \in Nat
      /\ HostDirection
  BY WindowAssumption DEF LinkInv, LinkTypes, ConnInv, TypeOK
<1>2. /\ hostSent' \in Seq(Nat) /\ Len(hostSent') = n + 1
      /\ \A i \in 1 .. n : hostSent'[i] = hostSent[i]
      /\ hostSent'[n + 1] = hostCount + 1
  BY <1>1, LinkAssumption
<1>3. /\ Len(in_flight') = Len(in_flight) + 1
      /\ \A i \in 1 .. Len(in_flight) : in_flight'[i] = in_flight[i]
      /\ in_flight'[Len(in_flight) + 1].frame_num = next_tx_frame
      /\ in_flight'[Len(in_flight) + 1].payload = hostCount + 1
  BY <1>1 DEF SendDataAccepted
<1>4. HostBase' = HostBase /\ HostAcked' = HostAcked /\ HostBase \in Int /\ HostAcked \in Nat
  BY <1>1, <1>2, <1>3 DEF HostBase, HostAcked, HostDirection, SessionInOrder
<1>5. next_tx_frame = Num(n) /\ next_tx_frame' = Num(n + 1)
  BY <1>1, NumSuccessor DEF HostDirection, SessionInOrder, SendDataAccepted
<1>6. SessionInOrder(HostBase, hostSent, ncpGot, Len(in_flight), next_tx_frame, ncp_rx, MAX_WINDOW)'
  <2>1. \A i \in 1 .. Len(hostSent') : hostSent'[i] = HostBase + i
    <3>1. hostCount + 1 = HostBase + (n + 1)
      BY <1>1 DEF HostBase
    <3> QED BY <1>1, <1>2, <3>1 DEF HostDirection, SessionInOrder
  <2>2. \A i \in 1 .. Len(ncpGot) : ncpGot[i] = HostBase + i
    BY <1>1 DEF HostDirection, SessionInOrder
  <2>3. /\ Len(in_flight') <= MAX_WINDOW /\ Len(in_flight') <= Len(hostSent')
        /\ Len(hostSent') - Len(in_flight') <= Len(ncpGot) /\ Len(ncpGot) <= Len(hostSent')
        /\ ncp_rx = Num(Len(ncpGot))
    BY <1>1, <1>2, <1>3 DEF HostDirection, SessionInOrder
  <2>4. next_tx_frame' = Num(Len(hostSent'))
    BY <1>2, <1>5
  <2> QED BY <1>4, <2>1, <2>2, <2>3, <2>4 DEF SessionInOrder
<1>7. HostQueueInOrder'
  <2>1. ASSUME NEW i \in 1 .. Len(in_flight)
        PROVE  /\ in_flight'[i].frame_num = Num(HostAcked + i - 1)
               /\ in_flight'[i].payload = HostBase + HostAcked + i
    BY <1>1, <1>3 DEF HostDirection, HostQueueInOrder
  <2>2. /\ HostAcked + (Len(in_flight) + 1) - 1 = n
        /\ hostCount + 1 = HostBase + HostAcked + (Len(in_flight) + 1)
    BY <1>1 DEF HostAcked, HostBase
  <2>3. \A i \in 1 .. Len(in_flight') : i \in 1 .. Len(in_flight) \/ i = Len(in_flight) + 1
    BY <1>1, <1>3
  <2> QED BY <1>3, <1>4, <1>5, <2>1, <2>2, <2>3 DEF HostQueueInOrder
<1>8. DataInOrder(toNcp, HostBase, Len(hostSent), Len(ncpGot), MAX_WINDOW)'
  <2>1. /\ outbound' \in LineFrame /\ outbound'.kind = "Data"
        /\ outbound'.frame_num = Num(n) /\ outbound'.payload = hostCount + 1
    BY <1>5, WrittenFrame DEF SendDataAccepted, Data, ConnInv, TypeOK
  <2>2. Index(outbound', HostBase) = n
    BY <1>1, <2>1 DEF Index, HostBase
  <2>3. <<outbound'>> \in Seq(LineFrame) /\ \A i \in 1 .. Len(<<outbound'>>) : <<outbound'>>[i] = outbound'
    BY <2>1
  <2>4. DataInOrder(toNcp \o <<outbound'>>, HostBase, n + 1, Len(ncpGot), MAX_WINDOW)
    <3>1. /\ DataInOrder(toNcp, HostBase, n, Len(ncpGot), MAX_WINDOW) /\ Len(ncpGot) <= n
      BY <1>1 DEF HostDirection, SessionInOrder
    <3>2. n <= n + 1 /\ Len(ncpGot) <= n + 1 /\ MAX_WINDOW > 0 /\ n + 1 <= n + MAX_WINDOW
          /\ n \in 0 .. ((n + 1) - 1) /\ n + 1 \in Nat
      BY <1>1, <3>1, WindowAssumption
    <3> HIDE DEF n
    <3>3. \A i \in 1 .. Len(<<outbound'>>) :
             <<outbound'>>[i].kind = "Data" =>
                /\ Index(<<outbound'>>[i], HostBase) \in 0 .. ((n + 1) - 1)
                /\ <<outbound'>>[i].frame_num = Num(Index(<<outbound'>>[i], HostBase))
                /\ n + 1 <= Index(<<outbound'>>[i], HostBase) + MAX_WINDOW
      BY <2>1, <2>2, <2>3, <3>2
    <3>4. n \in Nat
      BY <1>1
    <3> HIDE DEF Index
    <3> QED BY <1>1, <1>4, <2>3, <3>1, <3>2, <3>3, <3>4, DataAppended
  <2> QED BY <1>2, <1>4, <2>4
<1>9. AcksInOrder(toHost, HostAcked, Len(ncpGot))'
  BY <1>1, <1>4 DEF HostDirection
<1> QED BY <1>6, <1>7, <1>8, <1>9 DEF HostDirection

\* send_data: refused, nothing moves; accepted, the session goes on in order.
LEMMA HostSendStep ==
    ASSUME LinkInv, HostSend
    PROVE  LinkInv'
<1>1. hostCount \in Nat /\ hostCount + 1 \in Payload /\ hostCount < HostData
  BY LinkAssumption DEF LinkInv, LinkTypes, HostSend
<1>2. ConnInv'
  BY <1>1, SendDataStep DEF LinkInv, HostSend
<1>3. CASE \/ ~is_connected /\ SendDataRefused(NotConnected)
           \/ is_connected /\ Len(in_flight) >= MAX_WINDOW /\ SendDataRefused(WindowFull)
  <2>1. Written(outbound') = <<>> /\ outbound'.kind # "Data"
        /\ UNCHANGED <<phase, next_tx_frame, next_rx_frame, in_flight>>
    BY <1>3 DEF SendDataRefused, Written, NotConnected, WindowFull
  <2>2. toNcp' = toNcp
    BY <2>1 DEF LinkInv, LinkTypes, HostSend
  <2>3. UNCHANGED <<hostSent, hostCount, toHost, ncpVars, ncpGot, ncpSent, hostGot, linked, ncpCount>>
    BY <2>1 DEF HostSend
  <2> QED BY <1>2, <2>1, <2>2, <2>3, HostIdle DEF lineVars, ncpVars, historyVars
<1>4. CASE is_connected /\ Len(in_flight) < MAX_WINDOW /\ SendDataAccepted(hostCount + 1)
  <2>1. outbound' \in LineFrame /\ outbound'.kind = "Data" /\ Written(outbound') = <<outbound'>>
        /\ phase' = phase /\ next_rx_frame' = next_rx_frame
    BY <1>2, <1>4, WrittenFrame DEF SendDataAccepted, Data, ConnInv, TypeOK
  <2>2. /\ toNcp' = toNcp \o <<outbound'>>
        /\ hostSent' = Append(hostSent, hostCount + 1) /\ hostCount' = hostCount + 1
        /\ UNCHANGED <<toHost, ncp_tx, ncp_rx, ncp_out, ncpGot, ncpSent, hostGot, linked, ncpCount>>
    BY <2>1 DEF HostSend, ncpVars
  <2>3. <<outbound'>> \in Seq(LineFrame) /\ ~OnLine(<<outbound'>>, "Rst")
    BY <2>1 DEF OnLine
  <2>4. NoHandshake'
    <3>1. NoHandshake
      BY <1>4 DEF is_connected, LinkInv, RstTravelsAlone, RstAckLeads, NoHandshake
    <3> QED BY <2>2, <2>3, <3>1, OnLongerLine DEF NoHandshake, LinkInv, LinkTypes
  <2>5. LinkTypes'
    <3>1. toNcp' \in Seq(LineFrame)
      BY <2>2, <2>3, LongerLine DEF LinkInv, LinkTypes
    <3>2. hostSent' \in Seq(Payload) /\ hostCount' \in 0 .. HostData
      BY <1>1, <2>2, LinkAssumption DEF LinkInv, LinkTypes
    <3> QED BY <2>2, <3>1, <3>2 DEF LinkInv, LinkTypes
  <2>6. ASSUME linked PROVE HostDirection' /\ NcpDirection'
    <3>1. HostDirection'
      BY <1>1, <1>2, <1>4, <2>2, <2>6, HostSendsInOrder
    <3>2. NcpSession(hostGot, next_rx_frame)'
      BY <2>1, <2>2, <2>6 DEF LinkInv, NcpDirection, NcpSession, NcpQueueInOrder, NcpBase, NcpAcked
    <3>3. AcksInOrder(toNcp, NcpAcked, Len(hostGot))'
      <4>1. /\ hostGot' \in Seq(Payload) /\ Len(hostGot') = Len(hostGot) /\ Len(hostGot) \in Nat
            /\ next_rx_frame' = Num(Len(hostGot'))
        BY <2>1, <2>2, <2>6 DEF LinkInv, LinkTypes, NcpDirection, NcpSession, SessionInOrder
      <4> QED BY <1>2, <2>1, <2>2, <2>6, <4>1, HostAcksInOrder
    <3> QED BY <3>1, <3>2, <3>3 DEF NcpDirection
  <2> QED BY <1>2, <2>2, <2>4, <2>5, <2>6, NoHandshakeIsEnough DEF LinkInv
<1> QED BY <1>3, <1>4 DEF HostSend, send_data

\* An acknowledgement the host takes is of frames the NCP has: what it retires was delivered, and
\* a frame it resends is the oldest one left.
LEMMA HostTakesAck ==
    ASSUME LinkInv, linked, toHost # <<>>, Acknowledges(Head(toHost)), toHost' = Tail(toHost),
           in_flight' \in Seq(InFlight), outbound' \in Outbound,
           toNcp' = toNcp \o Written(outbound'),
           UNCHANGED <<hostSent, hostCount, ncpGot, ncp_rx, next_tx_frame>>,
           LET left == retire_acknowledged(Head(toHost).ack_num) IN
               /\ Len(in_flight') = Len(left)
               /\ \A i \in 1 .. Len(left) :
                     /\ in_flight'[i].frame_num = left[i].frame_num
                     /\ in_flight'[i].payload = left[i].payload,
           outbound'.kind = "Data" =>
               /\ in_flight' # <<>>
               /\ outbound'.frame_num = in_flight'[1].frame_num
               /\ outbound'.payload = in_flight'[1].payload
    PROVE  HostDirection'
<1> DEFINE left == retire_acknowledged(Head(toHost).ack_num)
           more == Written(outbound')
<1>1. /\ toNcp \in Seq(LineFrame) /\ toHost \in Seq(LineFrame) /\ hostCount \in Nat
      /\ hostSent \in Seq(Payload) /\ ncpGot \in Seq(Payload)
      /\ Len(hostSent) \in Nat /\ Len(ncpGot) \in Nat /\ Len(in_flight) \in Nat
      /\ MAX_WINDOW \in Nat /\ MAX_WINDOW > 0 /\ MAX_WINDOW < SEQUENCE_MODULUS
      /\ SEQUENCE_MODULUS \in Nat
      /\ HostDirection
  BY WindowAssumption, ModulusAssumption DEF LinkInv, LinkTypes, ConnInv, TypeOK
<1>2. /\ HostAcked \in Nat /\ HostAcked <= Len(ncpGot) /\ Len(ncpGot) <= Len(hostSent)
      /\ Len(in_flight) <= Len(hostSent)
      /\ Len(ncpGot) < HostAcked + SEQUENCE_MODULUS
      /\ HostBase \in Int
  BY <1>1 DEF HostDirection, SessionInOrder, HostAcked, HostBase
<1>3. PICK x \in HostAcked .. Len(ncpGot) :
         Head(toHost).ack_num = Num(x) /\ AcksInOrder(Tail(toHost), x, Len(ncpGot))
  <2>1. Head(toHost) = toHost[1]
    BY <1>1, TailOfLine
  <2> QED BY <1>1, <1>2, <2>1, AckTaken DEF HostDirection
<1>4. /\ Len(left) = Len(hostSent) - x
      /\ \A i \in 1 .. Len(left) :
            /\ left[i].frame_num = Num(x + i - 1)
            /\ left[i].payload = HostBase + x + i
  <2>1. x \in HostAcked .. Len(hostSent)
    BY <1>1, <1>2
  <2>2. ConnInv /\ HostQueueInOrder
    BY <1>1 DEF HostDirection, LinkInv
  <2>3. left = retire_acknowledged(Num(x))
    BY <1>3
  <2> HIDE DEF left
  <2> QED BY <1>1, <1>2, <2>1, <2>2, <2>3, HostRetires
<1> HIDE DEF left
<1>5. /\ Len(in_flight') = Len(hostSent) - x
      /\ \A i \in 1 .. Len(in_flight') :
            /\ in_flight'[i].frame_num = Num(x + i - 1)
            /\ in_flight'[i].payload = HostBase + x + i
  BY <1>4 DEF left
<1>6. HostAcked' = x /\ HostBase' = HostBase /\ x \in Nat
  <2>1. x \in Nat
    BY <1>2
  <2>2. HostAcked' = Len(hostSent) - (Len(hostSent) - x)
    BY <1>5 DEF HostAcked
  <2>3. HostBase' = HostBase
    BY DEF HostBase
  <2> QED BY <1>1, <2>1, <2>2, <2>3
<1>7. SessionInOrder(HostBase, hostSent, ncpGot, Len(in_flight), next_tx_frame, ncp_rx, MAX_WINDOW)'
  <2>1. /\ Len(in_flight') <= MAX_WINDOW /\ Len(in_flight') <= Len(hostSent)
        /\ Len(hostSent) - Len(in_flight') <= Len(ncpGot)
    BY <1>1, <1>2, <1>5, SMTT(30) DEF HostDirection, SessionInOrder, HostAcked
  <2> QED BY <1>1, <1>6, <2>1 DEF HostDirection, SessionInOrder
<1>8. HostQueueInOrder'
  BY <1>5, <1>6 DEF HostQueueInOrder
<1>9. DataInOrder(toNcp, HostBase, Len(hostSent), Len(ncpGot), MAX_WINDOW)'
  <2>1. more \in Seq(LineFrame) /\ \A i \in 1 .. Len(more) : more[i] = outbound'
    BY WrittenFrame
  <2>2. ASSUME outbound'.kind = "Data"
        PROVE  /\ Index(outbound', HostBase) \in 0 .. (Len(hostSent) - 1)
               /\ outbound'.frame_num = Num(Index(outbound', HostBase))
               /\ Len(hostSent) <= Index(outbound', HostBase) + MAX_WINDOW
    <3>1. 1 \in 1 .. Len(in_flight')
      BY <2>2
    <3>2. outbound'.frame_num = Num(x + 1 - 1) /\ outbound'.payload = HostBase + x + 1
      BY <1>5, <2>2, <3>1
    <3>3. x + 1 - 1 = x /\ Index(outbound', HostBase) = x
      BY <1>2, <1>6, <3>2 DEF Index
    <3>4. x <= Len(hostSent) - 1 /\ Len(hostSent) <= x + MAX_WINDOW
      BY <1>1, <1>5, <1>6, <1>7, <3>1 DEF SessionInOrder
    <3> QED BY <1>1, <1>6, <3>2, <3>3, <3>4
  <2>3. \A i \in 1 .. Len(more) :
           more[i].kind = "Data" =>
               /\ Index(more[i], HostBase) \in 0 .. (Len(hostSent) - 1)
               /\ more[i].frame_num = Num(Index(more[i], HostBase))
               /\ Len(hostSent) <= Index(more[i], HostBase) + MAX_WINDOW
    BY <2>1, <2>2
  <2> HIDE DEF more
  <2>4. DataInOrder(toNcp \o more, HostBase, Len(hostSent), Len(ncpGot), MAX_WINDOW)
    <3>1. DataInOrder(toNcp, HostBase, Len(hostSent), Len(ncpGot), MAX_WINDOW)
          /\ Len(hostSent) <= Len(hostSent)
      BY <1>1 DEF HostDirection
    <3> HIDE DEF Index
    <3> QED BY <1>1, <1>2, <2>1, <2>3, <3>1, DataAppended
  <2> QED BY <1>6, <2>4 DEF more
<1>10. AcksInOrder(toHost, HostAcked, Len(ncpGot))'
  BY <1>3, <1>6
<1> QED BY <1>7, <1>8, <1>9, <1>10 DEF HostDirection

\* on_frame and on_decode_failure keep the connection's own invariant, whatever the line delivers.
LEMMA HostReceiveConn ==
    ASSUME LinkInv, HostReceive
    PROVE  ConnInv'
<1>1. toHost \in Seq(LineFrame) /\ toHost # <<>> /\ ConnInv
  BY DEF LinkInv, LinkTypes, HostReceive
<1>2. Head(toHost) \in LineFrame
  BY <1>1, TailOfLine
<1>3. CASE on_decode_failure(TRUE)
  BY <1>1, <1>3, DecodeFailureStep
<1>4. CASE Head(toHost).kind # "Garbled" /\ on_frame(Head(toHost))
  <2>1. Head(toHost) \in AshFrame
    BY <1>2, <1>4, FrameByKind
  <2> QED BY <1>1, <1>4, <2>1, OnFrameStep
<1> QED BY <1>3, <1>4 DEF HostReceive

\* Taking a frame keeps every type.
LEMMA HostReceiveTypes ==
    ASSUME LinkInv, HostReceive
    PROVE  LinkTypes'
<1>1. /\ toHost \in Seq(LineFrame) /\ toHost # <<>> /\ toNcp \in Seq(LineFrame)
      /\ hostGot \in Seq(Payload) /\ hostSent \in Seq(Payload)
  BY DEF LinkInv, LinkTypes, HostReceive
<1>2. outbound' \in Outbound /\ received' \in {<<>>} \cup {<<p>> : p \in Payload}
  BY HostReceiveConn DEF ConnInv, TypeOK
<1>3. toNcp' \in Seq(LineFrame)
  BY <1>1, <1>2, WrittenFrame, LongerLine DEF HostReceive
<1>4. /\ toHost' \in Seq(LineFrame)
      /\ \A i \in 1 .. Len(toHost') : toHost'[i].kind \notin {"Rst", "Error"}
  <2>1. /\ toHost' \in Seq(LineFrame) /\ Len(toHost') = Len(toHost) - 1 /\ Len(toHost) \in Nat
        /\ \A i \in 1 .. (Len(toHost) - 1) : toHost'[i] = toHost[i + 1]
    BY <1>1, TailOfLine DEF HostReceive
  <2>2. \A i \in 1 .. Len(toHost') : i + 1 \in 1 .. Len(toHost) /\ toHost'[i] = toHost[i + 1]
    BY <2>1
  <2>3. \A i \in 1 .. Len(toHost) : toHost[i].kind \notin {"Rst", "Error"}
    BY DEF LinkInv, LinkTypes
  <2> QED BY <2>1, <2>2, <2>3
<1>5. hostGot' \in Seq(Payload)
  <2>1. received' \in Seq(Payload)
    <3>1. <<>> \in Seq(Payload) /\ \A p \in Payload : <<p>> \in Seq(Payload)
      OBVIOUS
    <3> QED BY <1>2, <3>1, Zenon
  <2>2. hostGot \o received' \in Seq(Payload) /\ <<>> \in Seq(Payload)
    BY <1>1, <2>1
  <2> QED BY <2>2 DEF HostReceive
<1>6. hostSent' \in Seq(Payload) /\ linked' \in BOOLEAN
  <2>1. (linked' = TRUE /\ hostSent' = <<>>) \/ UNCHANGED <<linked, hostSent>>
    BY DEF HostReceive
  <2>2. <<>> \in Seq(Payload)
    OBVIOUS
  <2> QED BY <2>1, <2>2 DEF LinkInv, LinkTypes
<1>7. UNCHANGED <<ncp_tx, ncp_rx, ncp_out, ncpGot, ncpSent, hostCount, ncpCount>>
  BY DEF HostReceive, ncpVars, boundVars
<1> QED BY <1>3, <1>4, <1>5, <1>6, <1>7 DEF LinkInv, LinkTypes

\* A line with nothing on it is in order.
LEMMA EmptyLine ==
    ASSUME NEW base, NEW sent, NEW got, NEW w, NEW acked
    PROVE  DataInOrder(<<>>, base, sent, got, w) /\ AcksInOrder(<<>>, acked, got)
BY DEF DataInOrder, AcksInOrder

\* The RSTACK starts a session in which nothing was taken yet, behind which the NCP's first frames
\* already stand in order.
LEMMA HostTakesRstAck ==
    ASSUME LinkInv, HostReceive, Head(toHost).kind = "RstAck"
    PROVE  LinkInv' /\ ncpGot = <<>>
<1>1. /\ toHost \in Seq(LineFrame) /\ toHost # <<>> /\ toHost' = Tail(toHost)
      /\ Head(toHost) = toHost[1] /\ Len(toHost) \in Nat \ {0}
      /\ toHost' \in Faulty(toHost)
  BY TailOfLine DEF LinkInv, LinkTypes, HostReceive, Faulty
<1>2. /\ \A i \in 2 .. Len(toHost) : toHost[i].kind # "RstAck"
      /\ toNcp = <<>> /\ ncpGot = <<>> /\ ncp_rx = 0
      /\ NcpSession(<<>>, 0)
      /\ AcksInOrder(toHost, 0, 0)
  BY <1>1 DEF LinkInv, RstAckLeads, OnLine
<1>3. /\ OnRstAck /\ linked' = TRUE /\ hostSent' = <<>> /\ hostGot' = <<>>
      /\ UNCHANGED <<ncp_tx, ncp_rx, ncp_out, ncpGot, ncpSent, ncpCount>>
  BY DEF HostReceive, on_frame, ncpVars, boundVars
<1>4. toNcp' = <<>>
  BY <1>2, <1>3 DEF HostReceive, OnRstAck, Written, Nothing
<1>5. NoHandshake'
  BY <1>1, <1>2, <1>4, OnFaultyLine DEF NoHandshake, OnLine
<1>6. NcpAcked' = NcpAcked /\ NcpBase' = NcpBase /\ NcpBase \in Int /\ Len(ncpSent) \in Nat
  BY <1>3, LinkAssumption DEF NcpAcked, NcpBase, LinkInv, LinkTypes
<1>7. HostDirection'
  <2>1. HostAcked' = 0
    BY <1>3 DEF HostAcked, OnRstAck
  <2>2. /\ in_flight' = <<>> /\ next_tx_frame' = 0 /\ ncp_rx' = 0 /\ ncpGot' = <<>>
        /\ Len(<<>>) = 0
    BY <1>2, <1>3 DEF OnRstAck
  <2>3. SessionInOrder(HostBase, hostSent, ncpGot, Len(in_flight), next_tx_frame, ncp_rx, MAX_WINDOW)'
    BY <1>3, <2>2, NumZero, WindowAssumption DEF SessionInOrder
  <2>4. HostQueueInOrder'
    BY <2>2 DEF HostQueueInOrder
  <2>5. AcksInOrder(toHost', 0, 0)
    BY <1>1, <1>2, AcksSurviveFault
  <2>6. DataInOrder(toNcp, HostBase, Len(hostSent), Len(ncpGot), MAX_WINDOW)'
    BY <1>4, EmptyLine
  <2>7. AcksInOrder(toHost, HostAcked, Len(ncpGot))'
    BY <2>1, <2>2, <2>5
  <2> QED BY <2>3, <2>4, <2>6, <2>7 DEF HostDirection
<1>8. NcpDirection'
  <2>1. next_rx_frame' = 0
    BY <1>3 DEF OnRstAck
  <2>2. DataInOrder(toHost', NcpBase, Len(ncpSent), Len(<<>>), NcpWindow)
    <3>1. Len(<<>>) \in Nat /\ NcpWindow \in Nat
      BY LinkAssumption, ModulusAssumption
    <3> QED BY <1>1, <1>2, <1>6, <3>1, DataSurvivesFault DEF NcpSession
  <2>3. NcpQueueInOrder'
    BY <1>2, <1>3, <1>6 DEF NcpSession, NcpQueueInOrder
  <2>4. NcpSession(hostGot, next_rx_frame)'
    BY <1>2, <1>3, <1>6, <2>1, <2>2, <2>3 DEF NcpSession
  <2> QED BY <1>4, <2>4, EmptyLine DEF NcpDirection
<1> QED BY <1>2, <1>5, <1>7, <1>8, HostReceiveConn, HostReceiveTypes, NoHandshakeIsEnough DEF LinkInv

\* A frame that is not delivered, because it is lost, garbled or not the next one, leaves the NCP's
\* session as it was.
LEMMA HostSkipsFrame ==
    ASSUME LinkInv, linked, toHost # <<>>, toHost' \in Faulty(toHost),
           UNCHANGED <<ncp_tx, ncp_out, ncpSent, ncpCount, hostGot, next_rx_frame>>
    PROVE  NcpSession(hostGot, next_rx_frame)'
<1>1. /\ toHost \in Seq(LineFrame) /\ NcpSession(hostGot, next_rx_frame)
      /\ Len(ncpSent) \in Nat /\ Len(hostGot) \in Nat /\ NcpWindow \in Nat /\ NcpBase \in Int
  BY LinkAssumption, ModulusAssumption DEF LinkInv, LinkTypes, NcpDirection, NcpBase
<1>2. NcpBase' = NcpBase /\ NcpAcked' = NcpAcked
  BY DEF NcpBase, NcpAcked
<1>3. DataInOrder(toHost', NcpBase, Len(ncpSent), Len(hostGot), NcpWindow)
  BY <1>1, DataSurvivesFault DEF NcpSession
<1>4. NcpQueueInOrder'
  BY <1>1, <1>2 DEF NcpSession, NcpQueueInOrder
<1> QED BY <1>1, <1>2, <1>3, <1>4 DEF NcpSession

\* A DATA frame with the number on_frame expects is the next payload of the session.
LEMMA HostTakesData ==
    ASSUME LinkInv, linked, toHost # <<>>, toHost' = Tail(toHost), Head(toHost).kind = "Data",
           Head(toHost).frame_num = next_rx_frame, next_rx_frame' = next_sequence(next_rx_frame),
           hostGot' = hostGot \o <<Head(toHost).payload>>,
           UNCHANGED <<ncp_tx, ncp_out, ncpSent, ncpCount>>
    PROVE  /\ NcpSession(hostGot, next_rx_frame)'
           /\ Len(hostGot') = Len(hostGot) + 1
           /\ Len(hostGot) < Len(ncpSent)
           /\ hostGot' = Append(hostGot, ncpSent[Len(hostGot) + 1])
<1> DEFINE n == Len(hostGot)
           p == Head(toHost).payload
<1>1. /\ toHost \in Seq(LineFrame) /\ hostGot \in Seq(Payload)
      /\ NcpSession(hostGot, next_rx_frame) /\ NcpBase \in Int
      /\ Len(ncpSent) \in Nat /\ n \in Nat /\ NcpWindow \in Nat /\ NcpWindow < SEQUENCE_MODULUS
  BY LinkAssumption, ModulusAssumption DEF LinkInv, LinkTypes, NcpDirection, NcpBase
<1>2. Head(toHost) = toHost[1] /\ toHost[1].payload \in Payload
  BY <1>1, TailOfLine, FrameByKind DEF DataFrames
<1>3. /\ Index(toHost[1], NcpBase) = n
      /\ n < Len(ncpSent)
      /\ DataInOrder(Tail(toHost), NcpBase, Len(ncpSent), n + 1, NcpWindow)
  <2>1. /\ DataInOrder(toHost, NcpBase, Len(ncpSent), n, NcpWindow)
        /\ n <= Len(ncpSent) /\ Len(ncpSent) <= n + NcpWindow
        /\ toHost[1].frame_num = Num(n)
    <3>1. Len(ncp_out) \in Nat
      BY DEF LinkInv, LinkTypes
    <3>2. /\ Len(ncp_out) <= NcpWindow /\ Len(ncpSent) - Len(ncp_out) <= n /\ n <= Len(ncpSent)
          /\ next_rx_frame = Num(n)
          /\ DataInOrder(toHost, NcpBase, Len(ncpSent), n, NcpWindow)
      BY <1>1 DEF NcpSession, SessionInOrder
    <3> HIDE DEF n
    <3>3. Len(ncpSent) <= n + NcpWindow
      BY <1>1, <3>1, <3>2
    <3> QED BY <1>2, <3>2, <3>3
  <2> HIDE DEF n
  <2> QED BY <1>1, <1>2, <2>1, DataTaken
<1>4. p = NcpBase + (n + 1) /\ p = ncpSent[n + 1]
  <2>1. p \in Int /\ p - NcpBase - 1 = n
    BY <1>2, <1>3, LinkAssumption DEF Index
  <2>2. p = NcpBase + (n + 1)
    <3>1. n \in Nat /\ NcpBase \in Int
      BY <1>1
    <3> HIDE DEF n, p
    <3> QED BY <2>1, <3>1
  <2>3. n + 1 \in 1 .. Len(ncpSent)
    BY <1>1, <1>3
  <2> QED BY <1>1, <2>2, <2>3 DEF NcpSession, SessionInOrder
<1>5. /\ hostGot' = Append(hostGot, p)
      /\ Len(hostGot') = n + 1
      /\ \A i \in 1 .. n : hostGot'[i] = hostGot[i]
      /\ hostGot'[n + 1] = p
  BY <1>1, <1>2
<1>6. NcpBase' = NcpBase /\ NcpAcked' = NcpAcked
  BY DEF NcpBase, NcpAcked
<1>7. SessionInOrder(NcpBase, ncpSent, hostGot, Len(ncp_out), ncp_tx, next_rx_frame, NcpWindow)'
  <2>1. next_rx_frame' = Num(Len(hostGot'))
    BY <1>1, <1>5, NumSuccessor DEF NcpSession, SessionInOrder
  <2>2. \A i \in 1 .. Len(hostGot') : hostGot'[i] = NcpBase + i
    <3>1. \A i \in 1 .. Len(hostGot') : i \in 1 .. n \/ i = n + 1
      BY <1>1, <1>5
    <3> QED BY <1>1, <1>4, <1>5, <3>1 DEF NcpSession, SessionInOrder
  <2>3. /\ Len(ncpSent) - Len(ncp_out) <= Len(hostGot') /\ Len(hostGot') <= Len(ncpSent)
    <3>1. Len(ncp_out) \in Nat
      BY DEF LinkInv, LinkTypes
    <3> QED BY <1>1, <1>3, <1>5, <3>1 DEF NcpSession, SessionInOrder
  <2> QED BY <1>1, <1>6, <2>1, <2>2, <2>3 DEF NcpSession, SessionInOrder
<1>8. DataInOrder(toHost, NcpBase, Len(ncpSent), Len(hostGot), NcpWindow)'
  BY <1>3, <1>5, <1>6
<1>9. NcpQueueInOrder'
  BY <1>1, <1>6 DEF NcpSession, NcpQueueInOrder
<1> QED BY <1>3, <1>4, <1>5, <1>7, <1>8, <1>9 DEF NcpSession

\* A garbled frame says nothing of the host's own direction, and the NAK it is answered with no more.
LEMMA HostTakesGarbled ==
    ASSUME LinkInv, linked, toHost # <<>>, toHost' = Tail(toHost), on_decode_failure(TRUE),
           toNcp' = toNcp \o Written(outbound'),
           UNCHANGED <<hostSent, hostCount, ncpGot, ncp_rx>>
    PROVE  HostDirection'
<1> DEFINE more == Written(outbound')
<1>1. /\ toNcp \in Seq(LineFrame) /\ toHost \in Seq(LineFrame) /\ hostCount \in Nat
      /\ Len(hostSent) \in Nat /\ Len(ncpGot) \in Nat /\ Len(in_flight) \in Nat
      /\ MAX_WINDOW \in Nat /\ MAX_WINDOW > 0
      /\ HostDirection
  BY WindowAssumption DEF LinkInv, LinkTypes, ConnInv, TypeOK
<1>2. HostBase' = HostBase /\ HostAcked' = HostAcked /\ HostBase \in Int /\ HostAcked \in Nat
  BY <1>1 DEF HostBase, HostAcked, HostDirection, SessionInOrder, on_decode_failure
<1>3. HostQueueInOrder' /\ UNCHANGED <<in_flight, next_tx_frame>>
  BY <1>1, <1>2 DEF HostDirection, HostQueueInOrder, on_decode_failure
<1>4. more \in Seq(LineFrame) /\ \A i \in 1 .. Len(more) : more[i].kind # "Data"
  <2>1. outbound' = Nak(next_rx_frame) /\ outbound' \in Outbound
    BY DEF on_decode_failure, LinkInv, ConnInv, TypeOK, Outbound, NakFrames, Nak
  <2> QED BY <2>1, WrittenFrame DEF Nak
<1> HIDE DEF more
<1>5. DataInOrder(toNcp \o more, HostBase, Len(hostSent), Len(ncpGot), MAX_WINDOW)
  <2>1. DataInOrder(toNcp, HostBase, Len(hostSent), Len(ncpGot), MAX_WINDOW)
        /\ Len(ncpGot) <= Len(hostSent) /\ Len(hostSent) <= Len(hostSent)
    BY <1>1 DEF HostDirection, SessionInOrder
  <2> QED BY <1>1, <1>2, <1>4, <2>1, DataAppended
<1>6. AcksInOrder(toHost', HostAcked, Len(ncpGot))
  BY <1>1, <1>2, AcksSurviveFault DEF HostDirection, Faulty
<1> QED BY <1>1, <1>2, <1>3, <1>5, <1>6 DEF HostDirection, more

\* Any frame but a RSTACK: what it acknowledges is retired, what it carries is delivered if it is
\* next, and what the host answers keeps both directions in order.
LEMMA HostTakesFrame ==
    ASSUME LinkInv, HostReceive, Head(toHost).kind # "RstAck"
    PROVE  /\ LinkInv'
           /\ UNCHANGED <<linked, hostSent>>
           /\ linked =>
                 \/ hostGot' = hostGot
                 \/ /\ Len(hostGot) < Len(ncpSent)
                    /\ hostGot' = Append(hostGot, ncpSent[Len(hostGot) + 1])
<1> DEFINE f == Head(toHost)
           left == retire_acknowledged(f.ack_num)
<1>1. /\ toHost \in Seq(LineFrame) /\ toHost # <<>> /\ toHost' = Tail(toHost)
      /\ toNcp \in Seq(LineFrame) /\ toNcp' = toNcp \o Written(outbound')
      /\ hostGot \in Seq(Payload)
      /\ f = toHost[1] /\ f \in LineFrame /\ Len(toHost) \in Nat \ {0}
  BY TailOfLine DEF LinkInv, LinkTypes, HostReceive
<1>2. f.kind \in {"Data", "Ack", "Nak", "Garbled"} /\ (Acknowledges(f) => f.ack_num \in SeqNum)
  <2>1. 1 \in 1 .. Len(toHost)
    BY <1>1
  <2>2. toHost[1].kind \notin {"Rst", "Error"}
    BY <2>1 DEF LinkInv, LinkTypes
  <2> QED BY <1>1, <2>2, FrameByKind
<1>3. /\ UNCHANGED <<linked, hostSent, hostCount, ncpGot, ncp_rx>>
      /\ UNCHANGED <<ncp_tx, ncp_out, ncpSent, ncpCount>>
      /\ hostGot' = hostGot \o received'
  BY DEF HostReceive, ncpVars, boundVars
<1>4. \/ f.kind = "Garbled" /\ on_decode_failure(TRUE)
      \/ f.kind = "Ack" /\ OnAck(f.ack_num)
      \/ f.kind = "Nak" /\ OnNak(f.ack_num)
      \/ f.kind = "Data" /\ OnData(f.frame_num, f.ack_num, f.payload)
  BY <1>2 DEF HostReceive, on_frame
<1>5. ConnInv' /\ LinkTypes' /\ outbound' \in Outbound /\ in_flight' \in Seq(InFlight)
  BY HostReceiveConn, HostReceiveTypes DEF ConnInv, TypeOK
<1>6. NoHandshake'
  <2>1. NoHandshake
    BY <1>1, OtherFrameMeansQuiet
  <2>2. ~OnLine(toHost', "RstAck")
    <3>1. toHost' \in Faulty(toHost)
      BY <1>1 DEF Faulty
    <3> QED BY <1>1, <2>1, <3>1, OnFaultyLine DEF NoHandshake, OnLine
  <2>3. outbound'.kind # "Rst"
    BY <1>4 DEF on_decode_failure, OnAck, OnNak, OnData, RetransmitOldest, Nak, Ack, Data, Nothing
  <2>4. ~OnLine(Written(outbound'), "Rst")
    BY <1>5, <2>3, WrittenFrame DEF OnLine
  <2> QED BY <1>1, <1>5, <2>1, <2>2, <2>4, OnLongerLine, WrittenFrame DEF NoHandshake
<1>7. ASSUME linked, received' = <<>>, next_rx_frame' = next_rx_frame
      PROVE  hostGot' = hostGot /\ NcpDirection'
  <2>1. hostGot' = hostGot
    BY <1>1, <1>3, <1>7
  <2>2. NcpSession(hostGot, next_rx_frame)'
    BY <1>1, <1>3, <1>7, <2>1, HostSkipsFrame DEF Faulty
  <2>3. AcksInOrder(toNcp, NcpAcked, Len(hostGot))'
    <3>1. /\ hostGot' \in Seq(Payload) /\ Len(hostGot) <= Len(hostGot')
          /\ next_rx_frame' = Num(Len(hostGot'))
      BY <1>1, <1>7, <2>1 DEF LinkInv, NcpDirection, NcpSession, SessionInOrder
    <3> QED BY <1>1, <1>3, <1>5, <1>7, <3>1, HostAcksInOrder
  <2> QED BY <2>1, <2>2, <2>3 DEF NcpDirection
<1>8. CASE f.kind = "Garbled" /\ on_decode_failure(TRUE)
  <2>1. received' = <<>> /\ next_rx_frame' = next_rx_frame
    BY <1>8 DEF on_decode_failure
  <2>2. linked => HostDirection'
    BY <1>1, <1>3, <1>8, HostTakesGarbled
  <2> QED BY <1>3, <1>5, <1>6, <1>7, <2>1, <2>2, NoHandshakeIsEnough DEF LinkInv
<1>9. CASE f.kind = "Ack" /\ OnAck(f.ack_num)
  <2>1. received' = <<>> /\ UNCHANGED <<next_rx_frame, next_tx_frame>>
        /\ in_flight' = left /\ outbound'.kind # "Data"
    BY <1>9 DEF OnAck, Nothing
  <2>2. linked => HostDirection'
    BY <1>1, <1>3, <1>5, <1>9, <2>1, HostTakesAck DEF Acknowledges
  <2> QED BY <1>3, <1>5, <1>6, <1>7, <2>1, <2>2, NoHandshakeIsEnough DEF LinkInv
<1>10. CASE f.kind = "Nak" /\ OnNak(f.ack_num)
  <2>1. received' = <<>> /\ UNCHANGED <<next_rx_frame, next_tx_frame>>
    BY <1>10 DEF OnNak
  <2>2. left \in Seq(InFlight)
    BY <1>2, <1>10, RetireKeepsQueue DEF Acknowledges, LinkInv, ConnInv
  <2>3. \/ in_flight' = left /\ outbound' = Nothing
        \/ /\ left # <<>>
           /\ in_flight' = [left EXCEPT ![1].sends = @ + 1]
           /\ outbound' = Data(left[1].frame_num, next_rx_frame, TRUE, left[1].payload)
    BY <1>10 DEF OnNak, RetransmitOldest
  <2>4. /\ Len(in_flight') = Len(left)
        /\ \A i \in 1 .. Len(left) :
              /\ in_flight'[i].frame_num = left[i].frame_num
              /\ in_flight'[i].payload = left[i].payload
        /\ outbound'.kind = "Data" =>
              /\ in_flight' # <<>>
              /\ outbound'.frame_num = in_flight'[1].frame_num
              /\ outbound'.payload = in_flight'[1].payload
    <3>1. CASE in_flight' = left /\ outbound' = Nothing
      BY <3>1 DEF Nothing
    <3>2. CASE /\ left # <<>>
               /\ in_flight' = [left EXCEPT ![1].sends = @ + 1]
               /\ outbound' = Data(left[1].frame_num, next_rx_frame, TRUE, left[1].payload)
      <4> HIDE DEF left
      <4>1. /\ Len(left) \in Nat /\ 1 \in 1 .. Len(left) /\ Len(in_flight') = Len(left)
            /\ in_flight' # <<>>
        BY <2>2, <3>2
      <4>2. \A i \in 1 .. Len(left) :
               /\ in_flight'[i].frame_num = left[i].frame_num
               /\ in_flight'[i].payload = left[i].payload
        BY <2>2, <3>2, <4>1 DEF InFlight
      <4> QED BY <3>2, <4>1, <4>2 DEF Data
    <3> QED BY <2>3, <3>1, <3>2
  <2>5. linked => HostDirection'
    BY <1>1, <1>3, <1>5, <1>10, <2>1, <2>4, HostTakesAck DEF Acknowledges
  <2> QED BY <1>3, <1>5, <1>6, <1>7, <2>1, <2>5, NoHandshakeIsEnough DEF LinkInv
<1>11. CASE f.kind = "Data" /\ OnData(f.frame_num, f.ack_num, f.payload)
  <2>1. /\ in_flight' = left /\ outbound'.kind # "Data" /\ UNCHANGED next_tx_frame
        /\ \/ /\ f.frame_num = next_rx_frame
              /\ next_rx_frame' = next_sequence(next_rx_frame)
              /\ received' = <<f.payload>>
           \/ received' = <<>> /\ UNCHANGED next_rx_frame
    BY <1>11 DEF OnData, Ack
  <2>2. linked => HostDirection'
    BY <1>1, <1>3, <1>5, <1>11, <2>1, HostTakesAck DEF Acknowledges
  <2>3. CASE received' = <<>> /\ UNCHANGED next_rx_frame
    BY <1>3, <1>5, <1>6, <1>7, <2>2, <2>3, NoHandshakeIsEnough DEF LinkInv
  <2>4. CASE /\ f.frame_num = next_rx_frame
             /\ next_rx_frame' = next_sequence(next_rx_frame)
             /\ received' = <<f.payload>>
    <3>1. ASSUME linked
          PROVE  /\ NcpDirection' /\ Len(hostGot) < Len(ncpSent)
                 /\ hostGot' = Append(hostGot, ncpSent[Len(hostGot) + 1])
      <4>1. /\ NcpSession(hostGot, next_rx_frame)'
            /\ Len(hostGot') = Len(hostGot) + 1
            /\ Len(hostGot) < Len(ncpSent)
            /\ hostGot' = Append(hostGot, ncpSent[Len(hostGot) + 1])
        BY <1>1, <1>3, <1>11, <2>4, <3>1, HostTakesData
      <4>2. /\ hostGot' \in Seq(Payload) /\ Len(hostGot) <= Len(hostGot')
            /\ next_rx_frame' = Num(Len(hostGot'))
        BY <1>1, <1>5, <4>1 DEF LinkTypes, NcpSession, SessionInOrder
      <4>3. AcksInOrder(toNcp, NcpAcked, Len(hostGot))'
        BY <1>1, <1>3, <1>5, <3>1, <4>2, HostAcksInOrder
      <4> QED BY <4>1, <4>3 DEF NcpDirection
    <3> QED BY <1>3, <1>5, <1>6, <2>2, <3>1, NoHandshakeIsEnough DEF LinkInv
  <2> QED BY <2>1, <2>3, <2>4
<1> QED BY <1>4, <1>8, <1>9, <1>10, <1>11

-----------------------------------------------------------------------------
(* The NCP's steps *)

\* Frames resent from the front of a sender's queue go behind all others.
LEMMA ResendsInOrder ==
    ASSUME NEW line \in Seq(LineFrame), NEW more \in Seq(LineFrame),
           NEW base \in Int, NEW sent \in Nat, NEW got \in Nat, NEW acked \in Nat, NEW w \in Nat,
           DataInOrder(line, base, sent, got, w), got <= sent, sent <= acked + w, w > 0,
           \A i \in 1 .. Len(more) :
               more[i].kind = "Data" =>
                   /\ i <= sent - acked
                   /\ more[i].frame_num = Num(acked + i - 1)
                   /\ more[i].payload = base + acked + i
    PROVE  DataInOrder(line \o more, base, sent, got, w)
<1>1. ASSUME NEW i \in 1 .. Len(more), more[i].kind = "Data"
      PROVE  /\ Index(more[i], base) \in 0 .. (sent - 1)
             /\ more[i].frame_num = Num(Index(more[i], base))
             /\ sent <= Index(more[i], base) + w
  <2>1. i \in Nat /\ i >= 1 /\ i <= sent - acked
    BY <1>1
  <2>2. Index(more[i], base) = acked + i - 1
    BY <1>1, <2>1 DEF Index
  <2>3. acked + i - 1 \in 0 .. (sent - 1) /\ sent <= (acked + i - 1) + w
    BY <2>1
  <2>4. more[i].frame_num = Num(acked + i - 1)
    BY <1>1
  <2> QED BY <2>2, <2>3, <2>4
<1>2. sent <= sent
  OBVIOUS
<1> HIDE DEF Index
<1> QED BY <1>1, <1>2, DataAppended

\* more is queue as DATA frames that acknowledge ack_num.
Resends(more, queue, ack_num) ==
    /\ more \in Seq(LineFrame)
    /\ Len(more) = Len(queue)
    /\ \A i \in 1 .. Len(queue) :
          /\ more[i].kind = "Data"
          /\ more[i].ack_num = ack_num
          /\ more[i].frame_num = queue[i][1]
          /\ more[i].payload = queue[i][2]

\* That is what the NCP writes when it resends.
LEMMA ResentFrames ==
    ASSUME NEW queue \in Seq(SeqNum \X Payload), NEW ack_num \in SeqNum
    PROVE  Resends(NcpResends(queue, ack_num), queue, ack_num)
<1> DEFINE Resend(i) == Data(queue[i][1], ack_num, TRUE, queue[i][2])
<1>1. \A i \in 1 .. Len(queue) : queue[i] \in SeqNum \X Payload
  OBVIOUS
<1>2. \A i \in 1 .. Len(queue) : Resend(i) \in LineFrame
  BY <1>1 DEF Data, LineFrame, AshFrame, DataFrames
<1>3. \A i \in 1 .. Len(queue) :
         /\ Resend(i).kind = "Data" /\ Resend(i).ack_num = ack_num
         /\ Resend(i).frame_num = queue[i][1] /\ Resend(i).payload = queue[i][2]
  BY DEF Data
<1>4. NcpResends(queue, ack_num) = [i \in 1 .. Len(queue) |-> Resend(i)]
  BY DEF NcpResends
<1> HIDE DEF Resend
<1>5. Len(queue) \in Nat
  OBVIOUS
<1> QED BY <1>2, <1>3, <1>4, <1>5 DEF Resends

\* Whatever is acknowledged, the NCP's queue stays a queue.
LEMMA NcpRetiredTyped ==
    ASSUME ncp_out \in Seq(SeqNum \X Payload), NEW ack_num
    PROVE  NcpRetired(ack_num) \in Seq(SeqNum \X Payload)
<1> DEFINE kept == {i \in 1 .. Len(ncp_out) : ncp_out[i][1] = ack_num}
<1>1. NcpRetired(ack_num) = IF kept = {} THEN <<>>
                            ELSE SubSeq(ncp_out, CHOOSE i \in kept : TRUE, Len(ncp_out))
  BY DEF NcpRetired
<1>2. CASE kept # {}
  <2>1. (CHOOSE i \in kept : TRUE) \in 1 .. Len(ncp_out)
    BY <1>2
  <2> QED BY <1>1, <1>2, <2>1
<1>3. CASE kept = {}
  BY <1>1, <1>3
<1> QED BY <1>2, <1>3

\* The frames the NCP writes while linked acknowledge what it has by then.
LEMMA NcpAcksInOrder ==
    ASSUME LinkInv, linked, NEW more \in Seq(LineFrame), toHost' = toHost \o more,
           UNCHANGED <<hostSent, in_flight>>, ncpGot' \in Seq(Payload),
           Len(ncpGot) <= Len(ncpGot'),
           \A i \in 1 .. Len(more) : Acknowledges(more[i]) => more[i].ack_num = Num(Len(ncpGot'))
    PROVE  AcksInOrder(toHost, HostAcked, Len(ncpGot))'
<1>1. /\ toHost \in Seq(LineFrame) /\ Len(ncpGot) \in Nat /\ Len(ncpGot') \in Nat
      /\ HostAcked \in Nat /\ HostAcked <= Len(ncpGot)
      /\ AcksInOrder(toHost, HostAcked, Len(ncpGot))
  BY DEF LinkInv, LinkTypes, ConnInv, TypeOK, HostDirection, SessionInOrder, HostAcked
<1>2. AcksInOrder(toHost \o more, HostAcked, Len(ncpGot'))
  BY <1>1, AcksAppended
<1>3. HostAcked' = HostAcked
  BY DEF HostAcked
<1> QED BY <1>2, <1>3

\* What of HostDirection is not on the line to the host.
HostSession ==
    /\ SessionInOrder(HostBase, hostSent, ncpGot, Len(in_flight), next_tx_frame, ncp_rx, MAX_WINDOW)
    /\ HostQueueInOrder
    /\ DataInOrder(toNcp, HostBase, Len(hostSent), Len(ncpGot), MAX_WINDOW)

\* A frame the NCP does not take leaves the host's session as it was.
LEMMA NcpSkipsFrame ==
    ASSUME LinkInv, linked, toNcp # <<>>, toNcp' \in Faulty(toNcp),
           UNCHANGED <<next_tx_frame, in_flight, hostSent, hostCount, ncpGot, ncp_rx>>
    PROVE  HostSession'
<1>1. /\ toNcp \in Seq(LineFrame) /\ HostDirection
      /\ Len(hostSent) \in Nat /\ Len(ncpGot) \in Nat /\ MAX_WINDOW \in Nat /\ HostBase \in Int
  BY WindowAssumption DEF LinkInv, LinkTypes, HostBase
<1>2. HostBase' = HostBase /\ HostAcked' = HostAcked
  BY DEF HostBase, HostAcked
<1>3. DataInOrder(toNcp', HostBase, Len(hostSent), Len(ncpGot), MAX_WINDOW)
  BY <1>1, DataSurvivesFault DEF HostDirection
<1>4. HostQueueInOrder'
  BY <1>1, <1>2 DEF HostDirection, HostQueueInOrder
<1> QED BY <1>1, <1>2, <1>3, <1>4 DEF HostDirection, HostSession

\* A DATA frame with the number the NCP expects is the next payload send_data accepted.
LEMMA NcpTakesData ==
    ASSUME LinkInv, linked, toNcp # <<>>, toNcp' = Tail(toNcp), Head(toNcp).kind = "Data",
           Head(toNcp).frame_num = ncp_rx, ncp_rx' = next_sequence(ncp_rx),
           ncpGot' = Append(ncpGot, Head(toNcp).payload),
           UNCHANGED <<next_tx_frame, in_flight, hostSent, hostCount>>
    PROVE  /\ HostSession'
           /\ Len(ncpGot') = Len(ncpGot) + 1
           /\ Len(ncpGot) < Len(hostSent)
           /\ ncpGot' = Append(ncpGot, hostSent[Len(ncpGot) + 1])
<1> DEFINE n == Len(ncpGot)
           p == Head(toNcp).payload
<1>1. /\ toNcp \in Seq(LineFrame) /\ ncpGot \in Seq(Payload) /\ HostDirection /\ HostBase \in Int
      /\ Len(hostSent) \in Nat /\ n \in Nat /\ Len(in_flight) \in Nat
      /\ MAX_WINDOW \in Nat /\ MAX_WINDOW < SEQUENCE_MODULUS
  BY WindowAssumption DEF LinkInv, LinkTypes, ConnInv, TypeOK, HostBase
<1>2. Head(toNcp) = toNcp[1] /\ toNcp[1].payload \in Payload
  BY <1>1, TailOfLine, FrameByKind DEF DataFrames
<1>3. /\ Index(toNcp[1], HostBase) = n
      /\ n < Len(hostSent)
      /\ DataInOrder(Tail(toNcp), HostBase, Len(hostSent), n + 1, MAX_WINDOW)
  <2>1. /\ Len(in_flight) <= MAX_WINDOW /\ Len(hostSent) - Len(in_flight) <= n
        /\ n <= Len(hostSent) /\ ncp_rx = Num(n)
        /\ DataInOrder(toNcp, HostBase, Len(hostSent), n, MAX_WINDOW)
    BY <1>1 DEF HostDirection, SessionInOrder
  <2> HIDE DEF n
  <2>2. Len(hostSent) <= n + MAX_WINDOW
    BY <1>1, <2>1
  <2> QED BY <1>1, <1>2, <2>1, <2>2, DataTaken
<1>4. p = HostBase + (n + 1) /\ p = hostSent[n + 1]
  <2>1. p \in Int /\ p - HostBase - 1 = n
    BY <1>2, <1>3, LinkAssumption DEF Index
  <2>2. p = HostBase + (n + 1)
    <3>1. n \in Nat /\ HostBase \in Int
      BY <1>1
    <3> HIDE DEF n, p
    <3> QED BY <2>1, <3>1
  <2>3. n + 1 \in 1 .. Len(hostSent)
    BY <1>1, <1>3
  <2> QED BY <1>1, <2>2, <2>3 DEF HostDirection, SessionInOrder
<1>5. /\ Len(ncpGot') = n + 1
      /\ \A i \in 1 .. n : ncpGot'[i] = ncpGot[i]
      /\ ncpGot'[n + 1] = p
  BY <1>1, <1>2
<1>6. HostBase' = HostBase /\ HostAcked' = HostAcked
  BY DEF HostBase, HostAcked
<1>7. SessionInOrder(HostBase, hostSent, ncpGot, Len(in_flight), next_tx_frame, ncp_rx, MAX_WINDOW)'
  <2>1. ncp_rx' = Num(Len(ncpGot'))
    BY <1>1, <1>5, NumSuccessor DEF HostDirection, SessionInOrder
  <2>2. \A i \in 1 .. Len(ncpGot') : ncpGot'[i] = HostBase + i
    <3>1. \A i \in 1 .. Len(ncpGot') : i \in 1 .. n \/ i = n + 1
      BY <1>1, <1>5
    <3> QED BY <1>1, <1>4, <1>5, <3>1 DEF HostDirection, SessionInOrder
  <2>3. Len(hostSent) - Len(in_flight) <= Len(ncpGot') /\ Len(ncpGot') <= Len(hostSent)
    BY <1>1, <1>3, <1>5 DEF HostDirection, SessionInOrder
  <2> QED BY <1>1, <1>6, <2>1, <2>2, <2>3 DEF HostDirection, SessionInOrder
<1>8. DataInOrder(toNcp, HostBase, Len(hostSent), Len(ncpGot), MAX_WINDOW)'
  BY <1>3, <1>5, <1>6
<1>9. HostQueueInOrder'
  BY <1>1, <1>6 DEF HostDirection, HostQueueInOrder
<1> QED BY <1>3, <1>4, <1>5, <1>7, <1>8, <1>9 DEF HostSession

\* An acknowledgement the NCP takes is of frames the host has: what it retires was delivered, and
\* what it resends is the queue that is left.
LEMMA NcpTakesAck ==
    ASSUME LinkInv, linked, toNcp # <<>>, Acknowledges(Head(toNcp)), toNcp' = Tail(toNcp),
           ncp_out' = NcpRetired(Head(toNcp).ack_num),
           NEW more \in Seq(LineFrame), toHost' = toHost \o more,
           UNCHANGED <<ncp_tx, ncpSent, ncpCount, hostGot, next_rx_frame>>,
           \A i \in 1 .. Len(more) :
               more[i].kind = "Data" =>
                   /\ i \in 1 .. Len(ncp_out')
                   /\ more[i].frame_num = ncp_out'[i][1]
                   /\ more[i].payload = ncp_out'[i][2]
    PROVE  NcpDirection'
<1>1. /\ toNcp \in Seq(LineFrame) /\ toHost \in Seq(LineFrame) /\ ncpCount \in Nat
      /\ ncpSent \in Seq(Payload) /\ ncp_out \in Seq(SeqNum \X Payload)
      /\ Len(ncpSent) \in Nat /\ Len(hostGot) \in Nat /\ Len(ncp_out) \in Nat
      /\ NcpWindow \in Nat /\ NcpWindow > 0 /\ NcpWindow < SEQUENCE_MODULUS
      /\ SEQUENCE_MODULUS \in Nat
      /\ NcpDirection
  BY LinkAssumption, ModulusAssumption DEF LinkInv, LinkTypes
<1>2. /\ Len(ncp_out) <= NcpWindow /\ Len(ncp_out) <= Len(ncpSent)
      /\ NcpAcked <= Len(hostGot) /\ Len(hostGot) <= Len(ncpSent)
      /\ NcpAcked = Len(ncpSent) - Len(ncp_out)
  BY <1>1 DEF NcpDirection, NcpSession, SessionInOrder, NcpAcked
<1>3. NcpAcked \in Nat /\ Len(hostGot) < NcpAcked + SEQUENCE_MODULUS /\ NcpBase \in Int
  BY <1>1, <1>2, LinkAssumption DEF NcpBase
<1>4. PICK x \in NcpAcked .. Len(hostGot) :
         Head(toNcp).ack_num = Num(x) /\ AcksInOrder(Tail(toNcp), x, Len(hostGot))
  <2>1. Head(toNcp) = toNcp[1]
    BY <1>1, TailOfLine
  <2> QED BY <1>1, <1>3, <2>1, AckTaken DEF NcpDirection
<1>5. /\ Len(ncp_out') = Len(ncpSent) - x
      /\ \A i \in 1 .. Len(ncp_out') :
            /\ ncp_out'[i][1] = Num(x + i - 1)
            /\ ncp_out'[i][2] = NcpBase + x + i
  <2>1. x \in NcpAcked .. Len(ncpSent)
    BY <1>1, <1>2, <1>3
  <2>2. NcpQueueInOrder
    BY <1>1 DEF NcpDirection, NcpSession
  <2> DEFINE left == NcpRetired(Num(x))
  <2>3. ncp_out' = left
    BY <1>4
  <2>4. /\ Len(left) = Len(ncpSent) - x
        /\ \A i \in 1 .. Len(left) : left[i][1] = Num(x + i - 1) /\ left[i][2] = NcpBase + x + i
    BY <1>1, <1>2, <2>1, <2>2, NcpRetires
  <2> HIDE DEF left
  <2> QED BY <2>3, <2>4, Zenon
<1>6. NcpAcked' = x /\ NcpBase' = NcpBase /\ x \in Nat
  <2>1. x \in Nat
    BY <1>3
  <2>2. NcpAcked' = Len(ncpSent) - (Len(ncpSent) - x)
    BY <1>5 DEF NcpAcked
  <2>3. NcpBase' = NcpBase
    BY DEF NcpBase
  <2> QED BY <1>1, <2>1, <2>2, <2>3
<1>7. /\ Len(ncp_out') <= NcpWindow /\ Len(ncp_out') <= Len(ncpSent)
      /\ Len(ncpSent) - Len(ncp_out') <= Len(hostGot)
      /\ Len(ncpSent) <= x + NcpWindow
  BY <1>1, <1>2, <1>3, <1>5, <1>6, SMTT(30)
<1>8. SessionInOrder(NcpBase, ncpSent, hostGot, Len(ncp_out), ncp_tx, next_rx_frame, NcpWindow)'
  BY <1>1, <1>6, <1>7 DEF NcpDirection, NcpSession, SessionInOrder
<1>9. NcpQueueInOrder'
  BY <1>5, <1>6 DEF NcpQueueInOrder
<1>10. DataInOrder(toHost, NcpBase, Len(ncpSent), Len(hostGot), NcpWindow)'
  <2>1. ASSUME NEW i \in 1 .. Len(more), more[i].kind = "Data"
        PROVE  /\ i <= Len(ncpSent) - x
               /\ more[i].frame_num = Num(x + i - 1)
               /\ more[i].payload = NcpBase + x + i
    <3>1. i \in 1 .. Len(ncp_out') /\ more[i].frame_num = ncp_out'[i][1]
          /\ more[i].payload = ncp_out'[i][2]
      BY <2>1
    <3>2. ncp_out'[i][1] = Num(x + i - 1) /\ ncp_out'[i][2] = NcpBase + x + i
      BY <1>5, <3>1
    <3>3. i <= Len(ncpSent) - x
      BY <1>5, <3>1
    <3> QED BY <3>1, <3>2, <3>3, Zenon
  <2>2. DataInOrder(toHost, NcpBase, Len(ncpSent), Len(hostGot), NcpWindow)
    BY <1>1 DEF NcpDirection, NcpSession
  <2>3. DataInOrder(toHost \o more, NcpBase, Len(ncpSent), Len(hostGot), NcpWindow)
    BY <1>1, <1>2, <1>3, <1>6, <1>7, <2>1, <2>2, ResendsInOrder
  <2> QED BY <1>6, <2>3
<1>11. AcksInOrder(toNcp, NcpAcked, Len(hostGot))'
  BY <1>4, <1>6
<1> QED BY <1>8, <1>9, <1>10, <1>11 DEF NcpDirection, NcpSession

\* One frame more on a line.
LEMMA OneMoreFrame ==
    ASSUME NEW line \in Seq(LineFrame), NEW f \in LineFrame
    PROVE  /\ Append(line, f) = line \o <<f>>
           /\ <<f>> \in Seq(LineFrame)
           /\ \A i \in 1 .. Len(<<f>>) : <<f>>[i] = f
<1>1. Append(line, f) = line \o <<f>>
  BY AppendIsConcat, Zenon
<1>2. /\ <<f>> \in Seq(LineFrame)
      /\ \A i \in 1 .. Len(<<f>>) : <<f>>[i] = f
  OBVIOUS
<1> QED BY <1>1, <1>2, Zenon

\* A step that leaves the connection alone keeps its invariant.
LEMMA ConnUntouched == ConnInv /\ UNCHANGED connVars => ConnInv'
BY NextConnInv

\* The RST wipes the NCP; its RSTACK is then all there is on the line.
LEMMA NcpTakesRst ==
    ASSUME LinkInv, NcpReceive, Head(toNcp).kind = "Rst"
    PROVE  LinkInv' /\ ~linked /\ ~linked'
<1>1. /\ toNcp \in Seq(LineFrame) /\ toNcp # <<>> /\ toNcp' = Tail(toNcp)
      /\ Head(toNcp) = toNcp[1] /\ Len(toNcp) \in Nat \ {0} /\ Len(toNcp') = Len(toNcp) - 1
      /\ toNcp' \in Seq(LineFrame)
  BY TailOfLine DEF LinkInv, LinkTypes, NcpReceive
<1>2. Len(toNcp) = 1 /\ toHost = <<>> /\ phase = "Resetting" /\ ~linked
  BY <1>1 DEF LinkInv, RstTravelsAlone, OnLine
<1>3. toNcp' = <<>>
  BY <1>1, <1>2
<1>4. /\ ncp_tx' = 0 /\ ncp_rx' = 0 /\ ncp_out' = <<>> /\ ncpGot' = <<>> /\ ncpSent' = <<>>
      /\ toHost' = Append(toHost, RstAck)
      /\ UNCHANGED connVars /\ UNCHANGED <<phase, hostSent, hostGot, linked, hostCount, ncpCount>>
  BY DEF NcpReceive, NcpReceiveRst, NcpReceiveData, NcpReceiveAck, NcpReceiveNak,
         NcpReceiveGarbled, connVars, boundVars
<1>5. RstAck \in LineFrame
  BY DEF LineFrame, AshFrame
<1>6. toHost' = <<RstAck>>
  BY <1>2, <1>4
<1>7. toHost' \in Seq(LineFrame) /\ Len(toHost') = 1 /\ toHost'[1] = RstAck
  BY <1>5, <1>6
<1>8. LinkTypes'
  <2>1. <<>> \in Seq(Payload) /\ <<>> \in Seq(SeqNum \X Payload) /\ 0 \in SeqNum
    BY ModulusAssumption DEF SeqNum
  <2>2. \A i \in 1 .. Len(toHost') : toHost'[i].kind \notin {"Rst", "Error"}
    BY <1>7 DEF RstAck
  <2> QED BY <1>1, <1>4, <1>7, <2>1, <2>2 DEF LinkInv, LinkTypes
<1>9. RstAckLeads'
  <2>1. /\ toHost'[1].kind = "RstAck"
        /\ \A i \in 2 .. Len(toHost') : toHost'[i].kind # "RstAck"
    BY <1>7 DEF RstAck
  <2>2. \A i \in 1 .. Len(toHost') : toHost'[i].kind # "Data" /\ ~Acknowledges(toHost'[i])
    BY <1>7 DEF RstAck, Acknowledges
  <2>3. SessionInOrder(NcpBase', <<>>, <<>>, 0, 0, 0, NcpWindow)
    BY NumZero, LinkAssumption, ModulusAssumption DEF SessionInOrder
  <2>4. NcpQueueInOrder'
    BY <1>4 DEF NcpQueueInOrder
  <2>5. /\ DataInOrder(toHost', NcpBase', Len(<<>>), Len(<<>>), NcpWindow)
        /\ AcksInOrder(toHost', 0, 0)
    BY <2>2 DEF DataInOrder, AcksInOrder
  <2>6. NcpSession(<<>>, 0)'
    BY <1>4, <2>3, <2>4, <2>5 DEF NcpSession
  <2> QED BY <1>2, <1>3, <1>4, <2>1, <2>5, <2>6 DEF RstAckLeads
<1>10. RstTravelsAlone'
  BY <1>3 DEF RstTravelsAlone, OnLine
<1> QED BY <1>2, <1>4, <1>8, <1>9, <1>10, ConnUntouched DEF LinkInv

\* What the NCP does with a frame that is not a RST, in one shape: it appends frames that
\* acknowledge what it has by then, takes the frame's payload or does not, and resends nothing but
\* what is left in its queue.
LEMMA NcpAnswers ==
    ASSUME LinkInv, NcpReceive, Head(toNcp).kind # "Rst"
    PROVE  \E more \in Seq(LineFrame) :
              /\ toHost' = toHost \o more
              /\ \A i \in 1 .. Len(more) :
                    /\ Acknowledges(more[i]) /\ more[i].ack_num = ncp_rx'
                    /\ more[i].kind = "Data" =>
                          /\ i \in 1 .. Len(ncp_out')
                          /\ more[i].frame_num = ncp_out'[i][1]
                          /\ more[i].payload = ncp_out'[i][2]
<1>1. /\ toHost \in Seq(LineFrame) /\ ncp_rx \in SeqNum /\ ncp_out \in Seq(SeqNum \X Payload)
      /\ toNcp \in Seq(LineFrame) /\ toNcp # <<>>
  BY DEF LinkInv, LinkTypes, NcpReceive
<1>2. ASSUME NEW n \in SeqNum, NEW f \in {Ack(n), Nak(n)}
      PROVE  f \in LineFrame /\ Acknowledges(f) /\ f.ack_num = n /\ f.kind # "Data"
  BY DEF LineFrame, AshFrame, AckFrames, NakFrames, Ack, Nak, Acknowledges
<1>3. ASSUME NEW f \in {Ack(ncp_rx'), Nak(ncp_rx')}, ncp_rx' \in SeqNum,
             toHost' = Append(toHost, f)
      PROVE  \E more \in Seq(LineFrame) :
                /\ toHost' = toHost \o more
                /\ \A i \in 1 .. Len(more) :
                      Acknowledges(more[i]) /\ more[i].ack_num = ncp_rx' /\ more[i].kind # "Data"
  <2>1. f \in LineFrame /\ Acknowledges(f) /\ f.ack_num = ncp_rx' /\ f.kind # "Data"
    BY <1>2, <1>3
  <2> DEFINE more == <<f>>
  <2>2. /\ more \in Seq(LineFrame) /\ toHost' = toHost \o more
        /\ \A i \in 1 .. Len(more) : more[i] = f
    BY <1>1, <1>3, <2>1, OneMoreFrame
  <2> HIDE DEF more
  <2> QED BY <2>1, <2>2
<1>4. CASE NcpReceiveData
  <2>1. ncp_rx' \in SeqNum
    BY <1>1, <1>4, NextSequence DEF NcpReceiveData
  <2>2. toHost' = Append(toHost, Ack(ncp_rx')) \/ toHost' = Append(toHost, Nak(ncp_rx'))
    BY <1>4 DEF NcpReceiveData
  <2> QED BY <1>3, <2>1, <2>2
<1>5. CASE NcpReceiveAck
  <2>1. toHost' = toHost \o <<>> /\ <<>> \in Seq(LineFrame)
    BY <1>1, <1>5 DEF NcpReceiveAck
  <2> DEFINE more == <<>>
  <2>2. more \in Seq(LineFrame) /\ toHost' = toHost \o more /\ Len(more) = 0
    BY <2>1
  <2>3. \A i \in 1 .. Len(more) : FALSE
    BY <2>2
  <2> HIDE DEF more
  <2> QED BY <2>2, <2>3
<1>6. CASE NcpReceiveNak
  <2>1. ncp_out' \in Seq(SeqNum \X Payload) /\ ncp_rx' = ncp_rx
        /\ toHost' = toHost \o NcpResends(ncp_out', ncp_rx)
    BY <1>1, <1>6, NcpRetiredTyped DEF NcpReceiveNak
  <2> DEFINE more == NcpResends(ncp_out', ncp_rx)
  <2>2. Resends(more, ncp_out', ncp_rx)
    BY <1>1, <2>1, ResentFrames, Zenon
  <2> HIDE DEF more
  <2> QED BY <2>1, <2>2 DEF Resends, Acknowledges, more
<1>7. CASE NcpReceiveGarbled
  <2>1. ncp_rx' \in SeqNum /\ toHost' = Append(toHost, Nak(ncp_rx'))
    BY <1>1, <1>7 DEF NcpReceiveGarbled, ncpVars
  <2> QED BY <1>3, <2>1
<1> QED BY <1>4, <1>5, <1>6, <1>7 DEF NcpReceive, NcpReceiveRst

\* When the NCP learns nothing and resends at most its queue, its direction stays in order.
LEMMA NcpResendsQueue ==
    ASSUME LinkInv, linked,
           toNcp' = toNcp \/ (toNcp # <<>> /\ toNcp' \in Faulty(toNcp)),
           NEW more \in Seq(LineFrame), toHost' = toHost \o more,
           UNCHANGED <<ncp_tx, ncp_out, ncpSent, ncpCount, hostGot, next_rx_frame>>,
           \A i \in 1 .. Len(more) :
               more[i].kind = "Data" =>
                   /\ i \in 1 .. Len(ncp_out)
                   /\ more[i].frame_num = ncp_out[i][1]
                   /\ more[i].payload = ncp_out[i][2]
    PROVE  NcpDirection'
<1>1. /\ toNcp \in Seq(LineFrame) /\ toHost \in Seq(LineFrame) /\ ncpCount \in Nat
      /\ Len(ncpSent) \in Nat /\ Len(hostGot) \in Nat /\ Len(ncp_out) \in Nat
      /\ NcpWindow \in Nat /\ NcpWindow > 0
      /\ NcpDirection
  BY LinkAssumption, ModulusAssumption, SMTT(30) DEF LinkInv, LinkTypes
<1>2. /\ Len(ncp_out) <= NcpWindow /\ Len(ncp_out) <= Len(ncpSent)
      /\ Len(hostGot) <= Len(ncpSent) /\ NcpAcked = Len(ncpSent) - Len(ncp_out)
      /\ NcpQueueInOrder
      /\ DataInOrder(toHost, NcpBase, Len(ncpSent), Len(hostGot), NcpWindow)
  BY <1>1 DEF NcpDirection, NcpSession, SessionInOrder, NcpAcked
<1>3. /\ NcpAcked \in Nat /\ NcpBase \in Int /\ Len(ncpSent) <= NcpAcked + NcpWindow
      /\ Len(ncp_out) = Len(ncpSent) - NcpAcked
  BY <1>1, <1>2, LinkAssumption DEF NcpBase
<1>4. NcpAcked' = NcpAcked /\ NcpBase' = NcpBase
  BY DEF NcpAcked, NcpBase
<1>5. NcpQueueInOrder'
  BY <1>2, <1>4 DEF NcpQueueInOrder
<1>6. DataInOrder(toHost \o more, NcpBase, Len(ncpSent), Len(hostGot), NcpWindow)
  <2>1. ASSUME NEW i \in 1 .. Len(more), more[i].kind = "Data"
        PROVE  /\ i <= Len(ncpSent) - NcpAcked
               /\ more[i].frame_num = Num(NcpAcked + i - 1)
               /\ more[i].payload = NcpBase + NcpAcked + i
    <3>1. i \in 1 .. Len(ncp_out) /\ more[i].frame_num = ncp_out[i][1]
          /\ more[i].payload = ncp_out[i][2]
      BY <2>1
    <3>2. ncp_out[i][1] = Num(NcpAcked + i - 1) /\ ncp_out[i][2] = NcpBase + NcpAcked + i
      BY <1>2, <3>1 DEF NcpQueueInOrder
    <3>3. i <= Len(ncpSent) - NcpAcked
      BY <1>3, <3>1
    <3> QED BY <3>1, <3>2, <3>3, Zenon
  <2> QED BY <1>1, <1>2, <1>3, <2>1, ResendsInOrder
<1>7. AcksInOrder(toNcp', NcpAcked, Len(hostGot))
  <2>1. AcksInOrder(toNcp, NcpAcked, Len(hostGot))
    BY <1>1 DEF NcpDirection
  <2> QED BY <1>1, <1>3, <2>1, AcksSurviveFault
<1> QED BY <1>1, <1>4, <1>5, <1>6, <1>7 DEF NcpDirection, NcpSession

\* Any frame but a RST: what it acknowledges is retired, what it carries is taken if it is next,
\* and what the NCP answers keeps both directions in order.
LEMMA NcpTakesFrame ==
    ASSUME LinkInv, NcpReceive, Head(toNcp).kind # "Rst"
    PROVE  /\ LinkInv'
           /\ UNCHANGED <<linked, hostSent, hostGot, ncpSent>>
           /\ linked =>
                 \/ ncpGot' = ncpGot
                 \/ /\ Len(ncpGot) < Len(hostSent)
                    /\ ncpGot' = Append(ncpGot, hostSent[Len(ncpGot) + 1])
<1> DEFINE f == Head(toNcp)
<1>1. /\ toNcp \in Seq(LineFrame) /\ toNcp # <<>> /\ toNcp' = Tail(toNcp)
      /\ toHost \in Seq(LineFrame)
      /\ f = toNcp[1] /\ f \in LineFrame /\ Len(toNcp) \in Nat \ {0}
      /\ toNcp' \in Faulty(toNcp) /\ toNcp' \in Seq(LineFrame)
  BY TailOfLine DEF LinkInv, LinkTypes, NcpReceive, Faulty
<1>2. PICK more \in Seq(LineFrame) :
         /\ toHost' = toHost \o more
         /\ \A i \in 1 .. Len(more) :
               /\ Acknowledges(more[i]) /\ more[i].ack_num = ncp_rx'
               /\ more[i].kind = "Data" =>
                     /\ i \in 1 .. Len(ncp_out')
                     /\ more[i].frame_num = ncp_out'[i][1]
                     /\ more[i].payload = ncp_out'[i][2]
  BY NcpAnswers
<1>3. /\ UNCHANGED connVars
      /\ UNCHANGED <<phase, next_tx_frame, next_rx_frame, in_flight, hostSent, hostGot, linked,
                     hostCount, ncpCount>>
      /\ UNCHANGED <<ncp_tx, ncpSent>>
  BY DEF NcpReceive, NcpReceiveRst, NcpReceiveData, NcpReceiveAck, NcpReceiveNak,
         NcpReceiveGarbled, connVars, boundVars, ncpVars
<1>4. \/ /\ f.kind = "Data" /\ f.frame_num = ncp_rx
         /\ ncp_rx' = next_sequence(ncp_rx) /\ ncpGot' = Append(ncpGot, f.payload)
      \/ UNCHANGED <<ncp_rx, ncpGot>>
  BY DEF NcpReceive, NcpReceiveRst, NcpReceiveData, NcpReceiveAck, NcpReceiveNak,
         NcpReceiveGarbled, ncpVars
<1>5. \/ Acknowledges(f) /\ ncp_out' = NcpRetired(f.ack_num)
      \/ f.kind = "Garbled" /\ UNCHANGED ncp_out /\ toHost' = Append(toHost, Nak(ncp_rx))
  BY DEF NcpReceive, NcpReceiveRst, NcpReceiveData, NcpReceiveAck, NcpReceiveNak,
         NcpReceiveGarbled, ncpVars, Acknowledges
<1>6. NoHandshake'
  <2>1. NoHandshake
    <3>1. ~OnLine(toNcp, "Rst")
      <4>1. ASSUME OnLine(toNcp, "Rst") PROVE FALSE
        <5>1. Len(toNcp) = 1
          BY <4>1 DEF LinkInv, RstTravelsAlone
        <5> QED BY <1>1, <4>1, <5>1 DEF OnLine
      <4> QED BY <4>1
    <3> QED BY <1>1, <3>1 DEF LinkInv, RstAckLeads, NoHandshake
  <2>2. ~OnLine(toNcp', "Rst")
    BY <1>1, <2>1, OnFaultyLine DEF NoHandshake, OnLine
  <2>3. ~OnLine(more, "RstAck")
    BY <1>2 DEF OnLine, Acknowledges
  <2> QED BY <1>1, <1>2, <2>1, <2>2, <2>3, OnLongerLine DEF NoHandshake
<1>7. LinkTypes'
  <2>1. toHost' \in Seq(LineFrame)
    BY <1>1, <1>2, LongerLine
  <2>2. \A i \in 1 .. Len(toHost') : toHost'[i].kind \notin {"Rst", "Error"}
    <3>1. ~OnLine(toHost, "Rst") /\ ~OnLine(toHost, "Error")
      BY DEF LinkInv, LinkTypes, OnLine
    <3>2. ~OnLine(more, "Rst") /\ ~OnLine(more, "Error")
      BY <1>2 DEF OnLine, Acknowledges
    <3>3. ~OnLine(toHost', "Rst") /\ ~OnLine(toHost', "Error")
      BY <1>1, <1>2, <3>1, <3>2, OnLongerLine
    <3> QED BY <3>3 DEF OnLine
  <2>3. ncp_rx' \in SeqNum /\ ncpGot' \in Seq(Payload)
    <3>1. ncp_rx \in SeqNum /\ ncpGot \in Seq(Payload)
      BY DEF LinkInv, LinkTypes
    <3>2. f.kind = "Data" => f.payload \in Payload
      BY <1>1, FrameByKind DEF DataFrames
    <3> QED BY <1>4, <3>1, <3>2, NextSequence
  <2>4. ncp_out' \in Seq(SeqNum \X Payload)
    BY <1>5, NcpRetiredTyped DEF LinkInv, LinkTypes
  <2> QED BY <1>1, <1>3, <2>1, <2>2, <2>3, <2>4 DEF LinkInv, LinkTypes
<1>8. ASSUME linked
      PROVE  /\ HostDirection'
             /\ \/ ncpGot' = ncpGot
                \/ /\ Len(ncpGot) < Len(hostSent)
                   /\ ncpGot' = Append(ncpGot, hostSent[Len(ncpGot) + 1])
  <2>1. Len(ncpGot) \in Nat
    BY DEF LinkInv, LinkTypes
  <2>2. /\ HostSession' /\ Len(ncpGot) <= Len(ncpGot')
        /\ \/ ncpGot' = ncpGot
           \/ /\ Len(ncpGot) < Len(hostSent)
              /\ ncpGot' = Append(ncpGot, hostSent[Len(ncpGot) + 1])
    <3>1. CASE UNCHANGED <<ncp_rx, ncpGot>>
      BY <1>1, <1>3, <1>8, <2>1, <3>1, NcpSkipsFrame
    <3>2. CASE /\ f.kind = "Data" /\ f.frame_num = ncp_rx
               /\ ncp_rx' = next_sequence(ncp_rx) /\ ncpGot' = Append(ncpGot, f.payload)
      BY <1>1, <1>3, <1>8, <2>1, <3>2, NcpTakesData
    <3> QED BY <1>4, <3>1, <3>2
  <2>3. ncp_rx' = Num(Len(ncpGot'))
    BY <2>2 DEF HostSession, SessionInOrder
  <2>4. AcksInOrder(toHost, HostAcked, Len(ncpGot))'
    <3>1. ncpGot' \in Seq(Payload)
      BY <1>7 DEF LinkTypes
    <3> QED BY <1>2, <1>3, <1>8, <2>2, <2>3, <3>1, NcpAcksInOrder
  <2> QED BY <2>2, <2>4 DEF HostSession, HostDirection
<1>9. ASSUME linked PROVE NcpDirection'
  <2>1. CASE Acknowledges(f) /\ ncp_out' = NcpRetired(f.ack_num)
    BY <1>1, <1>2, <1>3, <1>9, <2>1, NcpTakesAck
  <2>2. CASE f.kind = "Garbled" /\ UNCHANGED ncp_out /\ toHost' = Append(toHost, Nak(ncp_rx))
    BY <1>1, <1>2, <1>3, <1>9, <2>2, NcpResendsQueue
  <2> QED BY <1>5, <2>1, <2>2
<1>10. ConnInv'
  BY <1>3, ConnUntouched DEF LinkInv
<1> QED BY <1>3, <1>6, <1>7, <1>8, <1>9, <1>10, NoHandshakeIsEnough DEF LinkInv

\* A frame the NCP sends gets the number of its place, and goes out behind all others; in a linked
\* session, and behind a RSTACK still on the line.
LEMMA NcpSendsInOrder ==
    ASSUME LinkInv, NcpSend, NEW got \in Seq(Payload), NEW rx, NcpSession(got, rx)
    PROVE  NcpSession(got, rx)' /\ NcpAcked' = NcpAcked
<1> DEFINE n == Len(ncpSent)
           p == HostData + ncpCount + 1
           f == Data(ncp_tx, ncp_rx, FALSE, p)
           new == <<ncp_tx, p>>
<1>1. /\ toHost \in Seq(LineFrame) /\ ncpSent \in Seq(Payload) /\ ncpCount \in Nat
      /\ ncp_out \in Seq(SeqNum \X Payload) /\ HostData \in Nat /\ NcpWindow \in Nat /\ NcpWindow > 0
      /\ n \in Nat /\ Len(ncp_out) \in Nat /\ Len(got) \in Nat /\ Len(ncp_out) < NcpWindow
      /\ ncp_tx \in SeqNum /\ ncp_rx \in SeqNum
  BY LinkAssumption, ModulusAssumption DEF LinkInv, LinkTypes, NcpSend
<1>2. p \in Payload /\ f \in LineFrame
  BY <1>1, LinkAssumption DEF LinkInv, LinkTypes, NcpSend, Data, LineFrame, AshFrame, DataFrames
<1>3. /\ ncpSent' = Append(ncpSent, p) /\ ncp_out' = Append(ncp_out, new)
      /\ ncpCount' = ncpCount + 1 /\ ncp_tx' = next_sequence(ncp_tx)
      /\ toHost' = toHost \o <<f>>
  BY <1>1, <1>2, OneMoreFrame DEF NcpSend
<1>4. /\ Len(ncp_out) <= n /\ n - Len(ncp_out) <= Len(got) /\ Len(got) <= n
      /\ ncp_tx = Num(n) /\ rx = Num(Len(got))
      /\ \A i \in 1 .. n : ncpSent[i] = NcpBase + i
      /\ \A i \in 1 .. Len(got) : got[i] = NcpBase + i
      /\ NcpQueueInOrder
      /\ DataInOrder(toHost, NcpBase, n, Len(got), NcpWindow)
  BY <1>1 DEF NcpSession, SessionInOrder
<1>5. p = NcpBase + (n + 1) /\ Index(f, NcpBase) = n /\ NcpBase \in Int
  BY <1>1 DEF NcpBase, Index, Data
<1>6. f.kind = "Data" /\ f.frame_num = Num(n)
  BY <1>4 DEF Data
<1>7. new \in SeqNum \X Payload /\ new[1] = Num(n) /\ new[2] = p
  BY <1>1, <1>2, <1>4
<1> HIDE DEF p, f, new
<1>8. /\ Len(ncpSent') = n + 1
      /\ \A i \in 1 .. n : ncpSent'[i] = ncpSent[i]
      /\ ncpSent'[n + 1] = p
  BY <1>1, <1>2, <1>3
<1>9. /\ Len(ncp_out') = Len(ncp_out) + 1
      /\ \A i \in 1 .. Len(ncp_out) : ncp_out'[i] = ncp_out[i]
      /\ ncp_out'[Len(ncp_out) + 1] = new
  BY <1>1, <1>3, <1>7
<1>10. NcpBase' = NcpBase /\ NcpAcked' = NcpAcked /\ NcpAcked \in Nat
  BY <1>1, <1>3, <1>4, <1>8, <1>9 DEF NcpBase, NcpAcked
<1>11. SessionInOrder(NcpBase', ncpSent', got, Len(ncp_out'), ncp_tx', rx, NcpWindow)
  <2>1. ncp_tx' = Num(Len(ncpSent'))
    BY <1>1, <1>3, <1>4, <1>8, NumSuccessor
  <2>2. \A i \in 1 .. Len(ncpSent') : ncpSent'[i] = NcpBase + i
    <3>1. \A i \in 1 .. Len(ncpSent') : i \in 1 .. n \/ i = n + 1
      BY <1>1, <1>8
    <3> QED BY <1>4, <1>5, <1>8, <3>1
  <2>3. /\ Len(ncp_out') <= NcpWindow /\ Len(ncp_out') <= Len(ncpSent')
        /\ Len(ncpSent') - Len(ncp_out') <= Len(got) /\ Len(got) <= Len(ncpSent')
    BY <1>1, <1>4, <1>8, <1>9
  <2> QED BY <1>4, <1>10, <2>1, <2>2, <2>3 DEF SessionInOrder
<1>12. NcpQueueInOrder'
  <2>1. ASSUME NEW i \in 1 .. Len(ncp_out)
        PROVE  ncp_out'[i][1] = Num(NcpAcked + i - 1) /\ ncp_out'[i][2] = NcpBase + NcpAcked + i
    BY <1>4, <1>9 DEF NcpQueueInOrder
  <2>2. NcpAcked + (Len(ncp_out) + 1) - 1 = n /\ NcpBase + NcpAcked + (Len(ncp_out) + 1) = p
    BY <1>1, <1>5 DEF NcpAcked
  <2>3. ASSUME NEW i \in 1 .. Len(ncp_out')
        PROVE  ncp_out'[i][1] = Num(NcpAcked + i - 1) /\ ncp_out'[i][2] = NcpBase + NcpAcked + i
    <3>1. CASE i \in 1 .. Len(ncp_out)
      BY <2>1, <3>1
    <3>2. CASE i = Len(ncp_out) + 1
      BY <1>7, <1>9, <2>2, <3>2, Zenon
    <3> QED BY <1>1, <1>9, <3>1, <3>2
  <2> QED BY <1>10, <2>3 DEF NcpQueueInOrder
<1>13. DataInOrder(toHost', NcpBase, n + 1, Len(got), NcpWindow)
  <2> DEFINE more == <<f>>
  <2>1. more \in Seq(LineFrame) /\ \A i \in 1 .. Len(more) : more[i] = f
    BY <1>1, <1>2, OneMoreFrame
  <2>2. n <= n + 1 /\ Len(got) <= n + 1 /\ n \in 0 .. ((n + 1) - 1) /\ n + 1 <= n + NcpWindow
        /\ n + 1 \in Nat
    BY <1>1, <1>4
  <2>3. toHost' = toHost \o more
    BY <1>3
  <2> HIDE DEF more, n, Index
  <2>4. \A i \in 1 .. Len(more) :
           more[i].kind = "Data" =>
               /\ Index(more[i], NcpBase) \in 0 .. ((n + 1) - 1)
               /\ more[i].frame_num = Num(Index(more[i], NcpBase))
               /\ n + 1 <= Index(more[i], NcpBase) + NcpWindow
    BY <1>5, <1>6, <2>1, <2>2
  <2> QED BY <1>1, <1>4, <1>5, <2>1, <2>2, <2>3, <2>4, DataAppended
<1> QED BY <1>8, <1>10, <1>11, <1>12, <1>13 DEF NcpSession

\* A response or a callback of the NCP.
LEMMA NcpSendStep ==
    ASSUME LinkInv, NcpSend, CleanReset
    PROVE  LinkInv'
<1> DEFINE p == HostData + ncpCount + 1
           f == Data(ncp_tx, ncp_rx, FALSE, p)
           more == <<f>>
<1>1. /\ toHost \in Seq(LineFrame) /\ ncpCount \in Nat /\ ncpCount < NcpData
      /\ ncp_tx \in SeqNum /\ ncp_rx \in SeqNum /\ ncpGot \in Seq(Payload)
  BY DEF LinkInv, LinkTypes, NcpSend
<1>2. p \in Payload /\ f \in LineFrame
  BY <1>1, LinkAssumption DEF Data, LineFrame, AshFrame, DataFrames
<1>3. f.kind = "Data" /\ f.ack_num = ncp_rx
  BY DEF Data
<1>4. /\ UNCHANGED connVars
      /\ UNCHANGED <<phase, next_tx_frame, next_rx_frame, in_flight, toNcp, ncp_rx, hostSent, ncpGot,
                     hostGot, linked, hostCount>>
      /\ ncp_out' = Append(ncp_out, <<ncp_tx, p>>) /\ ncpSent' = Append(ncpSent, p)
      /\ ncp_tx' = next_sequence(ncp_tx) /\ ncpCount' = ncpCount + 1
      /\ ~OnLine(toNcp, "Rst")
  BY DEF NcpSend, connVars
<1>5. /\ more \in Seq(LineFrame) /\ toHost' = toHost \o more
      /\ \A i \in 1 .. Len(more) : more[i] = f
  BY <1>1, <1>2, OneMoreFrame DEF NcpSend
<1>6. LinkTypes'
  <2>1. <<ncp_tx, p>> \in SeqNum \X Payload
    BY <1>1, <1>2
  <2> HIDE DEF p, f, more
  <2>2. /\ ncp_tx' \in SeqNum /\ ncp_out' \in Seq(SeqNum \X Payload) /\ ncpSent' \in Seq(Payload)
        /\ ncpCount' \in 0 .. NcpData
    BY <1>1, <1>2, <1>4, <2>1, NextSequence, LinkAssumption, SMTT(30) DEF LinkInv, LinkTypes
  <2>3. toHost' \in Seq(LineFrame)
    BY <1>1, <1>5, LongerLine
  <2>4. \A i \in 1 .. Len(toHost') : toHost'[i].kind \notin {"Rst", "Error"}
    <3>1. ~OnLine(toHost, "Rst") /\ ~OnLine(toHost, "Error")
      BY DEF LinkInv, LinkTypes, OnLine
    <3>2. ~OnLine(more, "Rst") /\ ~OnLine(more, "Error")
      BY <1>3, <1>5 DEF OnLine
    <3>3. ~OnLine(toHost', "Rst") /\ ~OnLine(toHost', "Error")
      BY <1>1, <1>5, <3>1, <3>2, OnLongerLine
    <3> QED BY <3>3 DEF OnLine
  <2> QED BY <1>4, <2>2, <2>3, <2>4 DEF LinkInv, LinkTypes
<1>7. RstTravelsAlone'
  BY <1>4 DEF RstTravelsAlone, OnLine
<1> HIDE DEF f, more
<1>8. RstAckLeads'
  <2> SUFFICES ASSUME OnLine(toHost', "RstAck") PROVE RstAckLeads'
    BY DEF RstAckLeads
  <2>1. ~OnLine(more, "RstAck")
    BY <1>3, <1>5 DEF OnLine
  <2>2. OnLine(toHost, "RstAck")
    BY <1>1, <1>5, <2>1, OnLongerLine
  <2>3. /\ toHost[1].kind = "RstAck"
        /\ \A i \in 2 .. Len(toHost) : toHost[i].kind # "RstAck"
        /\ toNcp = <<>> /\ phase = "Resetting" /\ ~linked
        /\ ncpGot = <<>> /\ ncp_rx = 0
        /\ NcpSession(<<>>, 0)
        /\ AcksInOrder(toHost, 0, 0)
    BY <2>2 DEF LinkInv, RstAckLeads
  <2>4. NcpSession(<<>>, 0)'
    <3>1. <<>> \in Seq(Payload)
      OBVIOUS
    <3> QED BY <2>3, <3>1, NcpSendsInOrder
  <2>5. AcksInOrder(toHost', 0, 0)
    <3>1. \A i \in 1 .. Len(more) : Acknowledges(more[i]) => more[i].ack_num = Num(0)
      BY <1>3, <1>5, <2>3, NumZero
    <3> QED BY <1>1, <1>5, <2>3, <3>1, AcksAppended
  <2>6. /\ toHost'[1].kind = "RstAck"
        /\ \A i \in 2 .. Len(toHost') : toHost'[i].kind # "RstAck"
    <3>1. /\ Len(toHost) \in Nat /\ Len(more) \in Nat /\ 1 \in 1 .. Len(toHost)
          /\ Len(toHost') = Len(toHost) + Len(more)
          /\ \A i \in 1 .. Len(toHost) : toHost'[i] = toHost[i]
          /\ \A i \in 1 .. Len(more) : toHost'[Len(toHost) + i] = more[i]
      BY <1>1, <1>5, <2>2, LongerLine DEF OnLine
    <3>2. ASSUME NEW i \in 2 .. Len(toHost') PROVE toHost'[i].kind # "RstAck"
      <4>1. CASE i \in 2 .. Len(toHost)
        BY <2>3, <3>1, <4>1
      <4>2. CASE i > Len(toHost)
        <5>1. PICK l \in Nat, m \in Nat : /\ l = Len(toHost) /\ m = Len(more)
                                          /\ Len(toHost') = l + m
          BY <3>1
        <5>2. i - l \in 1 .. m /\ i = l + (i - l)
          BY <4>2, <5>1
        <5>3. PICK j \in 1 .. m : i = l + j
          BY <5>2
        <5>4. toHost'[i] = more[j]
          BY <3>1, <5>1, <5>3
        <5> QED BY <1>3, <1>5, <5>1, <5>4
      <4> QED BY <3>1, <4>1, <4>2
    <3> QED BY <2>3, <3>1, <3>2
  <2> QED BY <1>4, <2>3, <2>4, <2>5, <2>6 DEF RstAckLeads
<1>9. ASSUME linked PROVE HostDirection' /\ NcpDirection'
  <2>1. AcksInOrder(toHost, HostAcked, Len(ncpGot))'
    <3>1. \A i \in 1 .. Len(more) : Acknowledges(more[i]) => more[i].ack_num = Num(Len(ncpGot'))
      BY <1>3, <1>4, <1>5, <1>9 DEF LinkInv, HostDirection, SessionInOrder
    <3>2. ncpGot' \in Seq(Payload) /\ Len(ncpGot) <= Len(ncpGot')
      BY <1>1, <1>4
    <3> QED BY <1>4, <1>5, <1>9, <3>1, <3>2, NcpAcksInOrder
  <2>2. HostDirection'
    BY <1>4, <1>9, <2>1 DEF LinkInv, HostDirection, HostQueueInOrder, HostBase, HostAcked
  <2>3. NcpSession(hostGot, next_rx_frame)' /\ NcpAcked' = NcpAcked
    <3>1. hostGot \in Seq(Payload) /\ NcpSession(hostGot, next_rx_frame)
      BY <1>9 DEF LinkInv, LinkTypes, NcpDirection
    <3>2. PICK got \in Seq(Payload), rx \in SeqNum :
             got = hostGot /\ rx = next_rx_frame
      BY <3>1 DEF LinkInv, ConnInv, TypeOK
    <3>3. NcpSession(got, rx)' /\ NcpAcked' = NcpAcked
      BY <3>1, <3>2, NcpSendsInOrder
    <3> QED BY <1>4, <3>2, <3>3 DEF NcpSession
  <2>4. AcksInOrder(toNcp, NcpAcked, Len(hostGot))'
    BY <1>4, <1>9, <2>3 DEF LinkInv, NcpDirection
  <2> QED BY <2>2, <2>3, <2>4 DEF NcpDirection
<1>10. ConnInv'
  BY <1>4, ConnUntouched DEF LinkInv
<1> QED BY <1>4, <1>6, <1>7, <1>8, <1>9, <1>10 DEF LinkInv

\* The NCP's timer resends its whole queue on a silent line.
LEMMA NcpTimeoutStep ==
    ASSUME LinkInv, NcpTimeout
    PROVE  LinkInv'
<1> DEFINE more == NcpResends(ncp_out, ncp_rx)
<1>1. /\ toNcp = <<>> /\ toHost = <<>> /\ toHost' = more
      /\ UNCHANGED connVars
      /\ UNCHANGED <<phase, next_tx_frame, next_rx_frame, in_flight, toNcp, ncp_tx, ncp_rx, ncp_out,
                     hostSent, ncpGot, ncpSent, hostGot, linked, hostCount, ncpCount>>
  BY DEF NcpTimeout, connVars, ncpVars, historyVars, boundVars
<1>2. /\ toHost \in Seq(LineFrame) /\ ncp_out \in Seq(SeqNum \X Payload) /\ ncp_rx \in SeqNum
      /\ ncpGot \in Seq(Payload) /\ Len(ncpGot) \in Nat
  BY DEF LinkInv, LinkTypes
<1>3. Resends(more, ncp_out, ncp_rx)
  BY <1>2, ResentFrames
<1> HIDE DEF more
<1>4. /\ more \in Seq(LineFrame) /\ toHost' = toHost \o more
      /\ \A i \in 1 .. Len(more) :
            /\ i \in 1 .. Len(ncp_out)
            /\ more[i].kind = "Data" /\ more[i].ack_num = ncp_rx
            /\ more[i].frame_num = ncp_out[i][1] /\ more[i].payload = ncp_out[i][2]
  BY <1>1, <1>3 DEF Resends
<1>5. LinkTypes'
  <2>1. \A i \in 1 .. Len(toHost') : toHost'[i].kind \notin {"Rst", "Error"}
    BY <1>1, <1>4
  <2> QED BY <1>1, <1>4, <2>1 DEF LinkInv, LinkTypes
<1>6. NoHandshake'
  BY <1>1, <1>4 DEF NoHandshake, OnLine
<1>7. ASSUME linked PROVE HostDirection' /\ NcpDirection'
  <2>1. AcksInOrder(toHost, HostAcked, Len(ncpGot))'
    <3>1. ncp_rx = Num(Len(ncpGot))
      BY <1>7 DEF LinkInv, HostDirection, SessionInOrder
    <3>2. /\ \A i \in 1 .. Len(more) : Acknowledges(more[i]) => more[i].ack_num = Num(Len(ncpGot'))
          /\ ncpGot' \in Seq(Payload) /\ Len(ncpGot) <= Len(ncpGot')
      BY <1>1, <1>2, <1>4, <3>1
    <3> QED BY <1>1, <1>4, <1>7, <3>2, NcpAcksInOrder
  <2>2. HostDirection'
    BY <1>1, <1>7, <2>1 DEF LinkInv, HostDirection, HostQueueInOrder, HostBase, HostAcked
  <2>3. NcpDirection'
    BY <1>1, <1>4, <1>7, NcpResendsQueue
  <2> QED BY <2>2, <2>3
<1>8. ConnInv'
  BY <1>1, ConnUntouched DEF LinkInv
<1> QED BY <1>1, <1>5, <1>6, <1>7, <1>8, NoHandshakeIsEnough DEF LinkInv

-----------------------------------------------------------------------------
(* The line's steps *)

\* A frame lost or garbled on its way to the NCP; a RST so hit leaves both lines without handshake.
LEMMA FaultToNcp ==
    ASSUME LinkInv, LineFault, toNcp # <<>>, toNcp' \in Faulty(toNcp), UNCHANGED toHost
    PROVE  LinkInv'
<1>1. /\ UNCHANGED connVars
      /\ UNCHANGED <<phase, next_tx_frame, next_rx_frame, in_flight, ncp_tx, ncp_rx, ncp_out,
                     hostSent, ncpGot, ncpSent, hostGot, linked, hostCount, ncpCount>>
  BY DEF LineFault, connVars, ncpVars, historyVars
<1>2. toNcp \in Seq(LineFrame) /\ toNcp' \in Seq(LineFrame) /\ toHost \in Seq(LineFrame)
  BY OnFaultyLine DEF LinkInv, LinkTypes
<1>3. LinkTypes'
  BY <1>1, <1>2 DEF LinkInv, LinkTypes
<1>4. NoHandshake'
  <2>1. ~OnLine(toHost', "RstAck")
    BY DEF LinkInv, RstAckLeads
  <2>2. ASSUME OnLine(toNcp', "Rst") PROVE FALSE
    <3>1. PICK i \in 2 .. Len(toNcp) : toNcp[i].kind = "Rst"
      BY <1>2, <2>2, OnFaultyLine
    <3>2. Len(toNcp) \in Nat
      BY <1>2
    <3>3. Len(toNcp) = 1
      BY <3>1, <3>2 DEF LinkInv, RstTravelsAlone, OnLine
    <3> QED BY <3>1, <3>3
  <2> QED BY <2>1, <2>2 DEF NoHandshake
<1>5. ASSUME linked PROVE HostDirection' /\ NcpDirection'
  <2>1. HostSession'
    BY <1>1, <1>5, NcpSkipsFrame
  <2>2. HostDirection'
    BY <1>1, <1>5, <2>1 DEF LinkInv, HostDirection, HostSession, HostAcked
  <2> DEFINE more == <<>>
  <2>3. more \in Seq(LineFrame) /\ toHost' = toHost \o more /\ \A i \in 1 .. Len(more) : FALSE
    BY <1>2
  <2> HIDE DEF more
  <2>4. NcpDirection'
    BY <1>1, <1>5, <2>3, NcpResendsQueue
  <2> QED BY <2>2, <2>4
<1>6. ConnInv'
  BY <1>1, ConnUntouched DEF LinkInv
<1> QED BY <1>1, <1>3, <1>4, <1>5, <1>6, NoHandshakeIsEnough DEF LinkInv

\* A frame lost or garbled on its way to the host.
LEMMA FaultToHost ==
    ASSUME LinkInv, LineFault, toHost # <<>>, toHost' \in Faulty(toHost), UNCHANGED toNcp
    PROVE  LinkInv'
<1>1. /\ UNCHANGED connVars
      /\ UNCHANGED <<phase, next_tx_frame, next_rx_frame, in_flight, ncp_tx, ncp_rx, ncp_out,
                     hostSent, ncpGot, ncpSent, hostGot, linked, hostCount, ncpCount>>
  BY DEF LineFault, connVars, ncpVars, historyVars
<1>2. toHost \in Seq(LineFrame) /\ toHost' \in Seq(LineFrame)
  BY OnFaultyLine DEF LinkInv, LinkTypes
<1>3. LinkTypes'
  <2>1. ~OnLine(toHost', "Rst") /\ ~OnLine(toHost', "Error")
    <3>1. \A i \in 2 .. Len(toHost) : toHost[i].kind \notin {"Rst", "Error"}
      BY <1>2 DEF LinkInv, LinkTypes
    <3> QED BY <1>2, <3>1, OnFaultyLine
  <2>2. \A i \in 1 .. Len(toHost') : toHost'[i].kind \notin {"Rst", "Error"}
    BY <2>1 DEF OnLine
  <2> QED BY <1>1, <1>2, <2>2 DEF LinkInv, LinkTypes
<1>4. NoHandshake'
  <2>1. ~OnLine(toNcp', "Rst")
    BY DEF LinkInv, RstTravelsAlone
  <2>2. ASSUME OnLine(toHost', "RstAck") PROVE FALSE
    <3>1. PICK i \in 2 .. Len(toHost) : toHost[i].kind = "RstAck"
      BY <1>2, <2>2, OnFaultyLine
    <3>2. OnLine(toHost, "RstAck")
      BY <1>2, <3>1 DEF OnLine
    <3> QED BY <3>1, <3>2 DEF LinkInv, RstAckLeads
  <2> QED BY <2>1, <2>2 DEF NoHandshake
<1>5. ASSUME linked PROVE HostDirection' /\ NcpDirection'
  <2>1. NcpSession(hostGot, next_rx_frame)' /\ NcpAcked' = NcpAcked
    BY <1>1, <1>5, HostSkipsFrame DEF NcpAcked
  <2>2. NcpDirection'
    BY <1>1, <1>5, <2>1 DEF LinkInv, NcpDirection
  <2>3. AcksInOrder(toHost', HostAcked, Len(ncpGot))
    <3>1. HostAcked \in Nat /\ Len(ncpGot) \in Nat /\ AcksInOrder(toHost, HostAcked, Len(ncpGot))
      BY <1>5 DEF LinkInv, LinkTypes, ConnInv, TypeOK, HostDirection, SessionInOrder, HostAcked
    <3> QED BY <1>2, <3>1, AcksSurviveFault
  <2>4. HostDirection'
    BY <1>1, <1>5, <2>3 DEF LinkInv, HostDirection, HostQueueInOrder, HostBase, HostAcked
  <2> QED BY <2>2, <2>4
<1>6. ConnInv'
  BY <1>1, ConnUntouched DEF LinkInv
<1> QED BY <1>1, <1>3, <1>4, <1>5, <1>6, NoHandshakeIsEnough DEF LinkInv

-----------------------------------------------------------------------------
(* The invariant, and what follows from it *)

\* The invariant holds before anything is connected.
LEMMA LinkInitInv == LinkInit => LinkInv
<1> SUFFICES ASSUME LinkInit PROVE LinkInv
  OBVIOUS
<1>1. ConnInv
  BY InitConnInv DEF LinkInit
<1>2. LinkTypes
  <2>1. <<>> \in Seq(LineFrame) /\ <<>> \in Seq(Payload) /\ <<>> \in Seq(SeqNum \X Payload)
        /\ 0 \in SeqNum /\ 0 \in 0 .. HostData /\ 0 \in 0 .. NcpData
    BY ModulusAssumption, LinkAssumption DEF SeqNum
  <2>2. \A i \in 1 .. Len(toHost) : FALSE
    BY DEF LinkInit
  <2> QED BY <2>1, <2>2 DEF LinkInit, LinkTypes
<1>3. RstTravelsAlone /\ RstAckLeads
  BY DEF LinkInit, RstTravelsAlone, RstAckLeads, OnLine
<1> QED BY <1>1, <1>2, <1>3 DEF LinkInit, LinkInv

\* Every step of the host, the NCP and the line preserves it.
LEMMA LinkNextInv ==
    ASSUME CleanReset
    PROVE  LinkInv /\ [LinkNext]_linkVars => LinkInv'
<1> SUFFICES ASSUME LinkInv, [LinkNext]_linkVars PROVE LinkInv'
  OBVIOUS
<1>1. CASE HostReset
  BY <1>1, HostResetStep
<1>2. CASE HostSend
  BY <1>2, HostSendStep
<1>3. CASE HostReceive
  BY <1>3, HostTakesRstAck, HostTakesFrame
<1>4. CASE NcpReceive
  BY <1>4, NcpTakesRst, NcpTakesFrame
<1>5. CASE NcpSend
  BY <1>5, NcpSendStep
<1>6. CASE NcpTimeout
  BY <1>6, NcpTimeoutStep
<1>7. CASE LineFault
  BY <1>7, FaultToNcp, FaultToHost DEF LineFault
<1>8. CASE UNCHANGED linkVars
  BY <1>8, ConnUntouched, HostIdle
  DEF linkVars, connVars, lineVars, ncpVars, historyVars, boundVars, LinkInv
<1> QED BY <1>1, <1>2, <1>3, <1>4, <1>5, <1>6, <1>7, <1>8 DEF LinkNext

\* The inductive invariant holds in every reachable state.
THEOREM LinkInvHolds == CleanReset => (LinkSpec => []LinkInv)
<1> SUFFICES ASSUME CleanReset PROVE LinkSpec => []LinkInv
  OBVIOUS
<1>1. LinkInit => LinkInv
  BY LinkInitInv
<1>2. LinkInv /\ [LinkNext]_linkVars => LinkInv'
  BY LinkNextInv
<1> QED BY <1>1, <1>2, PTL DEF LinkSpec

\* Host, NCP, both lines and the histories keep their types.
THEOREM LinkAlwaysTyped == CleanReset => (LinkSpec => []LinkTypeOK)
<1> SUFFICES ASSUME CleanReset PROVE LinkSpec => []LinkTypeOK
  OBVIOUS
<1>1. LinkInv => LinkTypeOK
  <2> SUFFICES ASSUME LinkInv PROVE LinkTypeOK
    OBVIOUS
  <2>1. TypeOK
    BY DEF LinkInv, ConnInv
  <2>2. \A f \in {toNcp[i] : i \in 1 .. Len(toNcp)} \cup {toHost[i] : i \in 1 .. Len(toHost)} :
           f \in AshFrame \cup {Garbled}
    BY DEF LinkInv, LinkTypes, LineFrame
  <2> QED BY <2>1, <2>2 DEF LinkInv, LinkTypes, LinkTypeOK
<1> QED BY <1>1, LinkInvHolds, PTL

\* No frame leaves the host's queue before the NCP has taken it.
THEOREM AcknowledgedAlwaysDelivered == CleanReset => (LinkSpec => []AcknowledgedWasDelivered)
<1> SUFFICES ASSUME CleanReset PROVE LinkSpec => []AcknowledgedWasDelivered
  OBVIOUS
<1>1. LinkInv => AcknowledgedWasDelivered
  BY DEF LinkInv, HostDirection, SessionInOrder, AcknowledgedWasDelivered
<1> QED BY <1>1, LinkInvHolds, PTL

\* No frame leaves the NCP's queue before the host has delivered it.
THEOREM AcknowledgedAlwaysReceived == CleanReset => (LinkSpec => []AcknowledgedWasReceived)
<1> SUFFICES ASSUME CleanReset PROVE LinkSpec => []AcknowledgedWasReceived
  OBVIOUS
<1>1. LinkInv => AcknowledgedWasReceived
  BY DEF LinkInv, NcpDirection, NcpSession, SessionInOrder, AcknowledgedWasReceived
<1> QED BY <1>1, LinkInvHolds, PTL

\* A step of the link is a step of the host's channel to the NCP, or leaves it alone.
LEMMA HostToNcpStep ==
    ASSUME LinkInv, [LinkNext]_linkVars, CleanReset
    PROVE  [HostToNcp!Next]_<<IF linked THEN hostSent ELSE <<>>, IF linked THEN ncpGot ELSE <<>>>>
<1> DEFINE sent == IF linked THEN hostSent ELSE <<>>
           got == IF linked THEN ncpGot ELSE <<>>
<1>1. ASSUME sent' \in Seq(Payload), got' = <<>> PROVE HostToNcp!NewSession
  BY <1>1 DEF HostToNcp!NewSession
<1>2. CASE HostReset
  <2>1. sent' = <<>> /\ got' = <<>>
    BY <1>2 DEF HostReset
  <2>2. sent' \in Seq(Payload)
    BY <2>1, EmptySeq, Zenon
  <2> QED BY <1>1, <2>1, <2>2 DEF HostToNcp!Next
<1>3. CASE HostSend
  <2>1. UNCHANGED <<ncpGot, linked>>
    BY <1>3 DEF HostSend
  <2>2. CASE UNCHANGED hostSent
    BY <2>1, <2>2
  <2>3. CASE hostSent' = Append(hostSent, hostCount + 1)
    <3>1. hostCount + 1 \in Payload
      BY <1>3, LinkAssumption, SMTT(30) DEF HostSend, LinkInv, LinkTypes
    <3>2. CASE linked
      <4>1. sent' = Append(sent, hostCount + 1) /\ got' = got
        BY <2>1, <2>3, <3>2
      <4>2. HostToNcp!Send
        BY <3>1, <4>1 DEF HostToNcp!Send
      <4> QED BY <4>2 DEF HostToNcp!Next
    <3>3. CASE ~linked
      BY <2>1, <3>3
    <3> QED BY <3>2, <3>3
  <2> QED BY <1>3, <2>2, <2>3 DEF HostSend
<1>4. CASE HostReceive
  <2>1. UNCHANGED ncpGot
    BY <1>4 DEF HostReceive
  <2>2. CASE Head(toHost).kind = "RstAck"
    <3>1. hostSent' = <<>> /\ ncpGot = <<>>
      BY <1>4, <2>2, HostTakesRstAck DEF HostReceive
    <3>2. sent' = <<>> /\ got' = <<>>
      BY <2>1, <3>1
    <3>3. sent' \in Seq(Payload)
      BY <3>2, EmptySeq, Zenon
    <3> QED BY <1>1, <3>2, <3>3 DEF HostToNcp!Next
  <2>3. CASE Head(toHost).kind # "RstAck"
    BY <1>4, <2>1, <2>3, HostTakesFrame
  <2> QED BY <2>2, <2>3
<1>5. CASE NcpReceive
  <2>1. CASE Head(toNcp).kind = "Rst"
    BY <1>5, <2>1, NcpTakesRst
  <2>2. CASE Head(toNcp).kind # "Rst"
    <3>1. /\ UNCHANGED <<linked, hostSent>>
          /\ linked =>
                \/ ncpGot' = ncpGot
                \/ /\ Len(ncpGot) < Len(hostSent)
                   /\ ncpGot' = Append(ncpGot, hostSent[Len(ncpGot) + 1])
      BY <1>5, <2>2, NcpTakesFrame
    <3>2. CASE linked /\ ncpGot' # ncpGot
      <4>1. HostToNcp!Deliver
        BY <3>1, <3>2 DEF HostToNcp!Deliver
      <4> QED BY <4>1 DEF HostToNcp!Next
    <3>3. CASE ~linked \/ ncpGot' = ncpGot
      BY <3>1, <3>3
    <3> QED BY <3>2, <3>3
  <2> QED BY <2>1, <2>2
<1>6. CASE NcpSend \/ NcpTimeout \/ LineFault \/ UNCHANGED linkVars
  <2>1. UNCHANGED <<linked, hostSent, ncpGot>>
    BY <1>6 DEF NcpSend, NcpTimeout, LineFault, linkVars, historyVars
  <2> QED BY <2>1
<1> QED BY <1>2, <1>3, <1>4, <1>5, <1>6 DEF LinkNext

\* Within a session, what send_data accepts reaches the NCP in order, once and without gaps.
THEOREM HostToNcpAlwaysReliable == CleanReset => (LinkSpec => HostToNcpIsReliable)
<1> SUFFICES ASSUME CleanReset PROVE LinkSpec => HostToNcp!Spec
  BY DEF HostToNcpIsReliable
<1>1. LinkInit => HostToNcp!Init
  BY DEF LinkInit, HostToNcp!Init
<1>2. LinkInv /\ [LinkNext]_linkVars =>
        [HostToNcp!Next]_<<IF linked THEN hostSent ELSE <<>>, IF linked THEN ncpGot ELSE <<>>>>
  BY HostToNcpStep
<1> QED BY <1>1, <1>2, LinkInvHolds, PTL DEF LinkSpec, HostToNcp!Spec

\* A step of the link is a step of the NCP's channel to the host, or leaves it alone.
LEMMA NcpToHostStep ==
    ASSUME LinkInv, [LinkNext]_linkVars, CleanReset
    PROVE  [NcpToHost!Next]_<<IF linked THEN ncpSent ELSE <<>>, IF linked THEN hostGot ELSE <<>>>>
<1> DEFINE sent == IF linked THEN ncpSent ELSE <<>>
           got == IF linked THEN hostGot ELSE <<>>
<1>1. ASSUME sent' \in Seq(Payload), got' = <<>> PROVE NcpToHost!NewSession
  BY <1>1 DEF NcpToHost!NewSession
<1>2. CASE HostReset
  <2>1. sent' = <<>> /\ got' = <<>>
    BY <1>2 DEF HostReset
  <2>2. sent' \in Seq(Payload)
    BY <2>1, EmptySeq, Zenon
  <2> QED BY <1>1, <2>1, <2>2 DEF NcpToHost!Next
<1>3. CASE HostReceive
  <2>1. UNCHANGED ncpSent
    BY <1>3 DEF HostReceive
  <2>2. CASE Head(toHost).kind = "RstAck"
    <3>1. got' = <<>> /\ linked' = TRUE
      BY <1>3, <2>2 DEF HostReceive
    <3>2. sent' \in Seq(Payload)
      BY <2>1, <3>1 DEF LinkInv, LinkTypes
    <3> QED BY <1>1, <3>1, <3>2 DEF NcpToHost!Next
  <2>3. CASE Head(toHost).kind # "RstAck"
    <3>1. /\ UNCHANGED linked
          /\ linked =>
                \/ hostGot' = hostGot
                \/ /\ Len(hostGot) < Len(ncpSent)
                   /\ hostGot' = Append(hostGot, ncpSent[Len(hostGot) + 1])
      BY <1>3, <2>3, HostTakesFrame
    <3>2. CASE linked /\ hostGot' # hostGot
      <4>1. NcpToHost!Deliver
        BY <2>1, <3>1, <3>2 DEF NcpToHost!Deliver
      <4> QED BY <4>1 DEF NcpToHost!Next
    <3>3. CASE ~linked \/ hostGot' = hostGot
      BY <2>1, <3>1, <3>3
    <3> QED BY <3>2, <3>3
  <2> QED BY <2>2, <2>3
<1>4. CASE NcpReceive
  <2>1. CASE Head(toNcp).kind = "Rst"
    BY <1>4, <2>1, NcpTakesRst
  <2>2. CASE Head(toNcp).kind # "Rst"
    BY <1>4, <2>2, NcpTakesFrame
  <2> QED BY <2>1, <2>2
<1>5. CASE NcpSend
  <2> DEFINE p == HostData + ncpCount + 1
  <2>1. p \in Payload /\ UNCHANGED <<linked, hostGot>> /\ ncpSent' = Append(ncpSent, p)
    BY <1>5, LinkAssumption DEF NcpSend, LinkInv, LinkTypes
  <2> HIDE DEF p
  <2>2. CASE linked
    <3>1. sent' = Append(sent, p) /\ got' = got
      BY <2>1, <2>2
    <3>2. NcpToHost!Send
      BY <2>1, <3>1 DEF NcpToHost!Send
    <3> QED BY <3>2 DEF NcpToHost!Next
  <2>3. CASE ~linked
    BY <2>1, <2>3
  <2> QED BY <2>2, <2>3
<1>6. CASE HostSend \/ NcpTimeout \/ LineFault \/ UNCHANGED linkVars
  <2>1. UNCHANGED <<linked, ncpSent, hostGot>>
    BY <1>6 DEF HostSend, NcpTimeout, LineFault, linkVars, historyVars
  <2> QED BY <2>1
<1> QED BY <1>2, <1>3, <1>4, <1>5, <1>6 DEF LinkNext

\* Within a session, what the NCP sends is delivered by on_frame in order, once and without gaps.
THEOREM NcpToHostAlwaysReliable == CleanReset => (LinkSpec => NcpToHostIsReliable)
<1> SUFFICES ASSUME CleanReset PROVE LinkSpec => NcpToHost!Spec
  BY DEF NcpToHostIsReliable
<1>1. LinkInit => NcpToHost!Init
  BY DEF LinkInit, NcpToHost!Init
<1>2. LinkInv /\ [LinkNext]_linkVars =>
        [NcpToHost!Next]_<<IF linked THEN ncpSent ELSE <<>>, IF linked THEN hostGot ELSE <<>>>>
  BY NcpToHostStep
<1> QED BY <1>1, <1>2, LinkInvHolds, PTL DEF LinkSpec, NcpToHost!Spec
=============================================================================
