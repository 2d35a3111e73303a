-------------------------- MODULE NcpAnswerProofs ---------------------------
(***************************************************************************)
(* Proof that command returns its own answer: until the application resets *)
(* the link, as long as the transport works and the numbers have not come  *)
(* round (AnswersOwnCommandUntilReset of Ncp).                             *)
(*                                                                         *)
(* AnswerInv says which numbers the answers on their way may carry.  They  *)
(* are below the outstanding one, or the NCP has restarted and has nothing *)
(* to say that a command would take, or the link is down and the numbers   *)
(* start again from one that no answer carries.  It rests on ConnectInv.   *)
(***************************************************************************)
EXTENDS NcpConnectProofs

-----------------------------------------------------------------------------
(* Frames in order *)

\* In what was read and then in what was not: behind a frame of A, frames of B only.
InOrder(read, unread, A, B) ==
    /\ \A i, j \in 1 .. Len(read) : i < j /\ read[i] \in A => read[j] \in B
    /\ \A i, j \in 1 .. Len(unread) : i < j /\ unread[i] \in A => unread[j] \in B
    /\ \A i \in 1 .. Len(read) : read[i] \in A => \A j \in 1 .. Len(unread) : unread[j] \in B

Without(read, unread, A) ==
    /\ \A i \in 1 .. Len(read) : read[i] \notin A
    /\ \A i \in 1 .. Len(unread) : unread[i] \notin A

Restarts == {f \in LineFrames : f.kind = "RstAck"}
Others == {f \in LineFrames : f.kind # "RstAck"}

-----------------------------------------------------------------------------
(* The inductive invariant *)

\* No command takes such a frame for its answer, or it is a command the NCP never gets to see.
Unmatched ==
    {p \in EzspFrames :
        p.kind = "Callback" \/ p.frame_id = "invalid" \/ (p.kind = "Command" /\ p.frame_id = "long")}

NotLong == {p \in EzspFrames : p.frame_id # "long"}

\* Number 0 was the offer's, and that is answered.
AfterOffer == Unmatched \cup {p \in NotLong : p.sequence >= 1}

\* Only a command that still runs may find its own number.
Numbered ==
    {p \in AfterOffer :
        p \notin Unmatched =>
            IF pending = <<>> THEN issued < SEQUENCE_SPACE => p.sequence < next_sequence_number
            ELSE /\ p.sequence <= pending[1].sequence
                 /\ p.sequence = pending[1].sequence =>
                       op = "command" /\ p.token = issued /\ p.frame_id = pending[1].frame_id}

Coming(S) ==
    /\ owed \in Seq(S) /\ line \in Seq(Carrying(S)) /\ chunk \in Seq(Carrying(S))
    /\ pc = "reply" /\ received # <<>> => received[1] \in S

Around(S) ==
    /\ Coming(S) /\ in_flight \in Seq(Holding(S))
    /\ outbound.kind = "Data" => outbound.payload \in S

Counting ==
    /\ pending # <<>> => pending[1].sequence >= 1
    /\ pending = <<>> /\ issued < SEQUENCE_SPACE => next_sequence_number >= 1
    /\ Around(Numbered)

\* The link is down, command has told the correlator, and nothing is sent any more.
Renumbered ==
    /\ ~is_connected /\ op # "command"
    /\ IF pending = <<>> THEN next_sequence_number = 0 ELSE pending[1].sequence = 0
    /\ Around(AfterOffer)

\* The host has heard that the NCP restarted.
Deaf == ncp_boot = "fresh" /\ Coming(Unmatched)

\* Behind the news of a restart comes nothing a command would take.
RestartsLast ==
    /\ InOrder(chunk, line, Restarts, Carrying(Unmatched))
    /\ ncp_boot # "fresh" => Without(chunk, line, Restarts)
    /\ ncp_boot = "fresh" => owed \in Seq(Unmatched)

\* A command too long for ASH keeps the correlator from starting another.
LongBlocks ==
    /\ pending = <<>> \/ (op = "command" /\ ~(pc = "write" /\ Unencodable(outbound))) =>
          /\ in_flight \in Seq(Holding(NotLong))
          /\ outbound.kind = "Data" => outbound.payload \in NotLong
    /\ pc = "write" /\ op = "command" =>
          /\ outbound.kind = "Data" /\ response = <<>> /\ pending # <<>>
          /\ outbound.payload.frame_id = pending[1].frame_id

NumbersLast ==
    /\ pending # <<>> => pending[1].sequence < issued /\ pending[1].frame_id \in Commands \cup {"version"}
    /\ issued < SEQUENCE_SPACE => next_sequence_number <= issued

OwnResponse ==
    response # <<>> => op = "command" /\ pc # "write" /\ pending = <<>> /\ response[1].token = issued

Undisturbed == faults = 0 /\ resets <= 1 /\ issued <= SEQUENCE_SPACE

\* No command can take another's answer.
NoMixUp ==
    /\ AsksExtended /\ RestartsLast /\ LongBlocks /\ NumbersLast /\ OwnResponse
    /\ Counting \/ Renumbered \/ Deaf

FirstCounts ==
    Undisturbed /\ connecting = "first" /\ (pc # "idle" \/ result.kind = "Ok") =>
        /\ issued = 1 /\ next_sequence_number = 1 % SEQUENCE_SPACE
        /\ response # <<>> => response[1].token = 1
        /\ InOrder(chunk, line, Others, Others)
        /\ Accepted \/ Got => Without(chunk, line, Restarts)

AnswerInv ==
    /\ connecting \in {"start", "reset", "first", "second", "up", "failed"}
    /\ connecting = "failed" => op = "none"
    /\ FirstCounts
    /\ Undisturbed => AnswersOwnCommand
    /\ Undisturbed /\ connecting \in {"second", "up"} => NoMixUp

-----------------------------------------------------------------------------
(* Frames in order *)

\* A read takes the front of what is there.
LEMMA OrderRead ==
    ASSUME NEW T, NEW l \in Seq(T), NEW n \in 1 .. Len(l), NEW A, NEW B, InOrder(<<>>, l, A, B)
    PROVE  InOrder(SubSeq(l, 1, n), SubSeq(l, n + 1, Len(l)), A, B)
<1>1. PICK m : m = Len(l) /\ m \in Nat
  OBVIOUS
<1>2. PICK c, r : c = SubSeq(l, 1, n) /\ r = SubSeq(l, n + 1, Len(l))
  OBVIOUS
<1>3. /\ Len(c) = n /\ \A i \in 1 .. n : c[i] = l[i]
      /\ Len(r) = m - n /\ \A i \in 1 .. (m - n) : r[i] = l[n + i]
  BY <1>1, <1>2
<1>4. \A i, j \in 1 .. m : i < j /\ l[i] \in A => l[j] \in B
  BY <1>1 DEF InOrder
<1>5. \A i, j \in 1 .. Len(c) : i < j /\ c[i] \in A => c[j] \in B
  BY <1>1, <1>3, <1>4
<1>6. \A i, j \in 1 .. Len(r) : i < j /\ r[i] \in A => r[j] \in B
  <2> TAKE i, j \in 1 .. Len(r)
  <2>1. n + i \in 1 .. m /\ n + j \in 1 .. m /\ (i < j => n + i < n + j)
    BY <1>1, <1>3
  <2> QED BY <1>3, <1>4, <2>1
<1>7. \A i \in 1 .. Len(c) : c[i] \in A => \A j \in 1 .. Len(r) : r[j] \in B
  <2> TAKE i \in 1 .. Len(c)
  <2> HAVE c[i] \in A
  <2> TAKE j \in 1 .. Len(r)
  <2>1. n + j \in 1 .. m /\ i \in 1 .. m /\ i < n + j
    BY <1>1, <1>3
  <2> QED BY <1>3, <1>4, <2>1
<1> QED BY <1>2, <1>5, <1>6, <1>7 DEF InOrder

\* The first frame of a read is consumed.
LEMMA OrderConsume ==
    ASSUME NEW T, NEW c \in Seq(T), NEW l \in Seq(T), NEW A, NEW B, InOrder(c, l, A, B), c # <<>>
    PROVE  /\ InOrder(Tail(c), l, A, B)
           /\ Head(c) \in A => Tail(c) \in Seq(B) /\ l \in Seq(B)
<1>1. PICK m : m = Len(c) /\ m \in Nat /\ m >= 1
  OBVIOUS
<1>2. PICK t : t = Tail(c)
  OBVIOUS
<1>3. Len(t) = m - 1 /\ (\A i \in 1 .. (m - 1) : t[i] = c[i + 1]) /\ t \in Seq(T) /\ Head(c) = c[1]
  BY <1>1, <1>2
<1>4. /\ \A i, j \in 1 .. m : i < j /\ c[i] \in A => c[j] \in B
      /\ \A i \in 1 .. m : c[i] \in A => \A j \in 1 .. Len(l) : l[j] \in B
  BY <1>1 DEF InOrder
<1>5. \A i \in 1 .. Len(t) : i + 1 \in 1 .. m /\ t[i] = c[i + 1] /\ 1 < i + 1
  BY <1>1, <1>3
<1>6. \A i, j \in 1 .. Len(t) : i < j => i + 1 < j + 1
  OBVIOUS
<1>7. InOrder(t, l, A, B)
  <2>1. \A i, j \in 1 .. Len(t) : i < j /\ t[i] \in A => t[j] \in B
    BY <1>4, <1>5, <1>6
  <2>2. \A i \in 1 .. Len(t) : t[i] \in A => \A j \in 1 .. Len(l) : l[j] \in B
    BY <1>4, <1>5
  <2> QED BY <2>1, <2>2 DEF InOrder
<1>8. ASSUME Head(c) \in A PROVE t \in Seq(B) /\ l \in Seq(B)
  <2>1. 1 \in 1 .. m /\ c[1] \in A
    BY <1>1, <1>3, <1>8
  <2>2. \A i \in 1 .. Len(t) : t[i] \in B
    BY <1>4, <1>5, <2>1
  <2>3. \A j \in 1 .. Len(l) : l[j] \in B
    BY <1>4, <2>1
  <2> QED BY <1>3, <2>2, <2>3, SeqOver
<1> QED BY <1>2, <1>7, <1>8

\* The rest of a read is dropped.
LEMMA OrderDrop ==
    ASSUME NEW c, NEW l, NEW A, NEW B, InOrder(c, l, A, B)
    PROVE  InOrder(<<>>, l, A, B)
BY DEF InOrder

\* One frame more.
LEMMA OrderAppend ==
    ASSUME NEW T, NEW c \in Seq(T), NEW l \in Seq(T), NEW A, NEW B, InOrder(c, l, A, B),
           NEW f, f \in B \/ Without(c, l, A)
    PROVE  InOrder(c, Append(l, f), A, B)
<1>1. PICK n : n = Len(l) /\ n \in Nat
  OBVIOUS
<1>2. PICK r : r = Append(l, f)
  OBVIOUS
<1>3. Len(r) = n + 1 /\ r[n + 1] = f /\ \A i \in 1 .. n : r[i] = l[i]
  BY <1>1, <1>2
<1>4. /\ \A i, j \in 1 .. n : i < j /\ l[i] \in A => l[j] \in B
      /\ \A i \in 1 .. Len(c) : c[i] \in A => \A j \in 1 .. n : l[j] \in B
      /\ \A i, j \in 1 .. Len(c) : i < j /\ c[i] \in A => c[j] \in B
  BY <1>1 DEF InOrder
<1>5. f \in B \/ ((\A i \in 1 .. Len(c) : c[i] \notin A) /\ (\A i \in 1 .. n : l[i] \notin A))
  BY <1>1 DEF Without
<1>6. \A i, j \in 1 .. Len(r) : i < j /\ r[i] \in A => r[j] \in B
  <2> TAKE i, j \in 1 .. Len(r)
  <2> HAVE i < j /\ r[i] \in A
  <2>1. i \in 1 .. n /\ (j \in 1 .. n \/ j = n + 1)
    BY <1>1, <1>3
  <2> QED BY <1>3, <1>4, <1>5, <2>1
<1>7. \A i \in 1 .. Len(c) : c[i] \in A => \A j \in 1 .. Len(r) : r[j] \in B
  <2> TAKE i \in 1 .. Len(c)
  <2> HAVE c[i] \in A
  <2> TAKE j \in 1 .. Len(r)
  <2>1. j \in 1 .. n \/ j = n + 1
    BY <1>1, <1>3
  <2> QED BY <1>3, <1>4, <1>5, <2>1
<1> QED BY <1>2, <1>4, <1>6, <1>7 DEF InOrder

\* The same for what is not there at all.
LEMMA WithoutParts ==
    ASSUME NEW T, NEW c \in Seq(T), NEW l \in Seq(T), NEW A, Without(c, l, A)
    PROVE  /\ Without(<<>>, l, A)
           /\ c # <<>> => Without(Tail(c), l, A) /\ Head(c) \notin A
           /\ \A n \in 1 .. Len(l) : Without(SubSeq(l, 1, n), SubSeq(l, n + 1, Len(l)), A)
           /\ \A f : f \notin A => Without(c, Append(l, f), A)
<1>1. Without(<<>>, l, A)
  BY DEF Without
<1>2. ASSUME c # <<>> PROVE Without(Tail(c), l, A) /\ Head(c) \notin A
  <2>1. Head(c) = c[1] /\ 1 \in 1 .. Len(c)
    BY <1>2
  <2>2. \A i \in 1 .. Len(Tail(c)) : Tail(c)[i] = c[i + 1] /\ i + 1 \in 1 .. Len(c)
    BY <1>2
  <2> QED BY <2>1, <2>2 DEF Without
<1>3. ASSUME NEW n \in 1 .. Len(l) PROVE Without(SubSeq(l, 1, n), SubSeq(l, n + 1, Len(l)), A)
  <2>1. PICK m : m = Len(l) /\ m \in Nat
    OBVIOUS
  <2>2. PICK x, r : x = SubSeq(l, 1, n) /\ r = SubSeq(l, n + 1, Len(l))
    OBVIOUS
  <2>3. /\ Len(x) = n /\ \A i \in 1 .. n : x[i] = l[i]
        /\ Len(r) = m - n /\ \A i \in 1 .. (m - n) : r[i] = l[n + i]
    BY <2>1, <2>2
  <2>4. \A i \in 1 .. m : l[i] \notin A
    BY <2>1 DEF Without
  <2>5. (\A i \in 1 .. n : i \in 1 .. m) /\ (\A i \in 1 .. (m - n) : n + i \in 1 .. m)
    BY <2>1
  <2>6. (\A i \in 1 .. Len(x) : x[i] \notin A) /\ (\A i \in 1 .. Len(r) : r[i] \notin A)
    BY <2>3, <2>4, <2>5
  <2> QED BY <2>2, <2>6 DEF Without
<1>4. ASSUME NEW f, f \notin A PROVE Without(c, Append(l, f), A)
  <2>1. \A i \in 1 .. Len(Append(l, f)) : i \in 1 .. Len(l) \/ i = Len(l) + 1
    OBVIOUS
  <2>2. \A i \in 1 .. Len(Append(l, f)) : Append(l, f)[i] = IF i = Len(l) + 1 THEN f ELSE l[i]
    BY <2>1
  <2> QED BY <1>4, <2>1, <2>2 DEF Without
<1> QED BY <1>1, <1>2, <1>3, <1>4

-----------------------------------------------------------------------------
(* What the NCP says *)

\* The answer has the number and the name of the command, or is no answer: always, when the NCP has
\* restarted and is asked in the extended layout, which leaves it as it is.
LEMMA ReplyNumbered ==
    ASSUME LineOK, NEW c \in CommandFrames
    PROVE  /\ NcpReply(c) \in EzspFrames /\ NcpReply(c).kind = "Response"
           /\ NcpReply(c).sequence = c.sequence /\ NcpReply(c).token = c.token
           /\ NcpReply(c).frame_id \in {c.frame_id, "invalid"}
           /\ c.format = "Extended" /\ ncp_boot = "fresh" => NcpReply(c).frame_id = "invalid"
           /\ c.format = "Extended" => (NcpBoot(c) = "fresh" <=> ncp_boot = "fresh")
<1>1. NcpReply(c) \in EzspFrames
  BY ReplyType
<1>2. /\ NcpReply(c).kind = "Response" /\ NcpReply(c).sequence = c.sequence /\ NcpReply(c).token = c.token
      /\ NcpReply(c).frame_id \in {c.frame_id, "invalid"}
      /\ c.format = "Extended" /\ ncp_boot = "fresh" => NcpReply(c).frame_id = "invalid"
  BY DEF NcpReply, Ezsp
<1>3. c.format = "Extended" => (NcpBoot(c) = "fresh" <=> ncp_boot = "fresh")
  BY DEF NcpBoot
<1> QED BY <1>1, <1>2, <1>3

\* A step that leaves the read alone or drops it, and adds at most a frame nobody takes.
LEMMA RestartsFrom ==
    ASSUME NcpInv, RestartsLast, chunk' \in {chunk, <<>>},
           line' = line \/ \E f \in Carrying(Unmatched) :
                              line' = Append(line, f) /\ (f \in Restarts => ncp_boot' = "fresh"),
           ncp_boot = "fresh" => ncp_boot' = "fresh",
           ncp_boot' = "fresh" => owed' \in Seq(Unmatched)
    PROVE  RestartsLast'
<1>1. PICK c, l : c = chunk /\ l = line
  OBVIOUS
<1>2. c \in Seq(LineFrames) /\ l \in Seq(LineFrames)
  BY <1>1 DEF NcpInv, LineOK, TaskOK
<1>3. PICK A, B : A = Restarts /\ B = Carrying(Unmatched)
  OBVIOUS
<1>4. InOrder(c, l, A, B) /\ InOrder(<<>>, l, A, B)
  BY <1>1, <1>3, OrderDrop DEF RestartsLast
<1>5. \A f \in B : InOrder(c, Append(l, f), A, B) /\ InOrder(<<>>, Append(l, f), A, B)
  BY <1>2, <1>4, OrderAppend, EmptySeq
<1>6. InOrder(chunk', line', A, B)
  BY <1>1, <1>3, <1>4, <1>5, Zenon
<1>7. ASSUME ncp_boot' # "fresh" PROVE Without(chunk', line', A)
  <2>1. Without(c, l, A)
    BY <1>1, <1>3, <1>7 DEF RestartsLast
  <2>2. Without(<<>>, l, A)
    BY <1>2, <2>1, WithoutParts
  <2>3. \A f : f \notin A => Without(c, Append(l, f), A) /\ Without(<<>>, Append(l, f), A)
    BY <1>2, <2>1, <2>2, WithoutParts, EmptySeq
  <2> QED BY <1>1, <1>3, <1>7, <2>1, <2>2, <2>3, Zenon
<1>8. A = Restarts' /\ B = Carrying(Unmatched)'
  BY <1>3 DEF Restarts, Carrying, Unmatched
<1> QED BY <1>6, <1>7, <1>8 DEF RestartsLast

\* What the host writes, but for a RST, is answered in the state the NCP is in.
LEMMA TakesRestarts ==
    ASSUME NcpInv, RestartsLast, AsksExtended, NcpTakes(outbound), outbound.kind # "Rst", chunk' \in {chunk, <<>>}
    PROVE  RestartsLast' /\ (ncp_boot' = "fresh" <=> ncp_boot = "fresh")
<1>1. ncp_rx \in SeqNum /\ next_sequence(ncp_rx) \in SeqNum /\ LineOK
  BY NextSequence DEF NcpInv, LineOK
<1>2. CASE UNCHANGED ncpVars
  <2>1. UNCHANGED <<line, owed, ncp_boot>>
    BY <1>2 DEF ncpVars
  <2> QED BY <2>1, RestartsFrom DEF RestartsLast
<1>3. CASE outbound.kind = "Data" /\ NcpTakesData(outbound)
  <2>1. PICK c : c = outbound.payload
    OBVIOUS
  <2>2. c \in CommandFrames /\ c.format = "Extended"
    BY <1>3, <2>1 DEF AsksExtended, ExtendedCommands
  <2>3. PICK f : f \in Carrying(Unmatched) /\ f.kind # "RstAck" /\ (line' = Append(line, f) \/ line' = line)
    <3>1. \A n \in SeqNum : Ack(n).kind # "RstAck" /\ Nak(n).kind # "RstAck"
      BY DEF Ack, Nak
    <3> QED BY <1>1, <1>3, <3>1, ControlFrames DEF NcpTakesData, ncpVars
  <2>4. \/ UNCHANGED <<owed, ncp_boot>>
        \/ owed' = Append(owed, NcpReply(c)) /\ ncp_boot' = NcpBoot(c)
    BY <1>3, <2>1 DEF NcpTakesData, ncpVars
  <2>5. ncp_boot' = "fresh" <=> ncp_boot = "fresh"
    BY <1>1, <2>2, <2>4, ReplyNumbered
  <2>6. ASSUME ncp_boot' = "fresh" PROVE owed' \in Seq(Unmatched)
    <3>1. owed \in Seq(Unmatched)
      BY <2>5, <2>6 DEF RestartsLast
    <3>2. NcpReply(c) \in Unmatched
      BY <1>1, <2>2, <2>5, <2>6, ReplyNumbered DEF Unmatched
    <3> QED BY <2>4, <3>1, <3>2, AppendType
  <2> QED BY <2>3, <2>5, <2>6, RestartsFrom DEF Restarts
<1> QED BY <1>2, <1>3 DEF NcpTakes

-----------------------------------------------------------------------------
(* The steps of an undisturbed task *)

\* A call of command, of the application or of connect.
Asks == \E frame_id \in Commands \cup {"version"}, desired \in Versions : StartCommand(frame_id, desired)

\* After the first exchange, until the link is reset.
Step ==
    \/ Write \/ PumpReturns \/ PumpRead \/ PumpTimeout \/ Consume \/ Reply
    \/ ConnectReturns \/ Asks \/ AppPolls \/ AppTakesCallbacks
    \/ NcpAnswers \/ NcpCallsBack \/ NcpSurprises

\* There are no others.
LEMMA StepsOnly ==
    ASSUME NcpInv, TaskInOrder, AfterFirst, connecting \in {"second", "up"}, resets = 1, resets' <= 1,
           faults = 0, faults' = 0, NcpNext
    PROVE  Step /\ op # "reset" /\ connecting' \in {"second", "up", "failed"} /\ resets' = 1
           /\ (connecting' # connecting => ConnectReturns)
<1>1. op # "reset"
  BY DEF AfterFirst
<1>2. ~ResetAttempt
  BY <1>1 DEF ResetAttempt, TaskInOrder
<1>3. ~AppResets
  BY DEF AppResets, StartReset
<1>4. ~PumpReadFails /\ ~AppDrops
  BY DEF PumpReadFails, AppDrops
<1>5. \/ Write \/ PumpReturns \/ PumpRead \/ PumpTimeout \/ Consume \/ Reply
      \/ ConnectReturns \/ AppCommands \/ AppPolls \/ AppTakesCallbacks
      \/ NcpAnswers \/ NcpCallsBack \/ NcpSurprises
  BY <1>2, <1>3, <1>4 DEF NcpNext, TaskStep, ConnectStarts, ConnectOffers, ConnectAgrees
<1>6. UNCHANGED <<connecting, resets>> \/ ConnectReturns
  BY <1>5 DEF Write, PumpReturns, PumpRead, PumpTimeout, Consume, Reply, PumpEnds, AppCommands,
              StartCommand, AppPolls, AppTakesCallbacks, NcpAnswers, NcpCallsBack, NcpSurprises, taskVars,
              boundVars
<1>7. ConnectReturns => connecting' \in {"up", "failed"} /\ UNCHANGED resets
  BY DEF ConnectReturns, boundVars
<1>8. AppCommands => Asks
  BY DEF AppCommands, Asks, NcpInv, CountersOK, Versions
<1> QED BY <1>1, <1>5, <1>6, <1>7, <1>8 DEF Step

\* write_frame: the NCP has the frame, or ash::encode has refused it.
LEMMA WriteDoes ==
    ASSUME Write, faults = 0, faults' = 0
    PROVE  /\ pc = "write" /\ UNCHANGED <<connVars, corrVars, hostVars, asked, issued>>
           /\ \/ ~Unencodable(outbound) /\ NcpTakes(outbound) /\ pc' = "pump" /\ UNCHANGED <<op, chunk, result>>
              \/ /\ Unencodable(outbound) /\ UNCHANGED ncpVars
                 /\ pc' = "idle" /\ op' = "none" /\ chunk' = <<>> /\ result'.answers = 0
BY DEF Write, Return, Returned

\* consume's reply: it is written and what came is dispatched, or ash::encode has refused it.
LEMMA ReplyDoes ==
    ASSUME Reply, faults = 0, faults' = 0
    PROVE  /\ pc = "reply" /\ UNCHANGED <<connVars, asked, issued>>
           /\ \/ /\ ~Unencodable(outbound) /\ NcpTakes(outbound) /\ pc' \in {"pump", "consume"}
                 /\ UNCHANGED <<op, chunk, result>>
                 /\ \/ received = <<>> /\ UNCHANGED <<corrVars, hostVars>>
                    \/ received # <<>> /\ dispatch(received[1])
              \/ Unencodable(outbound) /\ UNCHANGED ncpVars /\ PumpEnds("TooLong")
BY DEF Reply, AfterFrame, PumpEnds

\* The news of a restart under every step.
LEMMA NextRestarts ==
    ASSUME NcpInv, TaskInOrder, op # "reset", AsksExtended, RestartsLast, faults = 0, faults' = 0, Step
    PROVE  RestartsLast'
<1>1. outbound.kind = "Rst" => pc \notin {"write", "reply"}
  BY DEF TaskInOrder
<1>2. ASSUME UNCHANGED <<line, owed, ncp_boot>>, chunk' \in {chunk, <<>>} PROVE RestartsLast'
  BY <1>2, RestartsFrom DEF RestartsLast
<1>3. CASE Write
  <2>1. pc = "write" /\ chunk' \in {chunk, <<>>} /\ (NcpTakes(outbound) \/ UNCHANGED ncpVars)
    BY <1>3, WriteDoes
  <2> QED BY <1>1, <1>2, <2>1, TakesRestarts DEF ncpVars
<1>4. CASE Reply
  <2>1. pc = "reply" /\ chunk' \in {chunk, <<>>} /\ (NcpTakes(outbound) \/ UNCHANGED ncpVars)
    BY <1>4, ReplyDoes, PumpEndsDoes
  <2> QED BY <1>1, <1>2, <2>1, TakesRestarts DEF ncpVars
<1>5. CASE PumpReturns \/ PumpTimeout \/ ConnectReturns \/ AppPolls \/ AppTakesCallbacks
  <2>1. chunk' \in {chunk, <<>>} /\ UNCHANGED ncpVars
    BY <1>5, PumpReturnsDoes, PumpEndsDoes DEF PumpTimeout, ConnectReturns, AppPolls, AppTakesCallbacks, taskVars
  <2> QED BY <1>2, <2>1 DEF ncpVars
<1>6. CASE Asks
  <2>1. PICK frame_id \in Commands \cup {"version"}, desired \in Versions : StartCommand(frame_id, desired)
    BY <1>6 DEF Asks
  <2>2. chunk' \in {chunk, <<>>} /\ UNCHANGED ncpVars
    BY <2>1, StartCommandDoes
  <2> QED BY <1>2, <2>2 DEF ncpVars
<1>7. PICK c, l, A, B : c = chunk /\ l = line /\ A = Restarts /\ B = Carrying(Unmatched)
  OBVIOUS
<1>8. c \in Seq(LineFrames) /\ l \in Seq(LineFrames) /\ A = Restarts' /\ B = Carrying(Unmatched)'
  BY <1>7 DEF NcpInv, LineOK, TaskOK, Restarts, Carrying, Unmatched
<1>9. InOrder(c, l, A, B) /\ (ncp_boot # "fresh" => Without(c, l, A))
  BY <1>7 DEF RestartsLast
<1>10. CASE PumpRead
  <2>1. PICK n \in 1 .. MaxChunk :
           n <= Len(line) /\ chunk' = SubSeq(line, 1, n) /\ line' = SubSeq(line, n + 1, Len(line))
    BY <1>10 DEF PumpRead
  <2>2. n \in 1 .. Len(l) /\ chunk' = SubSeq(l, 1, n) /\ line' = SubSeq(l, n + 1, Len(l))
    BY <1>7, <2>1, NcpAssumption DEF NcpInv, LineOK
  <2>3. UNCHANGED <<owed, ncp_boot>> /\ c = <<>>
    BY <1>7, <1>10 DEF PumpRead, TaskInOrder
  <2>4. InOrder(chunk', line', A, B)
    BY <1>8, <1>9, <2>2, <2>3, OrderRead
  <2>5. ncp_boot # "fresh" => Without(chunk', line', A)
    BY <1>8, <1>9, <2>2, WithoutParts
  <2> QED BY <1>8, <2>3, <2>4, <2>5 DEF RestartsLast
<1>11. CASE Consume
  <2>1. chunk' = Tail(c) /\ c # <<>> /\ UNCHANGED <<line, owed, ncp_boot>>
    BY <1>7, <1>11 DEF Consume, ncpVars, NcpInv, TaskOK
  <2>2. InOrder(chunk', line', A, B)
    BY <1>7, <1>8, <1>9, <2>1, OrderConsume
  <2>3. ncp_boot # "fresh" => Without(chunk', line', A)
    BY <1>7, <1>8, <1>9, <2>1, WithoutParts
  <2> QED BY <1>8, <2>1, <2>2, <2>3 DEF RestartsLast
<1>12. CASE NcpAnswers
  <2>1. owed # <<>> /\ owed' = Tail(owed) /\ UNCHANGED <<chunk, ncp_boot>> /\ owed \in Seq(EzspFrames)
    BY <1>12 DEF NcpAnswers, taskVars, NcpInv, LineOK
  <2>2. PICK f : f = Data(ncp_tx, ncp_rx, FALSE, Head(owed))
    OBVIOUS
  <2>3. Head(owed) \in EzspFrames
    BY <2>1, PartsOver
  <2>4. line' = Append(line, f) /\ f.kind = "Data" /\ f.payload = Head(owed) /\ f \in LineFrames
    BY <1>12, <2>2, <2>3 DEF NcpAnswers, NcpSends, Data, LineFrames, LineData, NcpInv, LineOK
  <2>5. CASE ncp_boot = "fresh"
    <3>1. owed \in Seq(Unmatched)
      BY <2>5 DEF RestartsLast
    <3>2. Head(owed) \in Unmatched /\ Tail(owed) \in Seq(Unmatched)
      BY <2>1, <3>1, PartsOver
    <3>3. f \in Carrying(Unmatched)
      BY <2>4, <3>2 DEF Carrying
    <3> QED BY <2>1, <2>4, <2>5, <3>2, <3>3, RestartsFrom
  <2>6. CASE ncp_boot # "fresh"
    <3>1. f \notin A
      BY <1>7, <2>4 DEF Restarts
    <3>2. Without(c, Append(l, f), A)
      BY <1>8, <1>9, <2>6, <3>1, WithoutParts
    <3>3. InOrder(c, Append(l, f), A, B)
      BY <1>8, <1>9, <2>6, OrderAppend
    <3> QED BY <1>7, <1>8, <2>1, <2>4, <2>6, <3>2, <3>3 DEF RestartsLast
  <2> QED BY <2>5, <2>6
<1>13. CASE NcpCallsBack
  <2>1. PICK frame \in EventFrames : NcpSends(frame)
    BY <1>13, CallbackTells
  <2>2. PICK f : f = Data(ncp_tx, ncp_rx, FALSE, frame)
    OBVIOUS
  <2>3. line' = Append(line, f) /\ f.kind = "Data" /\ f.payload = frame /\ f \in LineFrames
    BY <2>1, <2>2 DEF NcpSends, Data, LineFrames, LineData, NcpInv, LineOK, EventFrames
  <2>4. f \in Carrying(Unmatched) /\ f \notin Restarts
    BY <2>3 DEF Carrying, Unmatched, EventFrames, Restarts
  <2>5. UNCHANGED <<chunk, owed, ncp_boot>>
    BY <1>13 DEF NcpCallsBack, taskVars
  <2> QED BY <2>3, <2>4, <2>5, RestartsFrom DEF RestartsLast
<1>14. CASE NcpSurprises
  <2>1. UNCHANGED chunk
    BY <1>14 DEF NcpSurprises, taskVars
  <2>2. CASE NcpFails
    <3>1. line' = Append(line, ErrorFrame) /\ owed' = <<>> /\ UNCHANGED ncp_boot
      BY <2>2 DEF NcpFails
    <3>2. ErrorFrame \in Carrying(Unmatched) /\ ErrorFrame \notin Restarts
      BY ControlFrames DEF ErrorFrame, Restarts
    <3> QED BY <2>1, <3>1, <3>2, RestartsFrom, EmptySeq
  <2>3. CASE NcpTakesRst
    <3>1. line' = Append(line, RstAck) /\ owed' = <<>> /\ ncp_boot' = "fresh"
      BY <2>3 DEF NcpTakesRst
    <3> QED BY <2>1, <3>1, ControlFrames, RestartsFrom, EmptySeq
  <2>4. CASE Noise
    <3>1. PICK b \in BOOLEAN : line' = Append(line, Rejected(b))
      BY <2>4 DEF Noise
    <3>2. Rejected(b) \in Carrying(Unmatched) /\ Rejected(b) \notin Restarts
      BY ControlFrames DEF Rejected, Restarts
    <3>3. UNCHANGED <<owed, ncp_boot>>
      BY <2>4 DEF Noise
    <3> QED BY <2>1, <3>1, <3>2, <3>3, RestartsFrom DEF RestartsLast
  <2> QED BY <1>14, <2>2, <2>3, <2>4 DEF NcpSurprises
<1> QED
  BY <1>3, <1>4, <1>5, <1>6, <1>10, <1>11, <1>12, <1>13, <1>14 DEF Step

\* Only consume, and a call of command, go through the connection.
LEMMA ConnectionStays ==
    ASSUME Step, ~Consume, ~Asks PROVE UNCHANGED connVars
BY PumpReturnsDoes, PumpEndsDoes
   DEF Step, Write, PumpRead, PumpTimeout, Reply, PumpEnds, ConnectReturns, AppPolls, AppTakesCallbacks,
       NcpAnswers, NcpCallsBack, NcpSurprises

\* The commands in flight under every step.
LEMMA NextAsks ==
    ASSUME NcpInv, NcpInv', initial_version_sent, AsksExtended, Step PROVE AsksExtended'
<1>1. CASE Consume
  <2>1. in_flight \in Seq(Holding(ExtendedCommands)) /\ ConnInv'
    BY DEF AsksExtended, NcpInv
  <2> QED BY <1>1, <2>1, ConsumeHolding DEF AsksExtended
<1>2. CASE Asks
  <2>1. PICK frame_id \in Commands \cup {"version"}, desired \in Versions : StartCommand(frame_id, desired)
    BY <1>2 DEF Asks
  <2> QED BY <2>1, AsksInExtended
<1>3. CASE UNCHANGED connVars
  BY <1>3 DEF AsksExtended, connVars
<1> QED BY <1>1, <1>2, <1>3, ConnectionStays

-----------------------------------------------------------------------------
(* Finding the command an answer belongs to *)

\* A frame is taken for the answer to the command that runs, and only if it is.
LEMMA DispatchOwn ==
    ASSUME NcpInv, VersionsAreTrue, NumbersLast, Counting \/ Renumbered \/ Deaf,
           pc = "reply", received # <<>>, dispatch(received[1])
    PROVE  /\ UNCHANGED next_sequence_number
           /\ \/ UNCHANGED <<pending, response>>
              \/ /\ op = "command" /\ pending # <<>> /\ pending' = <<>>
                 /\ response' # <<>> /\ response'[1].token = issued
<1>1. PICK frame : frame = received[1]
  OBVIOUS
<1>2. frame \in Told(ncp_version) /\ frame \in EzspFrames
  BY <1>1 DEF VersionsAreTrue, Told
<1>3. PICK format : dispatch(frame) <=> File(parse(frame, format))
  BY DEF dispatch
<1>4. PICK p : p = parse(frame, format)
  OBVIOUS
<1>5. /\ p.kind = frame.kind /\ p.sequence = frame.sequence /\ p.token = frame.token
      /\ p.frame_id \in {frame.frame_id, "misread"}
  BY <1>2, <1>4 DEF parse, EzspFrames
<1>6. File(p) /\ UNCHANGED next_sequence_number
  BY <1>1, <1>3, <1>4 DEF File, classify
<1>7. CASE Classified(p) # "Response"
  BY <1>6, <1>7 DEF File, classify
<1>8. CASE Classified(p) = "Response"
  <2>1. p.kind = "Response" /\ pending = <<[sequence |-> p.sequence, frame_id |-> p.frame_id]>>
    BY <1>8 DEF Classified
  <2>2. pending # <<>> /\ pending[1].sequence = frame.sequence /\ pending[1].frame_id = p.frame_id
    BY <1>5, <2>1
  <2>3. p.frame_id \in Commands \cup {"version"}
    BY <2>2 DEF NumbersLast
  <2>4. p.frame_id = frame.frame_id /\ frame.frame_id # "invalid"
    BY <1>5, <2>3, NcpAssumption
  <2>5. frame \notin Unmatched
    BY <1>5, <2>1, <2>4 DEF Unmatched
  <2>6. frame \in Numbered
    <3>1. ~Deaf
      BY <1>1, <2>5 DEF Deaf, Coming
    <3>2. ~Renumbered
      <4>1. SUFFICES ASSUME Renumbered PROVE FALSE
        OBVIOUS
      <4>2. frame \in AfterOffer /\ pending[1].sequence = 0
        BY <1>1, <2>2, <4>1 DEF Renumbered, Around, Coming
      <4>3. frame.sequence >= 1
        BY <2>5, <4>2 DEF AfterOffer
      <4> QED BY <2>2, <4>2, <4>3
    <3> QED BY <1>1, <3>1, <3>2 DEF Counting, Around, Coming
  <2>7. op = "command" /\ frame.token = issued
    BY <2>2, <2>5, <2>6 DEF Numbered
  <2>8. response' = <<p>> /\ pending' = <<>>
    BY <1>6, <1>8 DEF File, classify
  <2>9. response' # <<>> /\ response'[1] = p
    BY <2>8
  <2> QED BY <1>5, <1>6, <2>2, <2>7, <2>8, <2>9
<1> QED BY <1>7, <1>8

\* A command too long for ASH under every step.
LEMMA NextLong ==
    ASSUME NcpInv, NcpInv', TaskInOrder, VersionsAreTrue, op # "reset", faults = 0, faults' = 0,
           NumbersLast, OwnResponse, LongBlocks, Counting \/ Renumbered \/ Deaf, Step
    PROVE  LongBlocks'
<1> DEFINE Free == pending = <<>> \/ (op = "command" /\ ~(pc = "write" /\ Unencodable(outbound)))
           Short == /\ in_flight \in Seq(Holding(NotLong))
                    /\ outbound.kind = "Data" => outbound.payload \in NotLong
<1>1. Free => Short
  BY DEF LongBlocks
<1>2. ASSUME UNCHANGED connVars, Free' => Free, pc' # "write" \/ op' # "command" PROVE LongBlocks'
  <2>1. UNCHANGED <<in_flight, outbound>>
    BY <1>2 DEF connVars
  <2>2. Free' => Short'
    BY <1>1, <1>2, <2>1
  <2> QED BY <1>2, <2>2 DEF LongBlocks
<1>3. CASE Write
  BY <1>2, <1>3, WriteDoes DEF corrVars
<1>4. CASE PumpReturns
  <2>1. UNCHANGED connVars /\ pc = "pump" /\ pc' = "idle" /\ op' = "none" /\ (op = "command" \/ UNCHANGED corrVars)
    BY <1>4, PumpReturnsDoes
  <2> QED BY <1>2, <2>1 DEF corrVars
<1>5. CASE PumpTimeout
  <2>1. PumpEnds("Ok") /\ pc = "pump"
    BY <1>5 DEF PumpTimeout
  <2>2. UNCHANGED connVars /\ pc' = "idle" /\ op' = "none" /\ op \in {"command", "poll"}
    BY <2>1, PumpEndsDoes
  <2>3. op = "poll" => UNCHANGED corrVars
    BY <2>1 DEF PumpEnds
  <2> QED BY <1>2, <2>1, <2>2, <2>3 DEF corrVars
<1>6. CASE PumpRead
  BY <1>2, <1>6 DEF PumpRead, corrVars
<1>7. CASE Consume
  <2>1. pc = "consume" /\ pc' # "write" /\ UNCHANGED <<pending, op>> /\ ConnInv'
    BY <1>7 DEF Consume, AfterFrame, corrVars, NcpInv
  <2>2. Free' => Short
    BY <1>1, <2>1
  <2>3. Short => Short'
    BY <1>7, <2>1, ConsumeHolding
  <2> QED BY <2>1, <2>2, <2>3 DEF LongBlocks
<1>8. CASE Reply
  <2>1. CASE Unencodable(outbound) /\ PumpEnds("TooLong")
    <3>1. UNCHANGED connVars /\ pc = "reply" /\ pc' = "idle" /\ op' = "none" /\ op \in {"command", "poll"}
      BY <1>8, <2>1, PumpEndsDoes, ReplyDoes
    <3>2. op = "poll" => UNCHANGED corrVars
      BY <2>1 DEF PumpEnds
    <3> QED BY <1>2, <3>1, <3>2 DEF corrVars
  <2>2. CASE /\ pc' \in {"pump", "consume"} /\ UNCHANGED op
             /\ \/ received = <<>> /\ UNCHANGED <<corrVars, hostVars>>
                \/ received # <<>> /\ dispatch(received[1])
    <3>1. UNCHANGED connVars /\ pc = "reply"
      BY <1>8, ReplyDoes
    <3>2. pending' = pending \/ op = "command"
      <4>1. CASE received = <<>>
        BY <2>2, <4>1 DEF corrVars
      <4>2. CASE received # <<>>
        <5>1. dispatch(received[1])
          BY <2>2, <4>2
        <5> QED BY <3>1, <4>2, <5>1, DispatchOwn
      <4> QED BY <4>1, <4>2
    <3> QED BY <1>2, <2>2, <3>1, <3>2
  <2> QED BY <1>8, <2>1, <2>2, ReplyDoes
<1>9. CASE ConnectReturns \/ AppPolls \/ AppTakesCallbacks \/ NcpAnswers \/ NcpCallsBack \/ NcpSurprises
  <2>1. UNCHANGED <<connVars, pending>> /\ (UNCHANGED <<pc, op>> \/ (op' = "poll" /\ pc' = "pump"))
    BY <1>9 DEF ConnectReturns, AppPolls, AppTakesCallbacks, NcpAnswers, NcpCallsBack, NcpSurprises, taskVars, corrVars
  <2>2. UNCHANGED outbound
    BY <2>1 DEF connVars
  <2>3. Free' => Free
    BY <2>1, <2>2 DEF Unencodable
  <2>4. ASSUME UNCHANGED <<pc, op>> PROVE LongBlocks'
    <3>1. UNCHANGED <<response, pending, outbound, in_flight, pc, op>>
      BY <1>9, <2>1, <2>4 DEF ConnectReturns, AppPolls, AppTakesCallbacks, NcpAnswers, NcpCallsBack, NcpSurprises,
         hostVars, connVars
    <3> QED BY <3>1 DEF LongBlocks, Unencodable, Holding, NotLong
  <2> QED BY <1>2, <2>1, <2>3, <2>4
<1>10. CASE Asks
  <2>1. PICK frame_id \in Commands \cup {"version"}, desired \in Versions : StartCommand(frame_id, desired)
    BY <1>10 DEF Asks
  <2>2. pc = "idle" /\ op = "none" /\ response = <<>> /\ UNCHANGED response
    BY <2>1, StartCommandDoes DEF NcpInv, TaskOK, OwnResponse
  <2>3. CASE UNCHANGED <<connVars, corrVars>> /\ pc' = "idle" /\ op' = "none"
    BY <1>2, <2>2, <2>3 DEF corrVars
  <2>4. CASE pending' # <<>> /\ pc' = "idle" /\ op' = "none"
    BY <2>4 DEF LongBlocks
  <2>5. CASE /\ pc' = "write" /\ op' = "command" /\ pending = <<>> /\ frame_id # "absent"
             /\ pending' = <<[sequence |-> next_sequence_number, frame_id |-> frame_id]>>
             /\ outbound'.kind = "Data" /\ send_data(Sent(frame_id, desired))
    <3>1. PICK p : p = Sent(frame_id, desired)
      OBVIOUS
    <3>2. p \in CommandFrames /\ p \in Payload /\ p.frame_id = frame_id
      BY <2>1, <2>5, <3>1, SentType
    <3>3. pending' # <<>> /\ pending'[1].frame_id = frame_id
      BY <2>5
    <3>4. p \in CommandFrames /\ in_flight \in Seq(Holding(CommandFrames)) /\ ConnInv /\ send_data(p)
      <4>1. in_flight \in Seq(Holding(NotLong)) /\ in_flight \in Seq(InFlight)
        BY <1>1, <2>5 DEF NcpInv, ConnInv, TypeOK
      <4>2. \A i \in 1 .. Len(in_flight) : in_flight[i] \in Holding(CommandFrames)
        BY <4>1 DEF Holding, NcpInv, PayloadsOK
      <4> QED BY <2>5, <3>1, <3>2, <4>1, <4>2, SeqOver DEF NcpInv
    <3>5. outbound' = Data(next_tx_frame, next_rx_frame, FALSE, p)
      BY <2>5, <3>2, <3>4, SendDataHolding
    <3>6. outbound'.payload = p
      BY <3>5 DEF Data
    <3>7. ASSUME frame_id # "long" PROVE Short'
      <4>1. p \in NotLong
        BY <3>2, <3>7 DEF NotLong, CommandFrames
      <4>2. in_flight \in Seq(Holding(NotLong))
        BY <1>1, <2>5
      <4> QED BY <3>2, <3>4, <4>1, <4>2, SendDataHolding
    <3>8. frame_id = "long" => Unencodable(outbound')
      BY <2>5, <3>2, <3>6 DEF Unencodable
    <3>9. Free' => frame_id # "long"
      BY <2>5, <3>3, <3>8 DEF Unencodable
    <3> QED BY <2>2, <2>5, <3>2, <3>3, <3>6, <3>7, <3>9 DEF LongBlocks
  <2>6. \/ UNCHANGED <<connVars, corrVars>>
        \/ /\ frame_id # "absent" /\ pending = <<>>
           /\ pending' = <<[sequence |-> next_sequence_number, frame_id |-> frame_id]>>
    BY <2>1, StartCommandDoes
  <2>7. \/ pc' = "idle" /\ op' = "none"
        \/ /\ pc' = "write" /\ op' = "command" /\ pending = <<>> /\ pending' # <<>>
           /\ outbound'.kind = "Data" /\ send_data(Sent(frame_id, desired))
    BY <2>1, StartCommandDoes
  <2>8. UNCHANGED corrVars => pending' = pending
    BY DEF corrVars
  <2> QED BY <2>3, <2>4, <2>5, <2>6, <2>7, <2>8
<1> QED
  BY <1>3, <1>4, <1>5, <1>6, <1>7, <1>8, <1>9, <1>10 DEF Step

-----------------------------------------------------------------------------
(* What the correlator and the caller see of a step *)

\* Nothing, or a method has returned without an answer.
Unseen ==
    /\ UNCHANGED <<corrVars, response>> /\ result'.answers \in {result.answers, 0}
    /\ op' = "command" <=> op = "command"
    /\ pc' = "write" => pc = "write"

\* ash::encode has refused the command.
Refused ==
    /\ pc = "write" /\ Unencodable(outbound) /\ UNCHANGED <<connVars, corrVars, response, ncpVars>>
    /\ op' = "none" /\ chunk' = <<>> /\ result'.answers = 0

\* A response is taken for the command.
Matched ==
    /\ pc = "reply" /\ op = "command" /\ pending # <<>> /\ pending' = <<>>
    /\ response' # <<>> /\ response'[1].token = issued
    /\ pc' # "write" /\ UNCHANGED <<connVars, next_sequence_number, op, result>>

\* command returns it.
HandedOver ==
    /\ op = "command" /\ response # <<>> /\ response' = <<>>
    /\ UNCHANGED <<connVars, corrVars, ncpVars>>
    /\ op' = "none" /\ chunk' = <<>> /\ result'.answers \in {0, response[1].token}

\* command returns without one.
GivenUp ==
    /\ op = "command" /\ response = <<>> /\ pending' = <<>>
    /\ UNCHANGED next_sequence_number \/ (~is_connected /\ next_sequence_number' = 0)
    /\ UNCHANGED <<connVars, response, ncpVars>>
    /\ op' = "none" /\ chunk' = <<>> /\ result'.answers = 0

\* pump_until ends without done.
LEMMA PumpEndsSeen ==
    ASSUME NEW outcome, PumpEnds(outcome), op # "reset", pc # "write", UNCHANGED ncpVars,
           op = "command" => response = <<>> /\ outcome = "Ok"
    PROVE  Unseen \/ GivenUp
<1>1. CASE op = "command"
  <2>2. UNCHANGED <<connVars, hostVars>> /\ NoAnswer("Ok")
    BY <1>1 DEF PumpEnds
  <2>3. /\ pending' = <<>> /\ op' = "none" /\ chunk' = <<>> /\ result'.answers = 0
        /\ UNCHANGED next_sequence_number \/ (~is_connected /\ next_sequence_number' = 0)
    BY <2>2 DEF NoAnswer, Return, Returned, on_ncp_reset, time_out
  <2> QED BY <1>1, <2>2, <2>3 DEF GivenUp, hostVars
<1>2. CASE op # "command"
  <2>1. UNCHANGED hostVars /\ UNCHANGED corrVars /\ result'.answers = 0 /\ op' = "none" /\ pc' = "idle"
    BY <1>2 DEF PumpEnds, Return, Returned
  <2> QED BY <1>2, <2>1 DEF Unseen, hostVars
<1> QED BY <1>1, <1>2

\* There is nothing else to see, unless a command is called.
LEMMA StepSeen ==
    ASSUME NcpInv, TaskInOrder, VersionsAreTrue, op # "reset", faults = 0, faults' = 0,
           NumbersLast, OwnResponse, LongBlocks, Counting \/ Renumbered \/ Deaf, Step, ~Asks
    PROVE  UNCHANGED <<issued, asked>> /\ (Unseen \/ Refused \/ Matched \/ HandedOver \/ GivenUp)
<1>1. CASE Write
  <2>1. /\ pc = "write" /\ UNCHANGED <<connVars, corrVars, hostVars, asked, issued>>
        /\ \/ pc' = "pump" /\ UNCHANGED <<op, result>>
           \/ /\ Unencodable(outbound) /\ UNCHANGED ncpVars
              /\ op' = "none" /\ chunk' = <<>> /\ result'.answers = 0
    BY <1>1, WriteDoes
  <2> QED BY <2>1 DEF Unseen, Refused, hostVars
<1>2. CASE PumpReturns
  <2>1. UNCHANGED <<connVars, asked, ncpVars, issued>>
    BY <1>2 DEF PumpReturns, boundVars
  <2>2. CASE Answered
    <3>1. /\ op = "command" /\ response # <<>> /\ response' = <<>> /\ UNCHANGED corrVars
          /\ op' = "none" /\ chunk' = <<>> /\ result'.answers \in {0, response[1].token}
      BY <2>2 DEF Answered, Return, Returned
    <3> QED BY <2>1, <3>1 DEF HandedOver
  <2>3. CASE Disconnected
    <3>1. op = "command" /\ response = <<>> /\ UNCHANGED hostVars /\ NoAnswer("Ok")
      BY <2>3 DEF Disconnected
    <3>2. /\ pending' = <<>> /\ op' = "none" /\ chunk' = <<>> /\ result'.answers = 0
          /\ UNCHANGED next_sequence_number \/ (~is_connected /\ next_sequence_number' = 0)
      BY <3>1 DEF NoAnswer, Return, Returned, on_ncp_reset, time_out
    <3> QED BY <2>1, <3>1, <3>2 DEF GivenUp, hostVars
  <2>4. CASE PollDone
    <3>1. op = "poll" /\ UNCHANGED <<corrVars, response>> /\ op' = "none" /\ pc' = "idle" /\ result'.answers = 0
      BY <2>4 DEF PollDone, Return, Returned
    <3> QED BY <2>1, <3>1 DEF Unseen
  <2> QED BY <1>2, <2>2, <2>3, <2>4 DEF PumpReturns, ResetDone
<1>3. CASE PumpTimeout
  <2>1. PumpEnds("Ok") /\ pc = "pump" /\ ~PumpDone /\ UNCHANGED <<ncpVars, issued>>
    BY <1>3 DEF PumpTimeout, boundVars
  <2>2. op = "command" => response = <<>>
    BY <2>1 DEF PumpDone
  <2>3. UNCHANGED asked
    BY <2>1 DEF PumpEnds
  <2> QED BY <2>1, <2>2, <2>3, PumpEndsSeen
<1>4. CASE PumpRead \/ Consume
  BY <1>4 DEF PumpRead, Consume, AfterFrame, Unseen, hostVars, boundVars
<1>5. CASE Reply
  <2>1. pc = "reply" /\ UNCHANGED <<connVars, asked, issued>>
    BY <1>5, ReplyDoes
  <2>2. CASE Unencodable(outbound) /\ UNCHANGED ncpVars /\ PumpEnds("TooLong")
    <3>1. op # "command"
      BY <2>1, <2>2 DEF LongBlocks, Unencodable, NotLong
    <3> QED BY <2>1, <2>2, <3>1, PumpEndsSeen
  <2>3. CASE /\ pc' \in {"pump", "consume"} /\ UNCHANGED <<op, result>>
             /\ received = <<>> /\ UNCHANGED <<corrVars, hostVars>>
    BY <2>1, <2>3 DEF Unseen, hostVars
  <2>4. CASE pc' \in {"pump", "consume"} /\ UNCHANGED <<op, result>> /\ received # <<>> /\ dispatch(received[1])
    <3>1. \/ UNCHANGED <<pending, next_sequence_number, response>>
          \/ /\ op = "command" /\ pending # <<>> /\ pending' = <<>> /\ UNCHANGED next_sequence_number
             /\ response' # <<>> /\ response'[1].token = issued
      BY <2>1, <2>4, DispatchOwn
    <3>2. CASE UNCHANGED <<pending, next_sequence_number, response>>
      BY <2>1, <2>4, <3>2 DEF Unseen, corrVars
    <3>3. CASE ~UNCHANGED <<pending, next_sequence_number, response>>
      BY <2>1, <2>4, <3>1, <3>3 DEF Matched
    <3> QED BY <3>2, <3>3
  <2> QED BY <1>5, <2>2, <2>3, <2>4, ReplyDoes
<1>6. CASE ConnectReturns \/ AppPolls \/ AppTakesCallbacks \/ NcpAnswers \/ NcpCallsBack \/ NcpSurprises
  <2>1. /\ UNCHANGED <<corrVars, response, result, issued, asked>>
        /\ UNCHANGED <<pc, op>> \/ (pc = "idle" /\ pc' = "pump" /\ op' = "poll")
    BY <1>6 DEF ConnectReturns, AppPolls, AppTakesCallbacks, NcpAnswers, NcpCallsBack, NcpSurprises, taskVars,
       hostVars, boundVars
  <2> QED BY <2>1 DEF Unseen, NcpInv, TaskOK
<1> QED BY <1>1, <1>2, <1>3, <1>4, <1>5, <1>6 DEF Step

-----------------------------------------------------------------------------
(* The numbers, and the answer command returns *)

\* The outstanding number is that of the last call of command at the latest.
LEMMA NextNumbersLast ==
    ASSUME NcpInv, NcpInv', TaskInOrder, VersionsAreTrue, op # "reset", faults = 0, faults' = 0,
           NumbersLast, OwnResponse, LongBlocks, Counting \/ Renumbered \/ Deaf, Step,
           issued' <= SEQUENCE_SPACE
    PROVE  NumbersLast'
<1>1. /\ issued \in Nat /\ SEQUENCE_SPACE \in Nat /\ next_sequence_number \in 0 .. (SEQUENCE_SPACE - 1)
      /\ pending # <<>> => pending[1].sequence \in Nat
  BY SequenceSpaceAssumption, NcpAssumption DEF NcpInv, CountersOK, CorrInv, CorrTypeOK, Sequence, Pending
<1>2. CASE Asks
  <2>1. PICK frame_id \in Commands \cup {"version"}, desired \in Versions : StartCommand(frame_id, desired)
    BY <1>2 DEF Asks
  <2>2. issued' = issued + 1 /\ issued < SEQUENCE_SPACE
    BY <1>1, <2>1, StartCommandDoes
  <2>3. CASE UNCHANGED corrVars
    BY <1>1, <2>2, <2>3 DEF NumbersLast, corrVars
  <2>4. CASE begin(frame_id)
    <3>1. pending' = <<[sequence |-> next_sequence_number, frame_id |-> frame_id]>>
      BY <2>4 DEF begin
    <3>2. pending'[1].sequence = next_sequence_number /\ pending'[1].frame_id = frame_id
      BY <3>1
    <3>3. next_sequence_number' = (next_sequence_number + 1) % SEQUENCE_SPACE
      BY <2>4 DEF begin
    <3>4. next_sequence_number <= issued
      BY <2>2 DEF NumbersLast
    <3>5. issued + 1 < SEQUENCE_SPACE => next_sequence_number' = next_sequence_number + 1
      BY <1>1, <3>3, <3>4
    <3> QED BY <1>1, <2>2, <3>2, <3>4, <3>5 DEF NumbersLast
  <2> QED BY <2>1, <2>3, <2>4 DEF StartCommand
<1>3. CASE ~Asks
  <2>1. UNCHANGED issued /\ (Unseen \/ Refused \/ Matched \/ HandedOver \/ GivenUp)
    BY <1>3, StepSeen
  <2>2. pending' \in {pending, <<>>} /\ next_sequence_number' \in {next_sequence_number, 0}
    BY <2>1 DEF Unseen, Refused, Matched, HandedOver, GivenUp, corrVars
  <2> QED BY <1>1, <2>1, <2>2 DEF NumbersLast
<1> QED BY <1>2, <1>3

\* A response that was taken is the running command's.
LEMMA NextOwn ==
    ASSUME NcpInv, NcpInv', TaskInOrder, VersionsAreTrue, op # "reset", faults = 0, faults' = 0,
           NumbersLast, OwnResponse, LongBlocks, Counting \/ Renumbered \/ Deaf, Step
    PROVE  OwnResponse'
<1>2. CASE Asks
  <2>1. PICK frame_id \in Commands \cup {"version"}, desired \in Versions : StartCommand(frame_id, desired)
    BY <1>2 DEF Asks
  <2>2. UNCHANGED response /\ pc = "idle" /\ op = "none"
    BY <2>1, StartCommandDoes DEF NcpInv, TaskOK
  <2> QED BY <2>2 DEF OwnResponse
<1>3. CASE ~Asks
  <2>1. UNCHANGED <<issued, asked>> /\ (Unseen \/ Refused \/ Matched \/ HandedOver \/ GivenUp)
    BY <1>3, StepSeen
  <2>2. CASE Unseen
    BY <2>1, <2>2 DEF Unseen, OwnResponse, corrVars
  <2>3. CASE Refused
    BY <2>1, <2>3 DEF Refused, OwnResponse
  <2>4. CASE Matched
    BY <2>1, <2>4 DEF Matched, OwnResponse
  <2>5. CASE HandedOver
    BY <2>1, <2>5 DEF HandedOver, OwnResponse
  <2>6. CASE GivenUp
    BY <2>1, <2>6 DEF GivenUp, OwnResponse
  <2> QED BY <2>1, <2>2, <2>3, <2>4, <2>5, <2>6
<1> QED BY <1>2, <1>3

-----------------------------------------------------------------------------
(* What is coming *)

\* When the NCP's answer to what is written is in a set, what comes stays in it.
LEMMA ComingGoesOn ==
    ASSUME NcpInv, NcpInv', TaskInOrder, NEW S, Unmatched \subseteq S, S \subseteq EzspFrames, Coming(S),
           pc \in {"write", "reply"} /\ outbound.kind = "Data" /\ ~Unencodable(outbound)
              => NcpReply(outbound.payload) \in S,
           faults = 0, faults' = 0, Step
    PROVE  Coming(S)'
<1>1. /\ owed \in Seq(S) /\ line \in Seq(Carrying(S)) /\ chunk \in Seq(Carrying(S))
      /\ <<>> \in Seq(Carrying(S)) /\ <<>> \in Seq(S)
  BY EmptySeq DEF Coming
<1>2. ASSUME owed' \in Seq(S), line' \in Seq(Carrying(S)), chunk' \in {chunk, <<>>},
             pc' # "reply" \/ UNCHANGED <<pc, received>>
      PROVE  Coming(S)'
  BY <1>1, <1>2 DEF Coming
<1>3. ASSUME pc \in {"write", "reply"}, ~Unencodable(outbound), NcpTakes(outbound)
      PROVE  owed' \in Seq(S) /\ line' \in Seq(Carrying(S))
  BY <1>1, <1>3, TakesCarrying
<1>4. CASE Write
  <2>1. /\ pc = "write" /\ pc' # "reply" /\ chunk' \in {chunk, <<>>}
        /\ (~Unencodable(outbound) /\ NcpTakes(outbound)) \/ UNCHANGED ncpVars
    BY <1>4, WriteDoes
  <2> QED BY <1>1, <1>2, <1>3, <2>1 DEF ncpVars
<1>5. CASE Reply
  <2>1. /\ pc = "reply" /\ pc' # "reply" /\ chunk' \in {chunk, <<>>}
        /\ (~Unencodable(outbound) /\ NcpTakes(outbound)) \/ UNCHANGED ncpVars
    BY <1>5, ReplyDoes, PumpEndsDoes
  <2> QED BY <1>1, <1>2, <1>3, <2>1 DEF ncpVars
<1>6. CASE PumpReturns \/ PumpTimeout \/ ConnectReturns \/ AppPolls \/ AppTakesCallbacks
  <2>1. chunk' \in {chunk, <<>>} /\ UNCHANGED <<line, owed>> /\ (pc' # "reply" \/ UNCHANGED <<pc, received>>)
    BY <1>6, PumpReturnsDoes, PumpEndsDoes
       DEF PumpTimeout, ConnectReturns, AppPolls, AppTakesCallbacks, taskVars, ncpVars, connVars
  <2> QED BY <1>1, <1>2, <2>1
<1>7. CASE Asks
  <2>1. PICK frame_id \in Commands \cup {"version"}, desired \in Versions : StartCommand(frame_id, desired)
    BY <1>7 DEF Asks
  <2>2. chunk' \in {chunk, <<>>} /\ UNCHANGED ncpVars /\ pc' # "reply"
    BY <2>1, StartCommandDoes
  <2> QED BY <1>1, <1>2, <2>2 DEF ncpVars
<1>8. CASE PumpRead
  <2>1. PICK n \in 1 .. MaxChunk :
           n <= Len(line) /\ chunk' = SubSeq(line, 1, n) /\ line' = SubSeq(line, n + 1, Len(line))
    BY <1>8 DEF PumpRead
  <2>2. n \in 1 .. Len(line)
    BY <2>1, NcpAssumption DEF NcpInv, LineOK
  <2>3. chunk' \in Seq(Carrying(S)) /\ line' \in Seq(Carrying(S))
    BY <1>1, <2>1, <2>2, PartsOver
  <2>4. UNCHANGED owed /\ pc' = "consume"
    BY <1>8 DEF PumpRead
  <2> QED BY <1>1, <2>3, <2>4 DEF Coming
<1>9. CASE Consume
  <2>1. chunk' = Tail(chunk) /\ chunk # <<>> /\ UNCHANGED <<line, owed>>
    BY <1>9 DEF Consume, ncpVars, NcpInv, TaskOK
  <2>2. chunk' \in Seq(Carrying(S)) /\ Head(chunk) \in Carrying(S)
    BY <1>1, <2>1, PartsOver
  <2>3. in_flight \in Seq(InFlight) /\ ConnInv'
    BY DEF NcpInv, ConnInv, TypeOK
  <2>4. in_flight \in Seq(Holding(Payload))
    <3>1. InFlight \subseteq Holding(Payload)
      BY DEF InFlight, Holding
    <3>2. \A i \in 1 .. Len(in_flight) : in_flight[i] \in Holding(Payload)
      BY <2>3, <3>1
    <3> QED BY <2>3, <3>2, SeqOver
  <2>5. received' # <<>> => received'[1] \in S
    BY <1>9, <2>2, <2>3, <2>4, ConsumeHolding DEF Carrying
  <2> QED BY <1>1, <2>1, <2>2, <2>5 DEF Coming
<1>10. CASE NcpAnswers
  <2>1. owed # <<>> /\ owed' = Tail(owed) /\ NcpSends(Head(owed)) /\ UNCHANGED <<chunk, pc, received>> /\ LineOK
    BY <1>10 DEF NcpAnswers, taskVars, connVars, NcpInv
  <2>2. Head(owed) \in S /\ Tail(owed) \in Seq(S)
    BY <1>1, <2>1, PartsOver
  <2>3. line' \in Seq(Carrying(S))
    BY <1>1, <2>1, <2>2, SendsCarrying
  <2> QED BY <1>2, <2>1, <2>2, <2>3
<1>11. CASE NcpCallsBack
  <2>1. PICK frame \in EventFrames : NcpSends(frame)
    BY <1>11, CallbackTells
  <2>2. frame \in S /\ frame \in EzspFrames /\ LineOK
    BY DEF EventFrames, Unmatched, NcpInv
  <2>3. line' \in Seq(Carrying(S))
    BY <1>1, <2>1, <2>2, SendsCarrying
  <2>4. UNCHANGED <<chunk, owed, pc, received>>
    BY <1>11 DEF NcpCallsBack, taskVars, connVars
  <2> QED BY <1>1, <1>2, <2>3, <2>4
<1>12. CASE NcpSurprises
  <2>1. UNCHANGED <<chunk, pc, received>>
    BY <1>12 DEF NcpSurprises, taskVars, connVars
  <2>2. PICK f \in {RstAck, ErrorFrame} \cup {Rejected(b) : b \in BOOLEAN} :
           line' = Append(line, f) /\ owed' \in {owed, <<>>}
    BY <1>12 DEF NcpSurprises, NcpFails, NcpTakesRst, Noise
  <2>3. f \in Carrying(S)
    BY <2>2, ControlFrames
  <2>4. line' \in Seq(Carrying(S))
    BY <1>1, <2>2, <2>3, AppendType
  <2> QED BY <1>1, <1>2, <2>1, <2>2, <2>4
<1> QED
  BY <1>4, <1>5, <1>6, <1>7, <1>8, <1>9, <1>10, <1>11, <1>12 DEF Step

\* The host hears of a restart: nothing behind the news is an answer it would take.
LEMMA HearsRestart ==
    ASSUME NcpInv, NcpInv', RestartsLast, Consume, Head(chunk).kind = "RstAck" PROVE Deaf'
<1>1. PICK c, l, A, B : c = chunk /\ l = line /\ A = Restarts /\ B = Carrying(Unmatched)
  OBVIOUS
<1>2. c \in Seq(LineFrames) /\ l \in Seq(LineFrames) /\ c # <<>> /\ InOrder(c, l, A, B)
  BY <1>1 DEF NcpInv, LineOK, TaskOK, Consume, RestartsLast
<1>3. Head(c) \in A
  <2>1. Head(c) \in LineFrames
    BY <1>2, PartsOver
  <2> QED BY <1>1, <2>1 DEF Restarts
<1>4. Tail(c) \in Seq(B) /\ l \in Seq(B)
  BY <1>2, <1>3, OrderConsume
<1>5. ncp_boot = "fresh"
  <2>1. ~Without(c, l, A)
    BY <1>2, <1>3, WithoutParts
  <2> QED BY <1>1, <2>1 DEF RestartsLast
<1>6. owed \in Seq(Unmatched)
  BY <1>5 DEF RestartsLast
<1>7. chunk' = Tail(chunk) /\ UNCHANGED <<line, owed, ncp_boot>>
  BY DEF Consume, ncpVars
<1>8. received' = <<>>
  <2>1. Head(chunk).kind # "Rejected" /\ Head(chunk).kind # "Data"
    OBVIOUS
  <2>2. on_frame(Head(chunk))
    BY <2>1 DEF Consume
  <2> QED BY <2>2 DEF on_frame, OnRstAck
<1>9. Unmatched' = Unmatched /\ Carrying(Unmatched)' = Carrying(Unmatched)
  BY DEF Unmatched, Carrying
<1>10. owed' \in Seq(Unmatched) /\ line' \in Seq(Carrying(Unmatched)) /\ chunk' \in Seq(Carrying(Unmatched))
  BY <1>1, <1>4, <1>6, <1>7
<1> QED BY <1>5, <1>7, <1>8, <1>9, <1>10 DEF Deaf, Coming

\* What the NCP makes of a command in the set of those on their way is in that set.
LEMMA ReplyStaysIn ==
    ASSUME LineOK, NEW c \in CommandFrames, c.frame_id # "long"
    PROVE  /\ c \in AfterOffer => NcpReply(c) \in AfterOffer
           /\ c \in Numbered => NcpReply(c) \in Numbered
<1>1. PICK r : r = NcpReply(c)
  OBVIOUS
<1>2. /\ r \in EzspFrames /\ r.kind = "Response" /\ r.sequence = c.sequence /\ r.token = c.token
      /\ r.frame_id \in {c.frame_id, "invalid"}
  BY <1>1, ReplyNumbered
<1>3. CASE r.frame_id = "invalid"
  <2>1. r \in Unmatched
    BY <1>2, <1>3 DEF Unmatched
  <2>2. r \in AfterOffer
    BY <2>1 DEF AfterOffer
  <2> QED BY <1>1, <2>1, <2>2 DEF Numbered
<1>4. CASE r.frame_id # "invalid"
  <2>1. r.frame_id = c.frame_id /\ c.frame_id # "invalid"
    BY <1>2, <1>4
  <2>2. c \notin Unmatched
    BY <2>1 DEF Unmatched, CommandFrames
  <2>3. r \in NotLong
    BY <1>2, <2>1 DEF NotLong
  <2>4. c \in AfterOffer => r \in AfterOffer
    BY <1>2, <2>2, <2>3 DEF AfterOffer
  <2>5. c \in Numbered => r \in Numbered
    BY <1>2, <2>1, <2>2, <2>4 DEF Numbered
  <2> QED BY <1>1, <2>4, <2>5
<1> QED BY <1>3, <1>4

\* After a restart the NCP has nothing to say that a command would take.
LEMMA DeafGoesOn ==
    ASSUME NcpInv, NcpInv', TaskInOrder, op # "reset", AsksExtended, RestartsLast, Deaf,
           faults = 0, faults' = 0, Step
    PROVE  Deaf'
<1>1. PICK S : S = Unmatched
  OBVIOUS
<1>2. Coming(S) /\ Unmatched \subseteq S /\ S \subseteq EzspFrames /\ LineOK
  BY <1>1 DEF Deaf, Unmatched, NcpInv
<1>3. ASSUME outbound.kind = "Data" PROVE NcpReply(outbound.payload) \in S
  <2>1. PICK c : c = outbound.payload
    OBVIOUS
  <2>2. c \in CommandFrames /\ c.format = "Extended"
    BY <1>3, <2>1 DEF AsksExtended, ExtendedCommands
  <2>3. NcpReply(c) \in EzspFrames /\ NcpReply(c).frame_id = "invalid"
    BY <1>2, <2>2, ReplyNumbered DEF Deaf
  <2> QED BY <1>1, <2>1, <2>3 DEF Unmatched
<1>4. Coming(S)'
  BY <1>2, <1>3, ComingGoesOn
<1>5. Coming(Unmatched)'
  BY <1>1, <1>4 DEF Coming, Unmatched, Carrying
<1>6. ncp_boot' = "fresh"
  <2>1. outbound.kind = "Rst" => pc \notin {"write", "reply"}
    BY DEF TaskInOrder
  <2>2. CASE Write \/ Reply
    <3>1. pc \in {"write", "reply"} /\ (NcpTakes(outbound) \/ UNCHANGED ncpVars) /\ chunk' \in {chunk, <<>>}
      BY <2>2, WriteDoes, ReplyDoes, PumpEndsDoes
    <3> QED BY <2>1, <3>1, TakesRestarts DEF ncpVars, Deaf
  <2>3. CASE Asks
    <3>1. PICK frame_id \in Commands \cup {"version"}, desired \in Versions : StartCommand(frame_id, desired)
      BY <2>3 DEF Asks
    <3> QED BY <3>1, StartCommandDoes DEF ncpVars, Deaf
  <2>4. CASE PumpReturns \/ PumpTimeout \/ PumpRead \/ Consume \/ ConnectReturns \/ AppPolls \/ AppTakesCallbacks
    <3>1. UNCHANGED ncp_boot
      BY <2>4, PumpReturnsDoes
         DEF PumpTimeout, PumpRead, Consume, ConnectReturns, AppPolls, AppTakesCallbacks, ncpVars
    <3> QED BY <3>1 DEF Deaf
  <2>5. CASE NcpAnswers \/ NcpCallsBack \/ NcpSurprises
    BY <2>5 DEF NcpAnswers, NcpCallsBack, NcpSurprises, NcpFails, NcpTakesRst, Noise, Deaf
  <2> QED BY <2>2, <2>3, <2>4, <2>5 DEF Step
<1> QED BY <1>5, <1>6 DEF Deaf

-----------------------------------------------------------------------------
(* The numbers on their way *)

\* The commands on their way, and what comes back.
LEMMA AroundGoesOn ==
    ASSUME NcpInv, NcpInv', TaskInOrder, NEW S, Unmatched \subseteq S, S \subseteq EzspFrames, Around(S),
           \A c \in CommandFrames : c \in S /\ c.frame_id # "long" => NcpReply(c) \in S,
           faults = 0, faults' = 0, Step, ~Asks
    PROVE  Around(S)'
<1>1. Coming(S) /\ in_flight \in Seq(Holding(S)) /\ (outbound.kind = "Data" => outbound.payload \in S)
  BY DEF Around
<1>2. outbound.kind = "Data" /\ ~Unencodable(outbound) => NcpReply(outbound.payload) \in S
  BY <1>1 DEF Unencodable, NcpInv, PayloadsOK
<1>3. Coming(S)'
  BY <1>1, <1>2, ComingGoesOn
<1>4. in_flight' \in Seq(Holding(S)) /\ (outbound'.kind = "Data" => outbound'.payload \in S)
  <2>1. CASE Consume
    <3>1. ConnInv'
      BY DEF NcpInv
    <3> QED BY <1>1, <2>1, <3>1, ConsumeHolding
  <2>2. CASE ~Consume
    <3>1. UNCHANGED <<in_flight, outbound>>
      BY <2>2, ConnectionStays DEF connVars
    <3> QED BY <1>1, <3>1
  <2> QED BY <2>1, <2>2
<1> QED BY <1>3, <1>4 DEF Around

\* In a larger set.
LEMMA AroundMore ==
    ASSUME NEW S, NEW T, S \subseteq T, Around(S)' PROVE Around(T)'
<1>1. Carrying(S) \subseteq Carrying(T) /\ Holding(S) \subseteq Holding(T)
  BY CarryingMono
<1>2. /\ Seq(Carrying(S)) \subseteq Seq(Carrying(T))
      /\ Seq(Holding(S)) \subseteq Seq(Holding(T)) /\ Seq(S) \subseteq Seq(T)
  BY <1>1
<1> QED BY <1>2 DEF Around, Coming

\* A link that is down does not come up but by a RSTACK.
LEMMA StaysDown ==
    ASSUME NcpInv, Consume, Head(chunk).kind # "RstAck", ~is_connected PROVE ~is_connected'
<1>1. CASE Head(chunk).kind = "Rejected"
  BY <1>1 DEF Consume, on_decode_failure, is_connected
<1>2. CASE Head(chunk).kind # "Rejected"
  <2>1. on_frame(Head(chunk))
    BY <1>2 DEF Consume
  <2> QED BY <2>1 DEF on_frame, OnError, OnAck, OnNak, OnRst, OnData, RetransmitOldest, is_connected
<1> QED BY <1>1, <1>2

\* Nothing is sent on it.
LEMMA SendsNothing ==
    ASSUME NEW p, send_data(p), ~is_connected
    PROVE  outbound'.kind = "NotConnected" /\ UNCHANGED <<in_flight, phase>>
BY DEF send_data, SendDataRefused, NotConnected, is_connected

\* The numbers that started again meet none on their way, until the link is up again.
LEMMA RenumberedGoesOn ==
    ASSUME NcpInv, NcpInv', TaskInOrder, VersionsAreTrue, op # "reset", faults = 0, faults' = 0,
           AsksExtended, RestartsLast, NumbersLast, OwnResponse, LongBlocks, Renumbered, Step
    PROVE  Renumbered' \/ Deaf'
<1>1. PICK S : S = AfterOffer
  OBVIOUS
<1>2. Around(S) /\ Unmatched \subseteq S /\ S \subseteq EzspFrames /\ LineOK
  BY <1>1 DEF Renumbered, AfterOffer, Unmatched, NotLong, NcpInv
<1>3. ASSUME Around(S)' PROVE Around(AfterOffer)'
  BY <1>1, <1>3 DEF Around, Coming, Carrying, Holding, AfterOffer, Unmatched, NotLong
<1>4. CASE Consume /\ Head(chunk).kind = "RstAck"
  BY <1>4, HearsRestart
<1>5. CASE ~Asks /\ ~(Consume /\ Head(chunk).kind = "RstAck")
  <2>1. \A c \in CommandFrames : c \in S /\ c.frame_id # "long" => NcpReply(c) \in S
    BY <1>1, <1>2, ReplyStaysIn
  <2>2. Around(S)'
    BY <1>2, <1>5, <2>1, AroundGoesOn
  <2>3. op # "command" /\ ~is_connected
    BY DEF Renumbered
  <2>4. Unseen \/ Refused
    BY <1>5, <2>3, StepSeen DEF Matched, HandedOver, GivenUp
  <2>5. op' # "command" /\ UNCHANGED corrVars
    BY <2>3, <2>4 DEF Unseen, Refused
  <2>6. ~is_connected'
    <3>1. CASE Consume
      BY <1>5, <2>3, <3>1, StaysDown
    <3>2. CASE ~Consume
      BY <1>5, <2>3, <3>2, ConnectionStays DEF connVars, is_connected
    <3> QED BY <3>1, <3>2
  <2> QED BY <1>3, <2>2, <2>5, <2>6 DEF Renumbered, corrVars
<1>6. CASE Asks
  <2>1. PICK frame_id \in Commands \cup {"version"}, desired \in Versions : StartCommand(frame_id, desired)
    BY <1>6 DEF Asks
  <2>2. pc = "idle" /\ ~is_connected
    BY <2>1, StartCommandDoes DEF Renumbered
  <2>3. UNCHANGED connVars \/ send_data(Sent(frame_id, desired))
    BY <2>1, StartCommandDoes
  <2>4. /\ ~is_connected' /\ UNCHANGED in_flight
        /\ (outbound'.kind = "NotConnected") \/ UNCHANGED outbound
    BY <2>2, <2>3, SendsNothing DEF connVars, is_connected
  <2>5. op' = "none"
    <3>1. \/ op' = "none"
          \/ outbound'.kind = "Data" /\ send_data(Sent(frame_id, desired))
      BY <2>1, StartCommandDoes
    <3> QED BY <2>2, <3>1, SendsNothing
  <2>6. Coming(S)'
    BY <1>2, <2>2, ComingGoesOn DEF Around
  <2>7. Around(S)'
    BY <1>2, <2>4, <2>6 DEF Around
  <2>8. IF pending' = <<>> THEN next_sequence_number' = 0 ELSE pending'[1].sequence = 0
    <3>1. CASE UNCHANGED corrVars
      BY <3>1 DEF Renumbered, corrVars
    <3>2. CASE ~UNCHANGED corrVars
      <4>1. pending = <<>> /\ pending' = <<[sequence |-> next_sequence_number, frame_id |-> frame_id]>>
        BY <2>1, <3>2, StartCommandDoes
      <4>2. pending' # <<>> /\ pending'[1].sequence = next_sequence_number
        BY <4>1
      <4> QED BY <4>1, <4>2 DEF Renumbered
    <3> QED BY <3>1, <3>2
  <2> QED BY <1>3, <2>4, <2>5, <2>7, <2>8 DEF Renumbered
<1> QED BY <1>4, <1>5, <1>6

\* What is on its way before a step carries numbers that are right after it.
LEMMA CountingFrom ==
    ASSUME NEW S, Around(S)', S \subseteq Numbered', pending' # <<>> => pending'[1].sequence >= 1,
           pending' = <<>> /\ issued' < SEQUENCE_SPACE => next_sequence_number' >= 1
    PROVE  Counting'
<1>1. PICK T : T = Numbered'
  OBVIOUS
<1>2. Around(T)'
  BY <1>1, AroundMore
<1>3. Around(Numbered)'
  BY <1>1, <1>2 DEF Around, Coming, Carrying, Holding
<1> QED BY <1>3 DEF Counting

\* The outstanding command is done with: its number is below the next one.
LEMMA NumberIsDone ==
    ASSUME NcpInv, NumbersLast, Counting, pending # <<>>, pending' = <<>>, UNCHANGED <<next_sequence_number, issued>>
    PROVE  Numbered \subseteq Numbered' /\ (issued < SEQUENCE_SPACE => next_sequence_number >= 1)
<1>1. PICK n : n = pending[1].sequence
  OBVIOUS
<1>2. /\ n \in Nat /\ n >= 1 /\ n < issued /\ issued \in Nat /\ SEQUENCE_SPACE \in Nat
      /\ next_sequence_number = (n + 1) % SEQUENCE_SPACE
  BY <1>1, SequenceSpaceAssumption, NcpAssumption
     DEF NcpInv, CountersOK, CorrInv, CorrTypeOK, PendingIsLatest, Sequence, Pending, Counting, NumbersLast
<1>3. issued < SEQUENCE_SPACE => next_sequence_number = n + 1
  BY <1>2
<1>4. ASSUME NEW p \in Numbered PROVE p \in Numbered'
  <2>1. p \in AfterOffer /\ (p \notin Unmatched => p.sequence <= n)
    BY <1>1, <1>4 DEF Numbered
  <2>2. p \in AfterOffer' /\ (p \in Unmatched <=> p \in Unmatched')
    BY <2>1 DEF AfterOffer, Unmatched, NotLong
  <2>3. p \notin Unmatched => p.sequence \in Nat
    BY <2>1, NcpAssumption, SequenceSpaceAssumption DEF AfterOffer, NotLong, EzspFrames, Sequence
  <2>4. p \notin Unmatched /\ issued < SEQUENCE_SPACE => p.sequence < next_sequence_number
    BY <1>2, <1>3, <2>1, <2>3
  <2> QED BY <2>2, <2>4 DEF Numbered
<1> QED BY <1>2, <1>3, <1>4

\* Nothing changes for the numbers when only op does, unless command gives up its own.
LEMMA NumbersStay ==
    ASSUME UNCHANGED corrVars, issued' = issued \/ (issued' = issued + 1 /\ issued \in Nat),
           SEQUENCE_SPACE \in Nat, pending = <<>> \/ issued' = issued \/ op # "command",
           op' = "command" \/ op # "command" \/ pending = <<>> \/ pending[1].frame_id = "long"
    PROVE  Numbered \subseteq Numbered'
<1>1. UNCHANGED <<pending, next_sequence_number>> /\ (issued' < SEQUENCE_SPACE => issued < SEQUENCE_SPACE)
  BY DEF corrVars
<1>2. SUFFICES ASSUME NEW p \in Numbered PROVE p \in Numbered'
  OBVIOUS
<1>3. p \in AfterOffer' /\ (p \in Unmatched <=> p \in Unmatched') /\ (p \notin Unmatched => p.frame_id # "long")
  BY <1>2 DEF Numbered, AfterOffer, Unmatched, NotLong
<1>4. CASE pending = <<>>
  BY <1>1, <1>2, <1>3, <1>4 DEF Numbered
<1>5. CASE pending # <<>>
  <2>1. p \notin Unmatched =>
           /\ p.sequence <= pending[1].sequence
           /\ p.sequence = pending[1].sequence =>
                 op = "command" /\ p.token = issued /\ p.frame_id = pending[1].frame_id
    BY <1>2, <1>5 DEF Numbered
  <2>2. p \notin Unmatched /\ p.sequence = pending[1].sequence => op' = "command" /\ issued' = issued
    BY <1>3, <1>5, <2>1
  <2> QED BY <1>1, <1>3, <1>5, <2>1, <2>2 DEF Numbered
<1> QED BY <1>4, <1>5

\* Under every step but a call of command.
LEMMA CountingWaits ==
    ASSUME NcpInv, NcpInv', TaskInOrder, VersionsAreTrue, op # "reset", faults = 0, faults' = 0,
           NumbersLast, OwnResponse, LongBlocks, Counting, Step, ~Asks
    PROVE  Counting' \/ Renumbered'
<1>1. PICK S : S = Numbered
  OBVIOUS
<1>2. Around(S) /\ Unmatched \subseteq S /\ S \subseteq EzspFrames /\ S \subseteq AfterOffer /\ LineOK
  BY <1>1 DEF Counting, Numbered, AfterOffer, Unmatched, NotLong, NcpInv
<1>3. \A c \in CommandFrames : c \in S /\ c.frame_id # "long" => NcpReply(c) \in S
  BY <1>1, <1>2, ReplyStaysIn
<1>4. Around(S)'
  BY <1>2, <1>3, AroundGoesOn
<1>5. UNCHANGED issued /\ (Unseen \/ Refused \/ Matched \/ HandedOver \/ GivenUp)
  BY StepSeen
<1>6. issued \in Nat /\ SEQUENCE_SPACE \in Nat
  BY SequenceSpaceAssumption, NcpAssumption DEF NcpInv, CountersOK
<1>7. ASSUME S \subseteq Numbered', UNCHANGED corrVars PROVE Counting'
  BY <1>4, <1>5, <1>7, CountingFrom DEF Counting, corrVars
<1>8. CASE Unseen
  <2>1. UNCHANGED corrVars /\ (op' = "command" \/ op # "command")
    BY <1>8 DEF Unseen
  <2> QED BY <1>1, <1>5, <1>6, <1>7, <2>1, NumbersStay
<1>9. CASE Refused
  <2>1. UNCHANGED corrVars /\ pc = "write" /\ Unencodable(outbound)
    BY <1>9 DEF Refused
  <2>2. op = "command" => pending[1].frame_id = "long"
    BY <2>1 DEF LongBlocks, Unencodable
  <2> QED BY <1>1, <1>5, <1>6, <1>7, <2>1, <2>2, NumbersStay
<1>10. CASE HandedOver
  <2>1. UNCHANGED corrVars /\ pending = <<>>
    BY <1>10 DEF HandedOver, OwnResponse
  <2> QED BY <1>1, <1>5, <1>6, <1>7, <2>1, NumbersStay
<1>11. ASSUME pending # <<>>, pending' = <<>>, UNCHANGED next_sequence_number PROVE Counting'
  <2>1. S \subseteq Numbered' /\ (issued < SEQUENCE_SPACE => next_sequence_number >= 1)
    BY <1>1, <1>5, <1>11, NumberIsDone
  <2> QED BY <1>4, <1>5, <1>11, <2>1, CountingFrom
<1>12. CASE Matched
  BY <1>11, <1>12 DEF Matched
<1>13. CASE GivenUp
  <2>1. pending # <<>> /\ pending' = <<>>
    BY <1>13 DEF GivenUp, NcpInv, CommandAwaits
  <2>2. CASE UNCHANGED next_sequence_number
    BY <1>11, <2>1, <2>2
  <2>3. CASE ~is_connected /\ next_sequence_number' = 0
    <3>1. ~is_connected' /\ op' = "none"
      BY <1>13, <2>3 DEF GivenUp, is_connected, connVars
    <3>2. PICK T : T = AfterOffer
      OBVIOUS
    <3>3. Around(T)'
      BY <1>2, <1>4, <3>2, AroundMore
    <3>4. Around(AfterOffer)'
      BY <3>2, <3>3 DEF Around, Coming, Carrying, Holding, AfterOffer, Unmatched, NotLong
    <3> QED BY <2>1, <2>3, <3>1, <3>4 DEF Renumbered
  <2> QED BY <1>13, <2>2, <2>3 DEF GivenUp
<1> QED BY <1>5, <1>8, <1>9, <1>10, <1>12, <1>13

\* A command takes the next number, which no frame on its way has.
LEMMA CountingAsks ==
    ASSUME NcpInv, NcpInv', TaskInOrder, faults = 0, faults' = 0, NEW frame_id \in Commands \cup {"version"},
           NEW desired \in Versions, StartCommand(frame_id, desired),
           NEW S, S = Numbered, Counting, Coming(S)', issued' <= SEQUENCE_SPACE
    PROVE  Counting'
<1>1. /\ Around(S) /\ issued \in Nat /\ SEQUENCE_SPACE \in Nat /\ next_sequence_number \in Nat
      /\ pc = "idle" /\ op = "none" /\ issued' = issued + 1 /\ issued < SEQUENCE_SPACE
  BY SequenceSpaceAssumption, NcpAssumption, StartCommandDoes
     DEF Counting, NcpInv, CountersOK, TaskOK, CorrInv, CorrTypeOK, Sequence
<1>2. /\ in_flight \in Seq(Holding(S)) /\ (outbound.kind = "Data" => outbound.payload \in S)
      /\ S \subseteq AfterOffer /\ ConnInv
  BY <1>1 DEF Around, Numbered, NcpInv
<1>3. CASE UNCHANGED <<connVars, corrVars>>
  <2>1. S \subseteq Numbered'
    BY <1>1, <1>3, NumbersStay
  <2>2. Around(S)'
    BY <1>2, <1>3 DEF Around, connVars
  <2> QED BY <1>1, <1>3, <2>1, <2>2, CountingFrom DEF Counting, corrVars
<1>4. CASE ~UNCHANGED <<connVars, corrVars>>
  <2>1. /\ frame_id # "absent" /\ pending = <<>>
        /\ pending' = <<[sequence |-> next_sequence_number, frame_id |-> frame_id]>>
        /\ UNCHANGED connVars \/ send_data(Sent(frame_id, desired))
    BY <1>4, StartCommandDoes
  <2>2. pending' # <<>> /\ pending'[1].sequence = next_sequence_number /\ pending'[1].frame_id = frame_id
    BY <2>1
  <2>3. next_sequence_number >= 1
    BY <1>1, <2>1 DEF Counting
  <2>4. ASSUME NEW p \in S PROVE p \in Numbered'
    <3>1. p \in AfterOffer /\ (p \notin Unmatched => p.sequence < next_sequence_number)
      BY <1>1, <2>1, <2>4 DEF Numbered
    <3>2. p \in AfterOffer' /\ (p \in Unmatched <=> p \in Unmatched')
      BY <3>1 DEF AfterOffer, Unmatched, NotLong
    <3>3. p \notin Unmatched => p.sequence \in Nat
      BY <3>1, NcpAssumption, SequenceSpaceAssumption DEF AfterOffer, NotLong, EzspFrames, Sequence
    <3>4. p \notin Unmatched => p.sequence <= pending'[1].sequence /\ p.sequence # pending'[1].sequence
      BY <1>1, <2>2, <3>1, <3>3
    <3> QED BY <2>2, <3>2, <3>4 DEF Numbered
  <2>5. ASSUME UNCHANGED in_flight, outbound'.kind = "Data" => UNCHANGED outbound PROVE Counting'
    <3>1. Around(S)'
      BY <1>2, <2>5 DEF Around
    <3> QED BY <2>2, <2>3, <2>4, <3>1, CountingFrom
  <2>6. CASE op' = "command" /\ outbound'.kind = "Data" /\ send_data(Sent(frame_id, desired))
    <3>1. PICK c : c = Sent(frame_id, desired)
      OBVIOUS
    <3>2. /\ c \in CommandFrames /\ c \in Payload /\ c.frame_id = frame_id /\ c.token = issued'
          /\ c.sequence = next_sequence_number /\ c.kind = "Command" /\ c \in EzspFrames
      BY <1>1, <2>1, <3>1, SentType DEF Sent, Ezsp, CommandFrames
    <3>3. op' = "command"
      BY <2>6
    <3>4. c \in Numbered'
      <4>1. CASE frame_id = "long"
        <5>1. c \in Unmatched'
          BY <3>2, <4>1 DEF Unmatched
        <5> QED BY <5>1 DEF Numbered, AfterOffer
      <4>2. CASE frame_id # "long"
        <5>1. c \in NotLong' /\ c.sequence >= 1
          BY <2>3, <3>2, <4>2 DEF NotLong
        <5>2. c \in AfterOffer'
          BY <5>1 DEF AfterOffer
        <5>3. c.sequence <= pending'[1].sequence
          BY <1>1, <2>2, <3>2
        <5> QED BY <2>2, <3>2, <3>3, <5>2, <5>3 DEF Numbered
      <4> QED BY <4>1, <4>2
    <3>5. PICK T : T = S \cup {c}
      OBVIOUS
    <3>6. c \in T /\ T \subseteq Numbered' /\ S \subseteq T
      BY <2>4, <3>4, <3>5
    <3>7. in_flight \in Seq(Holding(T))
      <4>1. Holding(S) \subseteq Holding(T)
        BY <3>6, CarryingMono
      <4> QED BY <1>2, <4>1, SeqMonotonic
    <3>8. in_flight' \in Seq(Holding(T)) /\ (outbound'.kind = "Data" => outbound'.payload \in T)
      BY <1>2, <2>6, <3>1, <3>2, <3>6, <3>7, SendDataHolding
    <3>9. Coming(T)'
      <4>1. Carrying(S) \subseteq Carrying(T)
        BY <3>6, CarryingMono
      <4>2. Seq(Carrying(S)) \subseteq Seq(Carrying(T)) /\ Seq(S) \subseteq Seq(T)
        BY <3>6, <4>1
      <4> QED BY <3>6, <4>2 DEF Coming
    <3>10. Around(T)'
      BY <3>8, <3>9 DEF Around
    <3> QED BY <2>2, <2>3, <3>6, <3>10, CountingFrom
  <2>7. CASE outbound'.kind # "Data" /\ send_data(Sent(frame_id, desired))
    <3>1. UNCHANGED in_flight
      BY <2>7 DEF send_data, SendDataRefused, SendDataAccepted, Data
    <3> QED BY <2>5, <2>7, <3>1
  <2>8. CASE UNCHANGED connVars
    BY <2>5, <2>8 DEF connVars
  <2>9. UNCHANGED connVars \/ (send_data(Sent(frame_id, desired)) /\ (outbound'.kind # "Data" \/ op' = "command"))
    BY DEF StartCommand, Sent
  <2> QED BY <2>6, <2>7, <2>8, <2>9
<1> QED BY <1>3, <1>4

\* Whatever is on its way, no command takes another's answer after the next step either.
LEMMA NextModes ==
    ASSUME NcpInv, NcpInv', TaskInOrder, VersionsAreTrue, op # "reset", faults = 0, faults' = 0,
           AsksExtended, RestartsLast, NumbersLast, OwnResponse, LongBlocks, Counting \/ Renumbered \/ Deaf,
           Step, issued' <= SEQUENCE_SPACE
    PROVE  Counting' \/ Renumbered' \/ Deaf'
<1>1. CASE Deaf
  BY <1>1, DeafGoesOn
<1>2. CASE Renumbered
  BY <1>2, RenumberedGoesOn
<1>3. CASE Counting /\ ~Asks
  BY <1>3, CountingWaits
<1>4. CASE Counting /\ Asks
  <2>1. PICK frame_id \in Commands \cup {"version"}, desired \in Versions : StartCommand(frame_id, desired)
    BY <1>4 DEF Asks
  <2>2. PICK S : S = Numbered
    OBVIOUS
  <2>3. Coming(S) /\ Unmatched \subseteq S /\ S \subseteq EzspFrames /\ pc = "idle"
    BY <1>4, <2>1, <2>2, StartCommandDoes DEF Counting, Around, Numbered, AfterOffer, Unmatched, NotLong
  <2>4. Coming(S)'
    BY <2>3, ComingGoesOn
  <2> QED BY <1>4, <2>1, <2>2, <2>4, CountingAsks
<1> QED BY <1>1, <1>2, <1>3, <1>4

-----------------------------------------------------------------------------
(* The first exchange *)

\* The RSTACKs of connect's reset come before everything else.
LEMMA FirstOrder ==
    ASSUME NcpInv, TaskInOrder, UnderWay, Writing \/ Waiting \/ Accepted \/ Got,
           InOrder(chunk, line, Others, Others), faults = 0, faults' = 0,
           Write \/ PumpReturns \/ PumpRead \/ Consume \/ Reply \/ NcpAnswers \/ NcpCallsBack
    PROVE  /\ InOrder(chunk', line', Others, Others)
           /\ Without(chunk, line, Restarts) => Without(chunk', line', Restarts)
           /\ Consume /\ Head(chunk).kind = "Data" => Without(chunk', line', Restarts)
<1>1. PICK c, l, A, R : c = chunk /\ l = line /\ A = Others /\ R = Restarts
  OBVIOUS
<1>2. c \in Seq(LineFrames) /\ l \in Seq(LineFrames) /\ InOrder(c, l, A, A)
  BY <1>1 DEF NcpInv, LineOK, TaskOK
<1>3. \A f : f \in A => f \notin R
  BY <1>1 DEF Others, Restarts
<1>4. ASSUME UNCHANGED line, chunk' \in {chunk, <<>>}, ~(Consume /\ Head(chunk).kind = "Data")
      PROVE  /\ InOrder(chunk', line', Others, Others)
             /\ Without(chunk, line, Restarts) => Without(chunk', line', Restarts)
             /\ ~(Consume /\ Head(chunk).kind = "Data")
  <2>1. InOrder(<<>>, l, A, A)
    BY <1>2, OrderDrop
  <2>2. Without(c, l, R) => Without(<<>>, l, R)
    BY <1>2, WithoutParts
  <2>3. chunk' \in {c, <<>>} /\ line' = l
    BY <1>1, <1>4
  <2> QED BY <1>1, <1>2, <1>4, <2>1, <2>2, <2>3
<1>5. ASSUME NEW f \in Others, line' = Append(line, f), UNCHANGED chunk
      PROVE  /\ InOrder(chunk', line', Others, Others)
             /\ Without(chunk, line, Restarts) => Without(chunk', line', Restarts)
  <2>1. InOrder(c, Append(l, f), A, A)
    BY <1>1, <1>2, <1>5, OrderAppend
  <2>2. Without(c, l, R) => Without(c, Append(l, f), R)
    BY <1>1, <1>2, <1>3, <1>5, WithoutParts
  <2> QED BY <1>1, <1>5, <2>1, <2>2
<1>6. Consume => pc = "consume"
  BY DEF Consume
<1>7. CASE Write
  <2>1. pc = "write" /\ (NcpTakes(outbound) \/ UNCHANGED ncpVars) /\ chunk' \in {chunk, <<>>}
        /\ (NcpTakes(outbound) => UNCHANGED chunk \/ UNCHANGED ncpVars)
    BY <1>7, WriteDoes
  <2>2. Writing /\ outbound.kind = "Data"
    <3>1. Writing
      BY <2>1 DEF Waiting, Accepted, Got, NcpInv, TaskOK, UnderWay
    <3> QED BY <3>1 DEF Writing, Data
  <2>3. chunk = <<>>
    BY <2>1 DEF TaskInOrder
  <2>4. CASE UNCHANGED ncpVars
    BY <1>4, <1>6, <2>1, <2>4 DEF ncpVars
  <2>5. CASE NcpTakesData(outbound)
    <3>1. ncp_rx \in SeqNum /\ next_sequence(ncp_rx) \in SeqNum
      BY NextSequence DEF NcpInv, LineOK
    <3>2. \A n \in SeqNum : Ack(n) \in Others /\ Nak(n) \in Others
      <4>1. \A n \in SeqNum : Ack(n).kind # "RstAck" /\ Nak(n).kind # "RstAck"
        BY DEF Ack, Nak
      <4> QED BY <4>1, ControlFrames DEF Others, Carrying
    <3>3. UNCHANGED line \/ \E f \in Others : line' = Append(line, f)
      BY <2>5, <3>1, <3>2 DEF NcpTakesData, ncpVars
    <3>4. UNCHANGED chunk
      BY <2>1, <2>3
    <3> QED BY <1>4, <1>5, <1>6, <2>1, <3>3, <3>4
  <2> QED BY <2>1, <2>2, <2>4, <2>5 DEF NcpTakes
<1>8. CASE PumpReturns
  <2>1. UNCHANGED line /\ chunk' = <<>> /\ pc = "pump"
    BY <1>8, PumpReturnsDoes DEF ncpVars
  <2> QED BY <1>4, <1>6, <2>1
<1>9. CASE Reply
  <2>1. pc = "reply" /\ chunk' \in {chunk, <<>>} /\ (NcpTakes(outbound) \/ UNCHANGED ncpVars)
    BY <1>9, ReplyDoes, PumpEndsDoes
  <2>2. outbound.kind # "Data" /\ outbound.kind # "Rst"
    BY <2>1 DEF Writing, Waiting, Accepted, Got, TaskInOrder, UnderWay
  <2>3. UNCHANGED line
    BY <2>1, <2>2 DEF NcpTakes, ncpVars
  <2> QED BY <1>4, <1>6, <2>1, <2>3
<1>10. CASE PumpRead
  <2>1. PICK n \in 1 .. MaxChunk :
           n <= Len(line) /\ chunk' = SubSeq(line, 1, n) /\ line' = SubSeq(line, n + 1, Len(line))
    BY <1>10 DEF PumpRead
  <2>2. n \in 1 .. Len(l) /\ chunk' = SubSeq(l, 1, n) /\ line' = SubSeq(l, n + 1, Len(l))
    BY <1>1, <2>1, NcpAssumption DEF NcpInv, LineOK
  <2>3. c = <<>> /\ pc = "pump"
    BY <1>1, <1>10 DEF PumpRead, TaskInOrder
  <2>4. InOrder(chunk', line', A, A)
    BY <1>2, <2>2, <2>3, OrderRead
  <2>5. Without(c, l, R) => Without(chunk', line', R)
    BY <1>2, <2>2, WithoutParts
  <2> QED BY <1>1, <1>6, <2>3, <2>4, <2>5
<1>11. CASE Consume
  <2>1. chunk' = Tail(c) /\ c # <<>> /\ line' = l
    BY <1>1, <1>11 DEF Consume, ncpVars, NcpInv, TaskOK
  <2>2. InOrder(chunk', line', A, A) /\ (Head(c) \in A => chunk' \in Seq(A) /\ line' \in Seq(A))
    BY <1>2, <2>1, OrderConsume
  <2>3. Without(c, l, R) => Without(chunk', line', R)
    BY <1>2, <2>1, WithoutParts
  <2>4. ASSUME Head(chunk).kind = "Data" PROVE Without(chunk', line', R)
    <3>1. Head(c) \in LineFrames
      BY <1>2, <2>1, PartsOver
    <3>2. Head(c) \in A
      BY <1>1, <2>4, <3>1 DEF Others
    <3>3. chunk' \in Seq(A) /\ line' \in Seq(A)
      BY <2>2, <3>2
    <3> QED BY <1>3, <3>3 DEF Without
  <2> QED BY <1>1, <2>2, <2>3, <2>4
<1>12. CASE NcpAnswers \/ NcpCallsBack
  <2>1. UNCHANGED <<chunk, pc>>
    BY <1>12 DEF NcpAnswers, NcpCallsBack, taskVars
  <2>2. PICK frame \in EzspFrames : NcpSends(frame)
    <3>1. CASE NcpAnswers
      <4>1. owed # <<>> /\ owed \in Seq(EzspFrames) /\ NcpSends(Head(owed))
        BY <3>1 DEF NcpAnswers, NcpInv, LineOK
      <4> QED BY <4>1, PartsOver
    <3>2. CASE NcpCallsBack
      BY <3>2, CallbackTells DEF EventFrames
    <3> QED BY <1>12, <3>1, <3>2
  <2>3. PICK f : f = Data(ncp_tx, ncp_rx, FALSE, frame)
    OBVIOUS
  <2>4. line' = Append(line, f) /\ f \in Others
    BY <2>2, <2>3 DEF NcpSends, Data, LineFrames, LineData, NcpInv, LineOK, Others
  <2>5. ~Consume
    <3>1. line' # line
      BY <2>4 DEF NcpInv, LineOK
    <3> QED BY <3>1 DEF Consume, ncpVars
  <2> QED BY <1>5, <2>1, <2>4, <2>5
<1> QED BY <1>7, <1>8, <1>9, <1>10, <1>11, <1>12

\* connect's offer, and the RSTACKs that are still to come.
LEMMA OfferCounts ==
    ASSUME NcpInv, NcpInv', TaskInOrder, TaskInOrder', BeforeOffer, ConnectOffers, pc' # "idle" \/ result'.kind = "Ok"
    PROVE  /\ issued' = 1 /\ next_sequence_number' = 1 % SEQUENCE_SPACE /\ response' = <<>>
           /\ InOrder(chunk', line', Others, Others) /\ ~Accepted' /\ ~Got'
<1>1. Writing'
  BY OfferIsFirst
<1>2. pc' = "write" /\ pending' # <<>> /\ response' = <<>> /\ line' \in Seq({RstAck})
  BY <1>1 DEF Writing, FirstPending
<1>3. /\ StartCommand("version", "preferred") /\ "preferred" \in Versions
      /\ next_sequence_number = 0 /\ issued = 0 /\ pending = <<>>
  BY DEF ConnectOffers, Versions, BeforeOffer
<1>4. issued' = 1
  BY <1>3, StartCommandDoes
<1>5. next_sequence_number' = 1 % SEQUENCE_SPACE
  <2>1. begin("version")
    BY <1>2, <1>3 DEF StartCommand, corrVars
  <2>2. next_sequence_number' = (next_sequence_number + 1) % SEQUENCE_SPACE /\ next_sequence_number + 1 = 1
    BY <1>3, <2>1 DEF begin
  <2> QED BY <2>2
<1>6. chunk' = <<>>
  BY <1>2 DEF TaskInOrder
<1>7. InOrder(chunk', line', Others, Others)
  <2>1. \A i \in 1 .. Len(line') : line'[i] = RstAck
    BY <1>2
  <2>2. RstAck \notin Others
    BY DEF RstAck, Others
  <2>3. \A i \in 1 .. Len(line') : line'[i] \notin Others
    BY <2>1, <2>2
  <2> QED BY <1>6, <2>3 DEF InOrder
<1>8. ~Accepted' /\ ~Got'
  BY <1>2 DEF Accepted, Got
<1> QED BY <1>2, <1>4, <1>5, <1>7, <1>8

\* A step leaves the numbers of the first exchange alone, unless that fails.
LEMMA FirstNumbersStay ==
    ASSUME NcpInv, TaskInOrder, VersionsAreTrue, UnderWay, Writing \/ Waiting \/ Accepted \/ Got,
           response # <<>> => response[1].token = 1, faults = 0, faults' = 0,
           Write \/ PumpReturns \/ PumpRead \/ Consume \/ Reply \/ NcpAnswers \/ NcpCallsBack,
           pc' # "idle" \/ result'.kind = "Ok"
    PROVE  UNCHANGED <<issued, next_sequence_number>> /\ (response' # <<>> => response'[1].token = 1)
<1>1. CASE Write \/ PumpRead \/ Consume \/ NcpAnswers \/ NcpCallsBack
  BY <1>1 DEF Write, PumpRead, Consume, NcpAnswers, NcpCallsBack, hostVars, corrVars, boundVars
<1>2. CASE PumpReturns
  <2>1. pc' = "idle" /\ result'.kind = "Ok" /\ UNCHANGED issued
    BY <1>2, PumpReturnsDoes DEF boundVars
  <2>2. op = "command" /\ response # <<>> /\ response' = <<>> /\ UNCHANGED corrVars
    <3>1. op \in {"command", "none"}
      BY DEF UnderWay
    <3> QED BY <1>2, <2>1, <3>1, PumpReturnsDoes
  <2> QED BY <2>1, <2>2 DEF corrVars
<1>3. CASE Reply
  <2>1. /\ pc = "reply" /\ UNCHANGED issued
        /\ \/ received = <<>> /\ UNCHANGED <<corrVars, hostVars>>
           \/ received # <<>> /\ dispatch(received[1])
           \/ PumpEnds("TooLong")
    BY <1>3, ReplyDoes
  <2>2. ~PumpEnds("TooLong")
    <3>1. op \in {"command", "none"} /\ op # "none"
      BY <2>1 DEF UnderWay, NcpInv, TaskOK
    <3>2. PumpEnds("TooLong") => pc' = "idle" /\ result'.kind # "Ok"
      BY <3>1, PumpEndsDoes
    <3> QED BY <3>2
  <2>3. CASE received = <<>> /\ UNCHANGED <<corrVars, hostVars>>
    BY <2>1, <2>3 DEF corrVars, hostVars
  <2>4. CASE received # <<>> /\ dispatch(received[1])
    <3>1. PICK frame : frame = received[1] /\ frame \in EzspFrames
      BY <2>4 DEF NcpInv, PayloadsOK
    <3>2. PICK format : dispatch(frame) <=> File(parse(frame, format))
      BY DEF dispatch
    <3>3. PICK p : p = parse(frame, format)
      OBVIOUS
    <3>4. p.kind = frame.kind /\ p.token = frame.token
      BY <3>1, <3>3, ParseKeepsToken
    <3>5. File(p)
      BY <2>4, <3>1, <3>2, <3>3
    <3>6. CASE Classified(p) # "Response"
      BY <2>1, <3>5, <3>6 DEF File, classify
    <3>7. CASE Classified(p) = "Response"
      <4>1. frame.kind = "Response"
        BY <3>4, <3>7 DEF Classified
      <4>2. Accepted
        BY <2>1, <2>4, <3>1, <4>1 DEF Writing, Waiting, Got
      <4>3. frame = FirstAnswer(ncp_version)
        BY <3>1, <4>2 DEF Accepted
      <4>4. frame.token = 1
        BY <4>3 DEF FirstAnswer, Ezsp
      <4>5. response' = <<p>> /\ UNCHANGED next_sequence_number
        BY <3>5, <3>7 DEF File, classify
      <4>6. response'[1] = p
        BY <4>5
      <4> QED BY <2>1, <3>4, <4>4, <4>5, <4>6
    <3> QED BY <3>6, <3>7
  <2> QED BY <2>1, <2>2, <2>3, <2>4
<1> QED BY <1>1, <1>2, <1>3

\* Under every step.
LEMMA NextFirstCounts ==
    ASSUME NcpInv, NcpInv', ConnectInv, ConnectInv', FirstCounts, NcpNext PROVE FirstCounts'
<1> USE DEF ConnectInv
<1>1. SUFFICES ASSUME Undisturbed', connecting' = "first", pc' # "idle" \/ result'.kind = "Ok"
               PROVE  /\ issued' = 1 /\ next_sequence_number' = 1 % SEQUENCE_SPACE
                      /\ response' # <<>> => response'[1].token = 1
                      /\ InOrder(chunk', line', Others, Others)
                      /\ Accepted' \/ Got' => Without(chunk', line', Restarts)
  <2>1. Others' = Others /\ Restarts' = Restarts
    BY DEF Others, Restarts
  <2> QED BY <2>1 DEF FirstCounts
<1>2. CASE ConnectOffers
  BY <1>1, <1>2, OfferCounts
<1>3. connecting = "first" \/ ConnectOffers
  BY <1>1 DEF NcpNext, TaskStep, ResetAttempt, Write, PumpReturns, PumpRead, PumpTimeout, PumpReadFails,
         Consume, Reply, PumpEnds, ConnectStarts, ConnectOffers, ConnectAgrees, ConnectReturns,
         AppResets, AppCommands, AppPolls, AppTakesCallbacks, AppDrops, NcpAnswers, NcpCallsBack,
         NcpSurprises, taskVars
<1>4. CASE connecting = "first"
  <2>1. \/ ResetAttempt \/ Write \/ PumpReturns \/ PumpRead \/ PumpTimeout \/ PumpReadFails
        \/ Consume \/ Reply \/ NcpAnswers \/ NcpCallsBack
    BY <1>1, <1>4 DEF NcpNext, TaskStep, ConnectStarts, ConnectOffers, ConnectAgrees, ConnectReturns,
         AppResets, AppCommands, AppPolls, AppTakesCallbacks, AppDrops, NcpSurprises
  <2>2. pc # "idle" \/ result.kind = "Ok"
    BY <1>1, <2>1 DEF ResetAttempt, Write, PumpReturns, PumpRead, PumpTimeout, PumpReadFails, Consume, Reply,
                NcpAnswers, NcpCallsBack, taskVars
  <2>3. UnderWay /\ (Writing \/ Waiting \/ Accepted \/ Got) /\ UnderWay' /\ (Writing' \/ Waiting' \/ Accepted' \/ Got')
    BY <1>1, <1>4, <2>2 DEF FirstExchange
  <2>4. /\ faults = 0 /\ faults' = 0 /\ UNCHANGED <<resets, issued>>
    BY <1>1, <2>1 DEF Undisturbed, NcpInv, CountersOK, ResetAttempt, Write, PumpReturns, PumpRead, PumpTimeout,
         PumpReadFails, Consume, Reply, NcpAnswers, NcpCallsBack, boundVars
  <2>5. /\ issued = 1 /\ next_sequence_number = 1 % SEQUENCE_SPACE
        /\ response # <<>> => response[1].token = 1
        /\ InOrder(chunk, line, Others, Others)
        /\ Accepted \/ Got => Without(chunk, line, Restarts)
    BY <1>1, <1>4, <2>2, <2>4 DEF FirstCounts, Undisturbed
  <2>6. Write \/ PumpReturns \/ PumpRead \/ Consume \/ Reply \/ NcpAnswers \/ NcpCallsBack
    <3>1. op \in {"command", "none"}
      BY <2>3 DEF UnderWay
    <3>2. ~ResetAttempt
      BY <3>1 DEF ResetAttempt, TaskInOrder
    <3>3. ~PumpTimeout /\ ~PumpReadFails
      <4>1. ASSUME NEW outcome \in {"Ok", "Transport"}, PumpEnds(outcome) PROVE FALSE
        BY <1>1, <3>1, <4>1, PumpEndsDoes
      <4> QED BY <4>1 DEF PumpTimeout, PumpReadFails
    <3> QED BY <2>1, <3>2, <3>3
  <2>7. /\ InOrder(chunk', line', Others, Others)
        /\ Without(chunk, line, Restarts) => Without(chunk', line', Restarts)
        /\ Consume /\ Head(chunk).kind = "Data" => Without(chunk', line', Restarts)
    BY <2>3, <2>4, <2>5, <2>6, FirstOrder
  <2>8. UNCHANGED <<issued, next_sequence_number>> /\ (response' # <<>> => response'[1].token = 1)
    BY <1>1, <2>3, <2>4, <2>5, <2>6, FirstNumbersStay
  <2>9. ASSUME Accepted' \/ Got', Writing \/ Waiting PROVE Without(chunk', line', Restarts)
    <3>1. pending # <<>> /\ response = <<>> /\ pc \in {"write", "pump", "consume"}
      <4>1. FirstPending /\ pc \in {"write", "pump", "consume"}
        BY <2>9 DEF Writing, Waiting
      <4>2. pending = <<[sequence |-> 0, frame_id |-> "version"]>> /\ response = <<>>
        BY <4>1 DEF FirstPending
      <4> QED BY <4>1, <4>2
    <3>2. ~Reply
      BY <3>1 DEF Reply
    <3>3. ~PumpReturns
      <4>1. op \in {"command", "none"}
        BY <2>3 DEF UnderWay
      <4>2. ASSUME PumpReturns PROVE pc' = "idle" /\ result'.kind # "Ok"
        <5>1. op = "command"
          BY <4>1, <4>2 DEF PumpReturns, PumpDone
        <5> QED BY <3>1, <4>2, <5>1, PumpReturnsDoes
      <4> QED BY <1>1, <4>2
    <3>4. UNCHANGED pending
      BY <2>6, <3>2, <3>3 DEF Write, PumpRead, Consume, NcpAnswers, NcpCallsBack, corrVars
    <3>5. Accepted'
      BY <2>9, <3>1, <3>4 DEF Got
    <3>6. pc' = "reply" /\ received' # <<>>
      BY <3>5 DEF Accepted
    <3>7. Consume
      BY <2>6, <3>1, <3>2, <3>3, <3>6 DEF Write, Return, PumpRead, NcpAnswers, NcpCallsBack, taskVars
    <3>8. Head(chunk).kind = "Data"
      <4>1. in_flight \in Seq(Holding(CommandFrames)) /\ ConnInv'
        <5>1. in_flight \in Seq(InFlight) /\ \A i \in 1 .. Len(in_flight) : in_flight[i].payload \in CommandFrames
          BY DEF NcpInv, ConnInv, TypeOK, PayloadsOK
        <5>2. \A i \in 1 .. Len(in_flight) : in_flight[i] \in Holding(CommandFrames)
          BY <5>1 DEF Holding
        <5> QED BY <5>1, <5>2, SeqOver DEF NcpInv
      <4> QED BY <3>6, <3>7, <4>1, ConsumeHolding
    <3> QED BY <2>7, <3>7, <3>8
  <2> QED BY <2>3, <2>5, <2>7, <2>8, <2>9
<1> QED BY <1>2, <1>3, <1>4

\* The first exchange has succeeded: nothing is left of it.
LEMMA FirstLeavesNothing ==
    ASSUME NcpInv, FirstExchange, FirstCounts, Undisturbed, connecting = "first", pc = "idle", result.kind = "Ok"
    PROVE  NoMixUp
<1>1. UnderWay /\ Got /\ op = "none"
  BY LeavingFirst
<1>2. issued = 1 /\ next_sequence_number = 1 % SEQUENCE_SPACE /\ Without(chunk, line, Restarts)
  BY <1>1 DEF FirstCounts
<1>3. /\ pending = <<>> /\ in_flight = <<>> /\ outbound.kind # "Data" /\ response = <<>> /\ ncp_boot # "fresh"
      /\ owed = <<>> /\ line \in Seq(Carrying(EventFrames)) /\ chunk \in Seq(Carrying(EventFrames))
  BY <1>1 DEF Got, FirstTaken, OnlyCallbacksCome
<1>4. AsksExtended
  BY <1>3, EmptySeq DEF AsksExtended
<1>5. RestartsLast
  BY <1>2, <1>3 DEF RestartsLast, InOrder, Without
<1>6. LongBlocks
  BY <1>1, <1>3, EmptySeq DEF LongBlocks
<1>7. issued < SEQUENCE_SPACE => next_sequence_number = 1
  BY <1>2, SequenceSpaceAssumption
<1>8. NumbersLast
  BY <1>2, <1>3, <1>7 DEF NumbersLast
<1>9. OwnResponse
  BY <1>3 DEF OwnResponse
<1>10. Counting
  <2>1. PICK S : S = Numbered
    OBVIOUS
  <2>2. EventFrames \subseteq S
    BY <2>1 DEF EventFrames, Unmatched, AfterOffer, Numbered
  <2>3. Carrying(EventFrames) \subseteq Carrying(S)
    BY <2>2, CarryingMono
  <2>4. line \in Seq(Carrying(S)) /\ chunk \in Seq(Carrying(S))
    BY <1>3, <2>3, SeqMonotonic
  <2>5. Around(S)
    BY <1>3, <2>4, EmptySeq DEF Around, Coming
  <2> QED BY <1>3, <1>7, <2>1, <2>5 DEF Counting
<1> QED BY <1>4, <1>5, <1>6, <1>8, <1>9, <1>10 DEF NoMixUp

-----------------------------------------------------------------------------
(* The invariant *)

\* Under every step until the link is reset.
LEMMA NextNoMixUp ==
    ASSUME NcpInv, NcpInv', TaskInOrder, VersionsAreTrue, op # "reset", initial_version_sent,
           faults = 0, faults' = 0, issued' <= SEQUENCE_SPACE, NoMixUp, Step
    PROVE  NoMixUp'
<1>1. /\ AsksExtended /\ RestartsLast /\ LongBlocks /\ NumbersLast /\ OwnResponse
      /\ Counting \/ Renumbered \/ Deaf
  BY DEF NoMixUp
<1>2. AsksExtended'
  BY <1>1, NextAsks
<1>3. RestartsLast'
  BY <1>1, NextRestarts
<1>4. LongBlocks'
  BY <1>1, NextLong
<1>5. NumbersLast'
  BY <1>1, NextNumbersLast
<1>6. OwnResponse'
  BY <1>1, NextOwn
<1>7. Counting' \/ Renumbered' \/ Deaf'
  BY <1>1, NextModes
<1> QED BY <1>2, <1>3, <1>4, <1>5, <1>6, <1>7 DEF NoMixUp

\* command returns the response it took, and no other call returns any.
LEMMA NextAnswersOwn ==
    ASSUME NcpInv, FormatInv, AnswersOwnCommand, NcpNext,
           op = "command" /\ pc = "pump" /\ response # <<>> => response[1].token = issued
    PROVE  AnswersOwnCommand'
<1>1. asked.token = issued
  BY DEF FormatInv
<1>2. ASSUME UNCHANGED <<asked, result>> PROVE AnswersOwnCommand'
  BY <1>2 DEF AnswersOwnCommand
<1>3. ASSUME result'.answers = 0 PROVE AnswersOwnCommand'
  BY <1>3 DEF AnswersOwnCommand
<1>4. ASSUME NEW outcome, PumpEnds(outcome) PROVE UNCHANGED <<asked, result>> \/ result'.answers = 0
  BY <1>4 DEF PumpEnds, NoAnswer, Return, Returned
<1>5. CASE PumpReturns
  <2>1. UNCHANGED asked /\ pc = "pump"
    BY <1>5 DEF PumpReturns
  <2>2. CASE Answered
    <3>1. op = "command" /\ response # <<>> /\ result'.answers \in {0, response[1].token}
      BY <2>2 DEF Answered, Return, Returned
    <3> QED BY <1>1, <2>1, <3>1 DEF AnswersOwnCommand
  <2>3. CASE ResetDone \/ Disconnected \/ PollDone
    BY <1>3, <2>3 DEF ResetDone, Disconnected, NoAnswer, PollDone, Return, Returned
  <2> QED BY <1>5, <2>2, <2>3 DEF PumpReturns
<1>6. CASE PumpTimeout \/ PumpReadFails
  BY <1>2, <1>3, <1>4, <1>6 DEF PumpTimeout, PumpReadFails
<1>7. CASE Reply
  BY <1>2, <1>3, <1>4, <1>7 DEF Reply
<1>8. CASE ConnectOffers \/ ConnectAgrees \/ AppCommands
  BY <1>3, <1>8 DEF ConnectOffers, ConnectAgrees, AppCommands, StartCommand, Return, Returned
<1>9. CASE ResetAttempt \/ Write \/ PumpRead \/ Consume \/ ConnectStarts \/ ConnectReturns \/ AppResets
  BY <1>2, <1>3, <1>9 DEF ResetAttempt, Write, PumpRead, Consume, ConnectStarts, ConnectReturns, AppResets,
                         StartReset, Return, Returned
<1>10. CASE AppPolls \/ AppTakesCallbacks \/ AppDrops \/ NcpAnswers \/ NcpCallsBack \/ NcpSurprises
  BY <1>2, <1>3, <1>10 DEF AppPolls, AppTakesCallbacks, AppDrops, NcpAnswers, NcpCallsBack, NcpSurprises, taskVars,
                          Return, Returned
<1> QED BY <1>5, <1>6, <1>7, <1>8, <1>9, <1>10 DEF NcpNext, TaskStep

\* A new Ncp.
LEMMA InitAnswer == NcpInit => AnswerInv
BY DEF NcpInit, AnswerInv, FirstCounts, AnswersOwnCommand, Returned

\* Nothing is counted backwards.
LEMMA StillUndisturbed ==
    ASSUME NcpInv, TaskInOrder, NcpNext, Undisturbed' PROVE Undisturbed /\ faults = 0 /\ faults' = 0
<1>1. /\ faults' = faults \/ faults' = faults + 1
      /\ resets' = resets \/ resets' = resets + 1
      /\ issued' = issued \/ issued' = issued + 1
  BY DEF NcpNext, TaskStep, ResetAttempt, Write, PumpReturns, PumpRead, PumpTimeout, PumpReadFails, Consume,
         Reply, ConnectStarts, ConnectOffers, ConnectAgrees, ConnectReturns, StartReset, StartCommand, AppResets,
         AppCommands, AppPolls, AppTakesCallbacks, AppDrops, NcpAnswers, NcpCallsBack, NcpSurprises, boundVars
<1>2. faults \in Nat /\ resets \in Nat /\ issued \in Nat /\ SEQUENCE_SPACE \in Nat
  BY SequenceSpaceAssumption, NcpAssumption DEF NcpInv, CountersOK, TaskInOrder
<1>3. faults' = 0 /\ resets' <= 1 /\ issued' <= SEQUENCE_SPACE
  BY DEF Undisturbed
<1> QED BY <1>1, <1>2, <1>3 DEF Undisturbed

\* Every step preserves it.
LEMMA NextAnswer ==
    ASSUME NcpInv, NcpInv', ConnectInv, ConnectInv', FormatInv, AnswerInv, [NcpNext]_ncpAllVars PROVE AnswerInv'
<1>1. CASE NcpNext
  <2>1. TaskInOrder /\ BeforeOffer /\ VersionsAreTrue /\ FirstExchange /\ AfterFirst
    BY DEF ConnectInv
  <2>2. connecting' = "failed" => op' = "none"
    <3>1. CASE connecting' = "failed" /\ connecting # "failed"
      <4>1. ConnectReturns
        BY <1>1, <3>1 DEF NcpNext, TaskStep, ResetAttempt, Write, PumpReturns, PumpRead, PumpTimeout, PumpReadFails,
           Consume, Reply, PumpEnds, ConnectStarts, ConnectOffers, ConnectAgrees, AppResets, AppCommands, AppPolls,
           AppTakesCallbacks, AppDrops, NcpAnswers, NcpCallsBack, NcpSurprises, taskVars
      <4> QED BY <4>1 DEF ConnectReturns, NcpInv, TaskOK
    <3>2. CASE connecting = "failed"
      <4>1. op = "none" /\ pc = "idle"
        BY <3>2 DEF AnswerInv, NcpInv, TaskOK
      <4>2. NcpAnswers \/ NcpCallsBack
        BY <1>1, <3>2, <4>1 DEF NcpNext, TaskStep, ResetAttempt, Write, PumpReturns, PumpRead, PumpTimeout,
           PumpReadFails, Consume, Reply, ConnectStarts, ConnectOffers, ConnectAgrees, ConnectReturns, Negotiated,
           AppResets, AppCommands, AppPolls, AppTakesCallbacks, AppDrops, NcpSurprises
      <4> QED BY <4>1, <4>2 DEF NcpAnswers, NcpCallsBack, taskVars
    <3> QED BY <3>1, <3>2
  <2>3. FirstCounts'
    BY <1>1, NextFirstCounts DEF AnswerInv
  <2>4. ASSUME Undisturbed' PROVE Undisturbed /\ faults = 0 /\ faults' = 0 /\ issued' <= SEQUENCE_SPACE /\ resets' <= 1
    BY <1>1, <2>1, <2>4, StillUndisturbed DEF Undisturbed
  <2>5. /\ connecting \in {"start", "reset", "first", "second", "up", "failed"}
        /\ connecting' \in {"start", "reset", "first", "second", "up", "failed"}
    <3>1. connecting' = connecting \/ connecting' \in {"reset", "first", "second", "up", "failed"}
      BY <1>1 DEF NcpNext, TaskStep, ResetAttempt, Write, PumpReturns, PumpRead, PumpTimeout, PumpReadFails,
         Consume, Reply, PumpEnds, ConnectStarts, ConnectOffers, ConnectAgrees, ConnectReturns, AppResets, AppCommands,
         AppPolls, AppTakesCallbacks, AppDrops, NcpAnswers, NcpCallsBack, NcpSurprises, taskVars
    <3> QED BY <3>1 DEF AnswerInv
  <2>6. ASSUME Undisturbed' PROVE AnswersOwnCommand'
    <3>1. ASSUME op = "command", pc = "pump", response # <<>> PROVE response[1].token = issued
      <4>1. connecting \in {"first", "second", "up"}
        BY <2>1, <2>5, <3>1 DEF BeforeOffer, AnswerInv
      <4>2. CASE connecting = "first"
        BY <2>4, <2>6, <3>1, <4>2 DEF AnswerInv, FirstCounts
      <4>3. CASE connecting \in {"second", "up"}
        BY <2>4, <2>6, <3>1, <4>3 DEF AnswerInv, NoMixUp, OwnResponse
      <4> QED BY <4>1, <4>2, <4>3
    <3>2. AnswersOwnCommand
      BY <2>4, <2>6 DEF AnswerInv
    <3> QED BY <1>1, <3>1, <3>2, NextAnswersOwn
  <2>7. ASSUME Undisturbed', connecting' \in {"second", "up"} PROVE NoMixUp'
    <3>1. Undisturbed /\ faults = 0 /\ faults' = 0 /\ issued' <= SEQUENCE_SPACE /\ resets' <= 1 /\ resets <= 1
      BY <2>4, <2>7 DEF Undisturbed
    <3>2. CASE connecting \in {"second", "up"}
      <4>1. resets = 1
        BY <2>1, <3>1, <3>2 DEF TaskInOrder
      <4>2. Step /\ op # "reset"
        BY <1>1, <2>1, <3>1, <3>2, <4>1, StepsOnly
      <4>3. initial_version_sent /\ NoMixUp
        BY <2>1, <3>1, <3>2, <4>1 DEF AfterFirst, AnswerInv
      <4> QED BY <2>1, <3>1, <4>2, <4>3, NextNoMixUp
    <3>3. CASE connecting \notin {"second", "up"}
      <4>1. ConnectReturns \/ ConnectAgrees
        BY <1>1, <2>7, <3>3 DEF NcpNext, TaskStep, ResetAttempt, Write, PumpReturns, PumpRead, PumpTimeout,
           PumpReadFails, Consume, Reply, PumpEnds, ConnectStarts, ConnectOffers, AppResets, AppCommands, AppPolls,
           AppTakesCallbacks, AppDrops, NcpAnswers, NcpCallsBack, NcpSurprises, taskVars
      <4>2. connecting = "first" /\ pc = "idle" /\ result.kind = "Ok"
        BY <2>7, <3>3, <4>1 DEF ConnectReturns, Negotiated, ConnectAgrees, StartCommand
      <4>3. NoMixUp
        BY <2>1, <3>1, <4>2, FirstLeavesNothing DEF AnswerInv
      <4>4. op # "reset" /\ initial_version_sent
        BY <2>1, <4>2, LeavingFirst DEF UnderWay
      <4>5. Step
        BY <4>1 DEF Step, Asks, ConnectAgrees, Versions
      <4> QED BY <2>1, <3>1, <4>3, <4>4, <4>5, NextNoMixUp
    <3> QED BY <3>2, <3>3
  <2> QED BY <2>2, <2>3, <2>5, <2>6, <2>7 DEF AnswerInv
<1>2. CASE UNCHANGED ncpAllVars
  <2>1. /\ UNCHANGED <<pending, next_sequence_number, in_flight, outbound, received, phase>>
        /\ UNCHANGED <<pc, op, chunk, asked, result, connecting, response, callbacks, pending_format>>
        /\ UNCHANGED <<line, owed, ncp_rx, ncp_boot, ncp_version, faults, resets, issued>>
    BY <1>2 DEF ncpAllVars, connVars, corrVars, taskVars, hostVars, ncpVars, boundVars
  <2>2. UNCHANGED <<Undisturbed, AnswersOwnCommand>>
    BY <2>1 DEF Undisturbed, AnswersOwnCommand
  <2>3. (Accepted' => Accepted) /\ (Got' => Got)
    BY <2>1 DEF Accepted, Got, FirstPending, FirstTaken, OnlyCallbacksCome, CallbacksAreEvents
  <2>4. InOrder(chunk, line, Others, Others)' = InOrder(chunk, line, Others, Others)
    BY <2>1 DEF InOrder, Others
  <2>5. Without(chunk, line, Restarts)' = Without(chunk, line, Restarts)
    BY <2>1 DEF Without, Restarts
  <2>6. FirstCounts'
    BY <2>1, <2>2, <2>3, <2>4, <2>5 DEF AnswerInv, FirstCounts
  <2>7. NoMixUp => NoMixUp'
    <3>1. AsksExtended => AsksExtended'
      BY <2>1 DEF AsksExtended
    <3>2. RestartsLast => RestartsLast'
      BY <2>1 DEF RestartsLast
    <3>3. LongBlocks => LongBlocks'
      BY <2>1 DEF LongBlocks, Unencodable
    <3>4. (NumbersLast => NumbersLast') /\ (OwnResponse => OwnResponse')
      BY <2>1 DEF NumbersLast, OwnResponse
    <3>5. (Counting => Counting') /\ (Renumbered => Renumbered') /\ (Deaf => Deaf')
      <4>1. UNCHANGED <<Numbered, AfterOffer, Unmatched>>
        BY <2>1 DEF Numbered, AfterOffer, Unmatched, NotLong
      <4>2. (Around(Numbered) => Around(Numbered)') /\ (Around(AfterOffer) => Around(AfterOffer)')
            /\ (Coming(Unmatched) => Coming(Unmatched)')
        BY <2>1, <4>1 DEF Around, Coming, Carrying, Holding
      <4> QED BY <2>1, <4>2 DEF Counting, Renumbered, Deaf, is_connected
    <3> QED BY <3>1, <3>2, <3>3, <3>4, <3>5 DEF NoMixUp
  <2> QED BY <2>1, <2>2, <2>6, <2>7 DEF AnswerInv
<1> QED BY <1>1, <1>2

\* The numbers on their way tell answers apart.
THEOREM AnswerInvHolds == NcpSpec => []AnswerInv
<1>1. NcpInit => AnswerInv
  BY InitAnswer
<1>2. /\ NcpInv /\ NcpInv' /\ ConnectInv /\ ConnectInv' /\ FormatInv /\ AnswerInv /\ [NcpNext]_ncpAllVars
      => AnswerInv'
  BY NextAnswer
<1> QED BY <1>1, <1>2, NcpInvHolds, ConnectInvHolds, FormatInvHolds, PTL DEF NcpSpec

\* AnswersOwnCommandUntilReset: whatever the NCP answers late, fails or restarts, and however many
\* commands time out or are refused, command never returns the answer to another call until the
\* application resets the link (ncp.rs:11-15, correlation.rs classify).
THEOREM AnswersAlwaysOwnUntilReset == NcpSpec => []AnswersOwnCommandUntilReset
<1>1. AnswerInv => AnswersOwnCommandUntilReset
  BY DEF AnswerInv, Undisturbed, AnswersOwnCommandUntilReset
<1> QED BY <1>1, AnswerInvHolds, PTL
=============================================================================
