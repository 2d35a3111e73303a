-------------------------- MODULE NcpConnectProofs --------------------------
(***************************************************************************)
(* Proofs about the header layouts of Ncp: that connect comes to an        *)
(* agreement with the NCP, that callbacks are read as they were sent, and  *)
(* that the answer to the outstanding command is read with its own layout. *)
(*                                                                         *)
(* ConnectInv follows connect from its reset through the legacy exchange   *)
(* to the first extended command; FormatInv ties the layout remembered to  *)
(* the frames of the outstanding command.  Both rest on NcpInv.            *)
(***************************************************************************)
EXTENDS NcpProofs

-----------------------------------------------------------------------------
(* Frames *)

\* The frames of the line that carry a payload of S, or none.
Carrying(S) == {f \in LineFrames : f.kind = "Data" => f.payload \in S}

\* The entries of the queue that hold a payload of S.
Holding(S) == {e \in InFlight : e.payload \in S}

\* What an NCP that runs version v says.
Told(v) ==
    {p \in EzspFrames :
        /\ p.kind \in {"Response", "Callback"} /\ p.version \in {"none", v}
        /\ p.kind = "Callback" => p.format = "Extended" /\ p.frame_id = "event"}

Answers(v) == {p \in Told(v) : p.kind = "Response"}

EventFrames == {p \in EzspFrames : p.kind = "Callback"}

\* But for the offer, a version command asks for what the NCP runs.
Asking(v) == {p \in CommandFrames : p.frame_id = "version" /\ p.format = "Extended" => p.version = v}

ExtendedCommands == {p \in CommandFrames : p.format = "Extended"}

VersionCommands == {p \in CommandFrames : p.frame_id = "version"}

FirstCommand == Ezsp("Command", "Legacy", 0, "version", 1, "preferred")
FirstAnswer(v) == Ezsp("Response", "Legacy", 0, "version", 1, v)
AnswerFrame(v) == Data(0, 1, FALSE, FirstAnswer(v))

\* Late RSTACKs, and frames that acknowledge the first command.
AcknowledgeFirst ==
    {f \in LineFrames :
        /\ f.kind \in {"RstAck", "Ack", "Data"}
        /\ f.kind # "RstAck" => f.ack_num = 1}

\* The answer to the first command comes before every other payload, and callbacks behind it.
AnswerFirst(frames, v) ==
    \E j \in 1 .. Len(frames) :
        /\ frames[j] = AnswerFrame(v)
        /\ \A i \in 1 .. (j - 1) : frames[i].kind # "Data"
        /\ \A i \in (j + 1) .. Len(frames) : frames[i] \in Carrying(EventFrames)

-----------------------------------------------------------------------------
(* The inductive invariants *)

\* A read is consumed before the next, only reset writes a RST and tries again, and only an Ncp that
\* connect has returned is polled.
TaskInOrder ==
    /\ pc \in {"idle", "retry", "write", "pump"} => chunk = <<>>
    /\ pc \in {"write", "reply"} /\ outbound.kind = "Rst" => op = "reset"
    /\ pc = "retry" => op = "reset"
    /\ op = "poll" => connecting = "up"
    /\ resets \in Nat /\ surprises \in Nat /\ (connecting # "start" => resets > 0)

\* Until connect offers a version, all the NCP has to say is that it was reset.
BeforeOffer ==
    connecting \in {"start", "reset"} =>
        /\ resets <= 1 /\ surprises = 0 /\ (connecting = "start" => op = "none" /\ resets = 0)
        /\ op \in {"none", "reset"} /\ pc # "reply"
        /\ line \in Seq({RstAck}) /\ chunk \in Seq({RstAck})
        /\ owed = <<>> /\ ncp_rx = 0 /\ ncp_tx = 0 /\ ncp_boot = "fresh" /\ ~ncp_failed
        /\ in_flight = <<>> /\ next_tx_frame = 0 /\ next_rx_frame = 0
        /\ outbound.kind \in {"Nothing", "Rst"} /\ received = <<>>
        /\ pending = <<>> /\ next_sequence_number = 0 /\ pending_format = <<>>
        /\ response = <<>> /\ callbacks = <<>> /\ issued = 0 /\ ~initial_version_sent

\* Whatever happens, what is said of the version is true.
VersionsAreTrue ==
    /\ owed \in Seq(Answers(ncp_version))
    /\ line \in Seq(Carrying(Told(ncp_version))) /\ chunk \in Seq(Carrying(Told(ncp_version)))
    /\ received # <<>> => received[1] \in Told(ncp_version)
    /\ response # <<>> => response[1].version \in {"none", ncp_version}
    /\ result.version \in {"none", ncp_version}
    /\ connecting = "up" => version = ncp_version
    /\ in_flight \in Seq(Holding(Asking(ncp_version)))
    /\ outbound.kind = "Data" => outbound.payload \in Asking(ncp_version)

FirstPending ==
    /\ pending = <<[sequence |-> 0, frame_id |-> "version"]>> /\ pending_format = <<"Legacy">>
    /\ response = <<>> /\ callbacks = <<>> /\ op = "command"

\* The NCP has answered the first command.
FirstTaken == ncp_rx = 1 /\ ncp_boot = IF ncp_version = "preferred" THEN "set" ELSE "offered"

Writing ==
    /\ pc = "write" /\ FirstPending
    /\ outbound = Data(0, 0, FALSE, FirstCommand)
    /\ Len(in_flight) = 1 /\ in_flight[1].frame_num = 0
    /\ line \in Seq({RstAck}) /\ owed = <<>>
    /\ ncp_rx = 0 /\ ncp_tx = 0 /\ ncp_boot = "fresh" /\ next_rx_frame = 0

Waiting ==
    /\ pc \in {"pump", "consume"} /\ FirstPending /\ FirstTaken /\ next_rx_frame = 0
    /\ in_flight = <<>> \/ (Len(in_flight) = 1 /\ in_flight[1].frame_num = 0)
    /\ line \in Seq(AcknowledgeFirst) /\ chunk \in Seq(AcknowledgeFirst)
    /\ \/ /\ owed = <<FirstAnswer(ncp_version)>> /\ ncp_tx = 0
          /\ line \in Seq(Carrying({})) /\ chunk \in Seq(Carrying({}))
       \/ owed = <<>> /\ AnswerFirst(chunk \o line, ncp_version)

OnlyCallbacksCome ==
    owed = <<>> /\ line \in Seq(Carrying(EventFrames)) /\ chunk \in Seq(Carrying(EventFrames))

Accepted ==
    /\ pc = "reply" /\ FirstPending /\ FirstTaken /\ OnlyCallbacksCome
    /\ in_flight = <<>> /\ received = <<FirstAnswer(ncp_version)>> /\ outbound.kind = "Ack"

CallbacksAreEvents == \A i \in 1 .. Len(callbacks) : callbacks[i].frame_id = "event"

Got ==
    /\ pending = <<>> /\ pending_format = <<>> /\ in_flight = <<>>
    /\ FirstTaken /\ OnlyCallbacksCome /\ CallbacksAreEvents
    /\ outbound.kind # "Data" /\ (pc = "reply" /\ received # <<>> => received[1].kind = "Callback")
    /\ op = "command" => response # <<>> /\ pc # "write"
    /\ op # "command" => response = <<>>

UnderWay ==
    /\ resets = 1 /\ surprises = 0 /\ ~ncp_failed /\ initial_version_sent
    /\ op \in {"command", "none"}

\* The stages of the first exchange, unless it has failed.
FirstExchange ==
    connecting = "first" /\ (pc # "idle" \/ result.kind = "Ok") =>
        UnderWay /\ (Writing \/ Waiting \/ Accepted \/ Got)

\* After it: nothing is parsed as legacy.
AfterFirst ==
    connecting \in {"second", "up"} /\ resets = 1 =>
        /\ op # "reset" /\ initial_version_sent /\ pending_format # <<"Legacy">>
        /\ CallbacksAreEvents

\* All a task that is still to agree with the NCP has heard and asked.
NotYetSet ==
    /\ OnlyCallbacksCome /\ response = <<>> /\ result.kind # "Ok"
    /\ received # <<>> => received[1].kind = "Callback"
    /\ in_flight \in Seq(Holding(VersionCommands))
    /\ outbound.kind = "Data" => outbound.payload \in VersionCommands

AsksExtended ==
    /\ in_flight \in Seq(Holding(ExtendedCommands))
    /\ outbound.kind = "Data" => outbound.payload \in ExtendedCommands

\* The NCP is set as soon as it answers.
Agreeing ==
    /\ AsksExtended /\ ncp_boot \in {"offered", "set"} /\ (connecting = "up" => ncp_boot = "set")
    /\ ncp_boot # "set" => NotYetSet

NcpIsSet == connecting \in {"second", "up"} /\ resets = 1 /\ surprises = 0 => Agreeing

ConnectInv ==
    /\ TaskInOrder /\ BeforeOffer /\ VersionsAreTrue /\ FirstExchange /\ AfterFirst /\ NcpIsSet

\* A frame of the last call of command, as long as that is outstanding, has the layout remembered.
Expected ==
    {p \in EzspFrames :
        p.kind # "Callback" =>
            /\ p.token <= issued
            /\ p.token = issued /\ pending # <<>> => pending_format = <<p.format>>}

FormatInv ==
    /\ asked.token = issued
    /\ in_flight \in Seq(Holding(Expected)) /\ (outbound.kind = "Data" => outbound.payload \in Expected)
    /\ owed \in Seq(Expected) /\ line \in Seq(Carrying(Expected)) /\ chunk \in Seq(Carrying(Expected))

-----------------------------------------------------------------------------
(* Sequences of frames *)

\* A sequence is one over the set its elements are in.
LEMMA SeqOver ==
    ASSUME NEW T, NEW S, NEW s \in Seq(T), \A i \in 1 .. Len(s) : s[i] \in S
    PROVE  s \in Seq(S)
<1>1. SubSeq(s, 1, Len(s)) \in Seq(S) /\ Len(s) \in Nat
  BY SubSeqProperties
<1> QED BY <1>1, SubSeqFull

\* Reads and what is left of them.
LEMMA PartsOver ==
    ASSUME NEW S, NEW s \in Seq(S)
    PROVE  /\ \A n \in 1 .. Len(s) : SubSeq(s, 1, n) \in Seq(S) /\ SubSeq(s, n + 1, Len(s)) \in Seq(S)
           /\ s # <<>> => Head(s) \in S /\ Tail(s) \in Seq(S)
           /\ s # <<>> => Head(s) = s[1] /\ 1 \in 1 .. Len(s)
OBVIOUS

\* A frame without payload is carried whatever S is.
LEMMA CarryingMono ==
    ASSUME NEW S, NEW T, S \subseteq T
    PROVE  Carrying(S) \subseteq Carrying(T) /\ Holding(S) \subseteq Holding(T)
BY DEF Carrying, Holding

\* What the NCP and the line say that is no payload.
LEMMA ControlFrames ==
    /\ \A n \in SeqNum : \A S : Ack(n) \in Carrying(S) /\ Nak(n) \in Carrying(S)
    /\ \A S : RstAck \in Carrying(S) /\ ErrorFrame \in Carrying(S)
    /\ \A b \in BOOLEAN : \A S : Rejected(b) \in Carrying(S)
    /\ RstAck \in AcknowledgeFirst
<1>1. /\ \A n \in SeqNum : Ack(n) \in LineFrames /\ Nak(n) \in LineFrames
      /\ RstAck \in LineFrames /\ ErrorFrame \in LineFrames
      /\ \A b \in BOOLEAN : Rejected(b) \in LineFrames
  BY DEF LineFrames, AckFrames, NakFrames, Ack, Nak
<1>2. /\ \A n \in SeqNum : Ack(n).kind = "Ack" /\ Nak(n).kind = "Nak"
      /\ RstAck.kind = "RstAck" /\ ErrorFrame.kind = "Error"
      /\ \A b \in BOOLEAN : Rejected(b).kind = "Rejected"
  BY DEF Ack, Nak, RstAck, ErrorFrame, Rejected
<1> QED BY <1>1, <1>2 DEF Carrying, AcknowledgeFirst

-----------------------------------------------------------------------------
(* The payloads the connection holds *)

\* What is retired is gone, and what is left was there.
LEMMA RetireHolding ==
    ASSUME ConnInv, NEW S, in_flight \in Seq(Holding(S)), NEW ack_num \in SeqNum
    PROVE  retire_acknowledged(ack_num) \in Seq(Holding(S))
<1>1. AcknowledgedPrefix(ack_num) \in 0 .. Len(in_flight)
  BY PrefixIsAPosition DEF ConnInv
<1> QED BY <1>1 DEF retire_acknowledged

\* on_frame puts nothing in the queue, and resends what is there.
LEMMA OnFrameHolding ==
    ASSUME ConnInv, ConnInv', NEW S, in_flight \in Seq(Holding(S)), NEW f \in AshFrame, on_frame(f)
    PROVE  /\ in_flight' \in Seq(Holding(S))
           /\ outbound'.kind = "Data" => outbound'.payload \in S
           /\ received' # <<>> => f.kind = "Data" /\ received'[1] = f.payload
           /\ f.kind # "Nak" => outbound'.kind \in {"Nothing", "Ack"}
           /\ outbound'.kind \in {"Nothing", "Ack", "Data"}
<1>1. CASE OnRstAck \/ OnError
  <2>1. in_flight' = <<>> /\ outbound' = Nothing /\ received' = <<>>
    BY <1>1 DEF OnRstAck, OnError
  <2> QED BY <2>1 DEF Nothing
<1>2. CASE OnRst
  BY <1>2 DEF OnRst, Nothing
<1>3. CASE f.kind \in {"Ack", "Nak", "Data"}
  <2> DEFINE left == retire_acknowledged(f.ack_num)
  <2>1. f.ack_num \in SeqNum
    BY <1>3 DEF AshFrame, DataFrames, AckFrames, NakFrames, Rst, RstAck, ErrorFrame
  <2>2. left \in Seq(Holding(S)) /\ left \in Seq(InFlight)
    <3>1. left \in Seq(Holding(S)) /\ Holding(S) \subseteq InFlight
      BY <2>1, RetireHolding DEF Holding
    <3> QED BY <3>1, SeqMonotonic
  <2> HIDE DEF left
  <2>3. CASE f.kind = "Ack" /\ OnAck(f.ack_num)
    BY <2>2, <2>3 DEF OnAck, left, Nothing
  <2>4. CASE f.kind = "Data" /\ OnData(f.frame_num, f.ack_num, f.payload)
    BY <2>2, <2>4 DEF OnData, left, Ack
  <2>5. CASE f.kind = "Nak" /\ OnNak(f.ack_num)
    <3>1. RetransmitOldest(left) /\ received' = <<>>
      BY <2>5 DEF OnNak, left
    <3>2. in_flight' \in Seq(InFlight)
      BY DEF ConnInv, TypeOK
    <3>3. \A i \in 1 .. Len(in_flight') : in_flight'[i].payload \in S
      BY <2>2, <3>1, RetransmitKeepsContent DEF Holding
    <3>4. in_flight' \in Seq(Holding(S))
      <4>1. \A i \in 1 .. Len(in_flight') : in_flight'[i] \in Holding(S)
        BY <3>2, <3>3 DEF Holding
      <4> QED BY <3>2, <4>1, SeqOver
    <3>5. /\ outbound'.kind = "Data" => outbound'.payload \in S
          /\ outbound'.kind \in {"Nothing", "Data"}
      <4>1. CASE outbound' = Nothing
        BY <4>1 DEF Nothing
      <4>2. CASE /\ left # <<>>
                 /\ outbound' = Data(left[1].frame_num, next_rx_frame, TRUE, left[1].payload)
        <5>1. left[1] \in Holding(S)
          BY <2>2, <4>2
        <5> QED BY <4>2, <5>1 DEF Data, Holding
      <4> QED BY <3>1, <4>1, <4>2 DEF RetransmitOldest
    <3> QED BY <2>5, <3>1, <3>4, <3>5
  <2> QED BY <1>3, <2>3, <2>4, <2>5 DEF on_frame
<1> QED BY <1>1, <1>2, <1>3 DEF on_frame

\* consume: the connection is handed the first frame of the chunk, or the failure to decode it.
LEMMA ConsumeHolding ==
    ASSUME NcpInv, ConnInv', NEW S, in_flight \in Seq(Holding(S)), Consume
    PROVE  /\ in_flight' \in Seq(Holding(S))
           /\ outbound'.kind = "Data" => outbound'.payload \in S
           /\ received' # <<>> => Head(chunk).kind = "Data" /\ received'[1] = Head(chunk).payload
           /\ Head(chunk).kind # "Nak" => outbound'.kind \in {"Nothing", "Ack", "Nak"}
           /\ outbound'.kind \in {"Nothing", "Ack", "Nak", "Data"}
<1> DEFINE f == Head(chunk)
<1>1. f \in LineFrames /\ ConnInv
  BY DEF Consume, NcpInv, TaskOK
<1>2. CASE f.kind = "Rejected"
  <2>1. on_decode_failure(f.recoverable)
    BY <1>2 DEF Consume
  <2> QED BY <2>1 DEF on_decode_failure, Nak, Nothing
<1>3. CASE f.kind # "Rejected"
  <2>1. on_frame(f) /\ f \in AshFrame
    BY <1>1, <1>3, LineFrameIsAshFrame DEF Consume
  <2> HIDE DEF f
  <2>2. /\ in_flight' \in Seq(Holding(S))
        /\ outbound'.kind = "Data" => outbound'.payload \in S
        /\ received' # <<>> => f.kind = "Data" /\ received'[1] = f.payload
        /\ f.kind # "Nak" => outbound'.kind \in {"Nothing", "Ack"}
        /\ outbound'.kind \in {"Nothing", "Ack", "Data"}
    BY <1>1, <2>1, OnFrameHolding
  <2> QED BY <2>2 DEF f
<1> QED BY <1>2, <1>3

\* begin_reset empties the queue or leaves it.
LEMMA BeginResetHolding ==
    ASSUME NEW S, in_flight \in Seq(Holding(S)), begin_reset
    PROVE  in_flight' \in Seq(Holding(S)) /\ outbound'.kind # "Data" /\ received' = <<>>
<1>1. in_flight' = in_flight \/ in_flight' = <<>>
  BY DEF begin_reset
<1>2. in_flight' \in Seq(Holding(S))
  BY <1>1, EmptySeq, Zenon
<1>3. outbound' \in {Rst, Nothing} /\ received' = <<>>
  BY DEF begin_reset
<1> QED BY <1>2, <1>3 DEF Rst, Nothing

\* send_data adds what it is given, or refuses.
LEMMA SendDataHolding ==
    ASSUME ConnInv, NEW S, NEW p \in S, p \in Payload, in_flight \in Seq(Holding(S)), send_data(p)
    PROVE  /\ in_flight' \in Seq(Holding(S)) /\ (outbound'.kind = "Data" => outbound'.payload \in S)
           /\ received' = <<>>
           /\ outbound'.kind = "Data" => /\ outbound' = Data(next_tx_frame, next_rx_frame, FALSE, p)
                                         /\ in_flight' = Append(in_flight,
                                              [frame_num |-> next_tx_frame, payload |-> p, sends |-> 1])
                                         /\ UNCHANGED next_rx_frame
           /\ outbound'.kind # "Data" => outbound'.kind \in {"NotConnected", "WindowFull"}
<1>1. CASE SendDataRefused(NotConnected) \/ SendDataRefused(WindowFull)
  <2>1. outbound' \in {NotConnected, WindowFull} /\ UNCHANGED in_flight /\ received' = <<>>
    BY <1>1 DEF SendDataRefused
  <2>2. outbound'.kind \in {"NotConnected", "WindowFull"}
    BY <2>1 DEF NotConnected, WindowFull
  <2> QED BY <2>1, <2>2
<1>2. CASE SendDataAccepted(p)
  <2> DEFINE new == [frame_num |-> next_tx_frame, payload |-> p, sends |-> 1]
  <2>1. new \in Holding(S)
    BY RetransmitsAssumption DEF Holding, InFlight, ConnInv, TypeOK
  <2>2. in_flight' = Append(in_flight, new) /\ received' = <<>> /\ UNCHANGED next_rx_frame
    BY <1>2 DEF SendDataAccepted
  <2> HIDE DEF new
  <2>3. in_flight' \in Seq(Holding(S))
    BY <2>1, <2>2, AppendType
  <2>4. outbound' = Data(next_tx_frame, next_rx_frame, FALSE, p)
    BY <1>2 DEF SendDataAccepted
  <2>5. outbound'.kind = "Data" /\ outbound'.payload = p
    BY <2>4 DEF Data
  <2> QED BY <2>2, <2>3, <2>4, <2>5 DEF new
<1> QED BY <1>1, <1>2 DEF send_data

-----------------------------------------------------------------------------
(* What the NCP says *)

\* The answer has the number, the layout and the token of the command, and tells the version or
\* nothing.
LEMMA ReplyTells ==
    ASSUME LineOK, NEW c \in CommandFrames
    PROVE  /\ NcpReply(c) \in Answers(ncp_version)
           /\ NcpReply(c).format = c.format /\ NcpReply(c).token = c.token
<1>1. NcpReply(c) \in EzspFrames
  BY ReplyType
<1>2. /\ NcpReply(c).kind = "Response" /\ NcpReply(c).version \in {"none", ncp_version}
      /\ NcpReply(c).format = c.format /\ NcpReply(c).token = c.token
  BY DEF NcpReply, Ezsp
<1> QED BY <1>1, <1>2 DEF Answers, Told

\* The NCP takes what the host wrote: the line gains a control frame at most, and owed the answer.
LEMMA TakesCarrying ==
    ASSUME NcpInv, NcpTakes(outbound), NEW S, line \in Seq(Carrying(S)),
           NEW R, owed \in Seq(R), outbound.kind = "Data" => NcpReply(outbound.payload) \in R
    PROVE  line' \in Seq(Carrying(S)) /\ owed' \in Seq(R) /\ UNCHANGED ncp_version
<1>1. ncp_rx \in SeqNum /\ next_sequence(ncp_rx) \in SeqNum
  BY NextSequence DEF NcpInv, LineOK
<1>2. CASE UNCHANGED ncpVars
  BY <1>2 DEF ncpVars
<1>3. CASE NcpTakesRst
  <2>1. line' = Append(line, RstAck) /\ owed' = <<>> /\ UNCHANGED ncp_version
    BY <1>3 DEF NcpTakesRst
  <2> QED BY <2>1, ControlFrames, AppendType, EmptySeq
<1>4. CASE outbound.kind = "Data" /\ NcpTakesData(outbound)
  <2>1. PICK f : f \in Carrying(S) /\ (line' = Append(line, f) \/ line' = line)
    BY <1>1, <1>4, ControlFrames DEF NcpTakesData, ncpVars
  <2>2. line' \in Seq(Carrying(S))
    BY <2>1, AppendType
  <2>3. owed' = Append(owed, NcpReply(outbound.payload)) \/ owed' = owed
    BY <1>4 DEF NcpTakesData, ncpVars
  <2>4. owed' \in Seq(R)
    BY <1>4, <2>3, AppendType
  <2>5. UNCHANGED ncp_version
    BY <1>4 DEF NcpTakesData, ncpVars
  <2> QED BY <2>2, <2>4, <2>5
<1> QED BY <1>2, <1>3, <1>4 DEF NcpTakes

\* The NCP sends a frame of its own accord.
LEMMA SendsCarrying ==
    ASSUME LineOK, NEW S, NEW frame \in S, frame \in EzspFrames, line \in Seq(Carrying(S)), NcpSends(frame)
    PROVE  line' \in Seq(Carrying(S))
<1>1. Data(ncp_tx, ncp_rx, FALSE, frame) \in Carrying(S)
  BY DEF LineOK, Data, LineFrames, LineData, Carrying
<1> QED BY <1>1, AppendType DEF NcpSends

\* The callback NcpCallsBack sends.
LEMMA CallbackTells ==
    ASSUME NcpInv, NcpCallsBack
    PROVE  \E frame \in EventFrames :
              NcpSends(frame) /\ \A v : frame \in Told(v)
<1>1. events \in 0 .. MaxCallbacks /\ events + 1 \in 0 .. MaxCallbacks /\ events' = events + 1
  BY NcpAssumption DEF NcpCallsBack, NcpInv, CountersOK
<1> DEFINE frame == Ezsp("Callback", "Extended", events, "event", events + 1, "none")
<1>2. frame \in EzspFrames
  <2>1. /\ "Callback" \in Kinds /\ "Extended" \in Formats /\ "event" \in FrameIds
        /\ "none" \in Versions
    BY NcpAssumption DEF Kinds, Formats, Versions
  <2> QED BY <1>1, <2>1, EzspType
<1>3. /\ frame.kind = "Callback" /\ frame.format = "Extended" /\ frame.frame_id = "event"
      /\ frame.version = "none"
  BY DEF Ezsp
<1>4. NcpSends(frame)
  BY <1>1 DEF NcpCallsBack
<1> HIDE DEF frame
<1>5. frame \in EventFrames /\ \A v : frame \in Told(v)
  BY <1>2, <1>3 DEF EventFrames, Told
<1> QED BY <1>4, <1>5

\* The command of a call of command.
Sent(frame_id, desired) ==
    Ezsp("Command", HeaderFormat(frame_id), next_sequence_number, frame_id, issued + 1, desired)

\* It is a command, of the layout and with the contents of the call.
LEMMA SentType ==
    ASSUME NcpInv, NEW frame_id \in Commands \cup {"version"}, NEW desired \in Versions,
           StartCommand(frame_id, desired), frame_id # "absent"
    PROVE  /\ Sent(frame_id, desired) \in CommandFrames /\ Sent(frame_id, desired) \in Payload
           /\ Sent(frame_id, desired).format = HeaderFormat(frame_id)
           /\ Sent(frame_id, desired).token = issued + 1
           /\ Sent(frame_id, desired).frame_id = frame_id
           /\ Sent(frame_id, desired).version = desired
<1>1. frame_id \in FrameIds
  BY NcpAssumption
<1>2. issued + 1 \in 0 .. MaxCommands
  BY NcpAssumption DEF StartCommand, NcpInv, CountersOK
<1>3. HeaderFormat(frame_id) \in Formats /\ next_sequence_number \in Sequence
  BY DEF HeaderFormat, Formats, NcpInv, CorrInv, CorrTypeOK
<1>4. Sent(frame_id, desired) \in CommandFrames
  BY <1>1, <1>2, <1>3, CommandType DEF Sent
<1>5. Sent(frame_id, desired) \in Payload
  BY <1>4, EzspPayloadAssumption DEF CommandFrames
<1> QED BY <1>4, <1>5 DEF Sent, Ezsp

\* What a call of command does up to its first await: it returns an error, with or without a number
\* taken, or waits for its frame to be written.
LEMMA StartCommandDoes ==
    ASSUME NcpInv, NEW frame_id \in Commands \cup {"version"}, NEW desired \in Versions,
           StartCommand(frame_id, desired)
    PROVE  /\ pc = "idle" /\ issued' = issued + 1 /\ asked'.token = issued'
           /\ UNCHANGED <<version, callbacks, response, ncpVars, resets, surprises>>
           /\ \/ UNCHANGED <<connVars, corrVars, initial_version_sent, pending_format>>
              \/ /\ frame_id # "absent" /\ pending = <<>>
                 /\ pending' = <<[sequence |-> next_sequence_number, frame_id |-> frame_id]>>
                 /\ pending_format' = <<HeaderFormat(frame_id)>>
                 /\ initial_version_sent \/ (HeaderFormat(frame_id) = "Legacy" /\ frame_id # "huge")
                       => initial_version_sent'
                 /\ UNCHANGED connVars \/ send_data(Sent(frame_id, desired))
           /\ \/ /\ pc' = "idle" /\ op' = "none" /\ chunk' = <<>>
                 /\ result'.kind # "Ok" /\ result'.version = "none"
              \/ /\ pc' = "write" /\ op' = "command" /\ frame_id # "huge" /\ UNCHANGED chunk
                 /\ pending = <<>> /\ pending' # <<>>
                 /\ outbound'.kind = "Data" /\ send_data(Sent(frame_id, desired))
                 /\ result'.kind # "Ok" /\ result'.version = "none"
<1> USE DEF Return, Returned
<1>1. /\ pc = "idle" /\ issued' = issued + 1 /\ asked'.token = issued'
      /\ UNCHANGED <<version, callbacks, response, ncpVars, resets, surprises>>
  BY DEF StartCommand
<1>2. CASE UNCHANGED <<connVars, corrVars, initial_version_sent, pending_format>>
           /\ (Return(Returned("UnsupportedCommand")) \/ Return(Returned("SequenceMismatch")))
  BY <1>1, <1>2
<1>3. CASE frame_id # "absent" /\ begin(frame_id)
  <2>1. /\ pending = <<>>
        /\ pending' = <<[sequence |-> next_sequence_number, frame_id |-> frame_id]>>
    BY <1>3 DEF begin, begin_refused
  <2>2. pending' # <<>> /\ pending_format' = <<HeaderFormat(frame_id)>>
    <3>1. pending' # <<>>
      BY <2>1
    <3> QED BY <1>3, <2>1, <3>1 DEF StartCommand, RememberFormat, begin_refused
  <2>3. CASE frame_id = "huge" /\ Return(Returned("FrameTooLong"))
             /\ UNCHANGED <<connVars, initial_version_sent>>
    BY <1>1, <1>3, <2>1, <2>2, <2>3
  <2>4. CASE /\ frame_id # "huge"
             /\ initial_version_sent' = (initial_version_sent \/ HeaderFormat(frame_id) = "Legacy")
             /\ send_data(Sent(frame_id, desired))
    <3>1. initial_version_sent \/ HeaderFormat(frame_id) = "Legacy" => initial_version_sent'
      BY <2>4
    <3>2. CASE outbound'.kind = "Data" /\ pc' = "write" /\ op' = "command"
               /\ result' = Returned("Pending") /\ UNCHANGED chunk
      BY <1>1, <1>3, <2>1, <2>2, <2>4, <3>1, <3>2
    <3>3. CASE outbound'.kind # "Data" /\ Return(Returned(outbound'.kind))
      <4>1. outbound' \in {NotConnected, WindowFull}
        BY <2>4, <3>3 DEF send_data, SendDataRefused, SendDataAccepted, Data
      <4>2. outbound'.kind # "Ok"
        BY <4>1 DEF NotConnected, WindowFull
      <4> QED BY <1>1, <1>3, <2>1, <2>2, <2>4, <3>1, <3>3, <4>2
    <3> QED BY <1>3, <2>4, <3>2, <3>3, <2>1 DEF StartCommand, begin_refused
  <2> QED BY <1>3, <2>1, <2>3, <2>4 DEF StartCommand, Sent, begin_refused
<1> QED BY <1>1, <1>2, <1>3 DEF StartCommand

-----------------------------------------------------------------------------
(* The layout of the outstanding command *)

\* What every frame around is expected to be, it is expected to be afterwards.
LEMMA FormatFrom ==
    ASSUME NEW S, S \subseteq Expected', asked'.token = issued',
           in_flight' \in Seq(Holding(S)), outbound'.kind = "Data" => outbound'.payload \in S,
           owed' \in Seq(S), line' \in Seq(Carrying(S)), chunk' \in Seq(Carrying(S))
    PROVE  FormatInv'
<1>1. PICK T : T = Expected'
  OBVIOUS
<1>2. Carrying(S) \subseteq Carrying(T) /\ Holding(S) \subseteq Holding(T) /\ S \subseteq T
  BY <1>1, CarryingMono
<1>3. /\ in_flight' \in Seq(Holding(T)) /\ owed' \in Seq(T)
      /\ line' \in Seq(Carrying(T)) /\ chunk' \in Seq(Carrying(T))
  BY <1>2, SeqMonotonic
<1>4. outbound'.kind = "Data" => outbound'.payload \in T
  BY <1>2
<1> QED BY <1>1, <1>3, <1>4 DEF FormatInv, Carrying, Holding

\* Giving up the outstanding command leaves nothing to expect of it.
LEMMA ExpectedStays ==
    ASSUME issued' = issued, pending' = <<>> \/ UNCHANGED <<pending, pending_format>>
    PROVE  Expected \subseteq Expected'
BY DEF Expected

\* A step that leaves the connection, the NCP and the call alone but for the rest of a read.
LEMMA SameFormat ==
    ASSUME FormatInv, UNCHANGED <<in_flight, outbound, owed, line, issued, asked>>,
           chunk' = <<>> \/ chunk' = chunk,
           pending' = <<>> \/ UNCHANGED <<pending, pending_format>>
    PROVE  FormatInv'
<1>1. Expected \subseteq Expected'
  BY ExpectedStays
<1>2. PICK S : S = Expected
  OBVIOUS
<1>3. /\ in_flight \in Seq(Holding(S)) /\ owed \in Seq(S) /\ line \in Seq(Carrying(S))
      /\ chunk \in Seq(Carrying(S)) /\ <<>> \in Seq(Carrying(S)) /\ asked.token = issued
      /\ outbound.kind = "Data" => outbound.payload \in S
  BY <1>2, EmptySeq DEF FormatInv
<1> QED BY <1>1, <1>2, <1>3, FormatFrom

\* The NCP takes what the host wrote.
LEMMA TakesFormat ==
    ASSUME NcpInv, FormatInv, NcpTakes(outbound), UNCHANGED <<in_flight, outbound, issued, asked>>,
           chunk' = <<>> \/ chunk' = chunk,
           pending' = <<>> \/ UNCHANGED <<pending, pending_format>>
    PROVE  FormatInv'
<1>1. Expected \subseteq Expected'
  BY ExpectedStays
<1>2. PICK S : S = Expected
  OBVIOUS
<1>3. outbound.kind = "Data" => NcpReply(outbound.payload) \in S
  <2> SUFFICES ASSUME outbound.kind = "Data" PROVE NcpReply(outbound.payload) \in S
    OBVIOUS
  <2>1. outbound.payload \in CommandFrames /\ outbound.payload \in Expected /\ LineOK
    BY DEF NcpInv, PayloadsOK, FormatInv
  <2>2. /\ NcpReply(outbound.payload) \in EzspFrames
        /\ NcpReply(outbound.payload).format = outbound.payload.format
        /\ NcpReply(outbound.payload).token = outbound.payload.token
    BY <2>1, ReplyTells DEF Answers, Told
  <2> QED BY <1>2, <2>1, <2>2 DEF Expected, CommandFrames
<1>4. /\ in_flight \in Seq(Holding(S)) /\ owed \in Seq(S) /\ line \in Seq(Carrying(S))
      /\ chunk \in Seq(Carrying(S)) /\ <<>> \in Seq(Carrying(S)) /\ asked.token = issued
      /\ outbound.kind = "Data" => outbound.payload \in S
  BY <1>2, EmptySeq DEF FormatInv
<1>5. line' \in Seq(Carrying(S)) /\ owed' \in Seq(S)
  BY <1>3, <1>4, TakesCarrying
<1> QED BY <1>1, <1>2, <1>4, <1>5, FormatFrom

\* A call of command: what it sends is expected, and nothing else is of it.
LEMMA StartCommandFormat ==
    ASSUME NcpInv, FormatInv, NEW frame_id \in Commands \cup {"version"}, NEW desired \in Versions,
           StartCommand(frame_id, desired)
    PROVE  FormatInv'
<1> DEFINE p == Sent(frame_id, desired)
<1>1. /\ issued' = issued + 1 /\ asked'.token = issued' /\ UNCHANGED <<owed, line>>
      /\ chunk' = <<>> \/ chunk' = chunk
  BY StartCommandDoes DEF ncpVars
<1>2. issued \in Nat
  BY NcpAssumption DEF NcpInv, CountersOK
<1>3. Expected \subseteq Expected'
  <2> SUFFICES ASSUME NEW x \in Expected PROVE x \in Expected'
    OBVIOUS
  <2>1. x \in EzspFrames /\ x.token \in Nat /\ (x.kind # "Callback" => x.token <= issued)
    BY NcpAssumption DEF Expected, EzspFrames
  <2> QED BY <1>1, <1>2, <2>1 DEF Expected
<1>4. PICK S : S = Expected
  OBVIOUS
<1>5. /\ in_flight \in Seq(Holding(S)) /\ owed \in Seq(S) /\ line \in Seq(Carrying(S))
      /\ chunk \in Seq(Carrying(S)) /\ <<>> \in Seq(Carrying(S))
      /\ outbound.kind = "Data" => outbound.payload \in S
  BY <1>4, EmptySeq DEF FormatInv
<1>6. CASE UNCHANGED connVars
  BY <1>1, <1>3, <1>4, <1>5, <1>6, FormatFrom DEF connVars
<1>7. CASE /\ frame_id # "absent" /\ pending_format' = <<HeaderFormat(frame_id)>>
           /\ send_data(Sent(frame_id, desired))
  <2>1. p \in CommandFrames /\ p \in Payload /\ p.format = HeaderFormat(frame_id)
        /\ p.token = issued + 1
    BY <1>7, SentType
  <2> HIDE DEF p
  <2>2. p \in Expected'
    BY <1>1, <1>2, <1>7, <2>1 DEF Expected, CommandFrames
  <2> DEFINE T == S \cup {p}
  <2>3. T \subseteq Expected' /\ S \subseteq T /\ p \in T
    BY <1>3, <1>4, <2>2
  <2> HIDE DEF T
  <2>4. Carrying(S) \subseteq Carrying(T) /\ Holding(S) \subseteq Holding(T)
    BY <2>3, CarryingMono
  <2>5. /\ in_flight \in Seq(Holding(T)) /\ owed \in Seq(T) /\ line \in Seq(Carrying(T))
        /\ chunk \in Seq(Carrying(T)) /\ <<>> \in Seq(Carrying(T))
    BY <1>5, <2>3, <2>4, SeqMonotonic
  <2>6. in_flight' \in Seq(Holding(T)) /\ (outbound'.kind = "Data" => outbound'.payload \in T)
    BY <1>7, <2>1, <2>3, <2>5, SendDataHolding DEF NcpInv, p
  <2> QED BY <1>1, <2>3, <2>5, <2>6, FormatFrom
<1> QED BY <1>6, <1>7, StartCommandDoes

\* The layouts under every step.
LEMMA NextFormat ==
    ASSUME NcpInv, NcpInv', FormatInv, NcpNext PROVE FormatInv'
<1>1. PICK S : S = Expected
  OBVIOUS
<1>2. /\ in_flight \in Seq(Holding(S)) /\ owed \in Seq(S) /\ line \in Seq(Carrying(S))
      /\ chunk \in Seq(Carrying(S)) /\ <<>> \in Seq(Carrying(S)) /\ asked.token = issued
      /\ outbound.kind = "Data" => outbound.payload \in S
  BY <1>1, EmptySeq DEF FormatInv
<1>3. ASSUME UNCHANGED <<issued, asked>>, pending' = <<>> \/ UNCHANGED <<pending, pending_format>>,
             in_flight' \in Seq(Holding(S)), outbound'.kind = "Data" => outbound'.payload \in S,
             owed' \in Seq(S), line' \in Seq(Carrying(S)), chunk' \in Seq(Carrying(S))
      PROVE  FormatInv'
  <2>1. S \subseteq Expected'
    BY <1>1, <1>3, ExpectedStays
  <2> QED BY <1>2, <1>3, <2>1, FormatFrom
<1>4. CASE ResetAttempt
  <2>1. /\ UNCHANGED <<issued, asked, pending, pending_format, owed, line>>
        /\ chunk' = <<>> \/ chunk' = chunk
    BY <1>4 DEF ResetAttempt, Return, corrVars, hostVars, ncpVars, boundVars
  <2>2. CASE UNCHANGED connVars
    BY <1>2, <1>3, <2>1, <2>2 DEF connVars
  <2>3. CASE begin_reset
    BY <1>2, <1>3, <2>1, <2>3, BeginResetHolding
  <2> QED BY <1>4, <2>2, <2>3 DEF ResetAttempt
<1>5. CASE Write
  <2>1. /\ UNCHANGED <<in_flight, outbound, issued, asked, pending, pending_format>>
        /\ chunk' = <<>> \/ chunk' = chunk
        /\ NcpTakes(outbound) \/ UNCHANGED ncpVars
    BY <1>5 DEF Write, Return, connVars, corrVars, hostVars
  <2> QED BY <2>1, SameFormat, TakesFormat DEF ncpVars
<1>6. ASSUME NEW outcome, NoAnswer(outcome)
      PROVE  /\ chunk' = <<>>
             /\ pending' = <<>> \/ UNCHANGED pending
  BY <1>6 DEF NoAnswer, Return, on_ncp_reset, time_out, corrVars
<1>7. ASSUME NEW outcome, PumpEnds(outcome)
      PROVE  /\ UNCHANGED <<in_flight, outbound, asked, pending_format>>
             /\ chunk' = <<>> /\ (pending' = <<>> \/ UNCHANGED pending)
  BY <1>6, <1>7 DEF PumpEnds, Return, connVars, corrVars, hostVars
<1>8. CASE PumpReturns
  <2>1. /\ UNCHANGED <<in_flight, outbound, issued, asked, owed, line, pending_format>>
        /\ chunk' = <<>> /\ (pending' = <<>> \/ UNCHANGED pending)
    BY <1>6, <1>8 DEF PumpReturns, ResetDone, Answered, Disconnected, PollDone, Return,
                      new_correlator, connVars, corrVars, hostVars, ncpVars, boundVars
  <2> QED BY <2>1, SameFormat
<1>9. CASE PumpRead
  <2>1. PICK n \in 1 .. MaxChunk :
           n <= Len(line) /\ chunk' = SubSeq(line, 1, n) /\ line' = SubSeq(line, n + 1, Len(line))
    BY <1>9 DEF PumpRead
  <2>2. n \in 1 .. Len(line)
    BY <1>2, <2>1, NcpAssumption
  <2>3. chunk' \in Seq(Carrying(S)) /\ line' \in Seq(Carrying(S))
    BY <1>2, <2>1, <2>2, PartsOver
  <2>4. UNCHANGED <<in_flight, outbound, issued, asked, owed, pending, pending_format>>
    BY <1>9 DEF PumpRead, connVars, corrVars, hostVars, boundVars
  <2> QED BY <1>2, <1>3, <2>3, <2>4
<1>10. CASE PumpTimeout \/ PumpReadFails
  <2>1. UNCHANGED <<owed, line, issued>>
    BY <1>10 DEF PumpTimeout, PumpReadFails, ncpVars, boundVars
  <2> QED BY <1>7, <1>10, <2>1, SameFormat DEF PumpTimeout, PumpReadFails
<1>11. CASE Consume
  <2>1. chunk # <<>> /\ chunk' = Tail(chunk)
    BY <1>11 DEF Consume, NcpInv, TaskOK
  <2>2. chunk' \in Seq(Carrying(S))
    BY <1>2, <2>1, PartsOver
  <2>3. in_flight' \in Seq(Holding(S)) /\ (outbound'.kind = "Data" => outbound'.payload \in S)
    BY <1>2, <1>11, ConsumeHolding DEF NcpInv
  <2>4. UNCHANGED <<issued, asked, owed, line, pending, pending_format>>
    BY <1>11 DEF Consume, corrVars, hostVars, ncpVars, boundVars
  <2> QED BY <1>2, <1>3, <2>2, <2>3, <2>4
<1>12. CASE Reply
  <2>1. CASE PumpEnds("TooLong") \/ PumpEnds("Transport")
    <3>1. UNCHANGED <<issued, asked>>
      BY <1>12, <2>1 DEF Reply, PumpEnds
    <3>2. NcpTakes(outbound) \/ UNCHANGED ncpVars
      BY <1>12 DEF Reply
    <3> QED BY <1>7, <2>1, <3>1, <3>2, SameFormat, TakesFormat DEF ncpVars
  <2>2. CASE /\ NcpTakes(outbound) /\ UNCHANGED <<connVars, chunk, asked>>
             /\ \/ UNCHANGED <<corrVars, hostVars>>
                \/ dispatch(received[1])
    <3>1. UNCHANGED <<issued, asked, chunk, in_flight, outbound>>
      BY <1>12, <2>2 DEF Reply, connVars
    <3>2. ASSUME NEW frame, File(frame) PROVE pending' = <<>> \/ UNCHANGED <<pending, pending_format>>
      BY <3>2 DEF File, classify
    <3>3. pending' = <<>> \/ UNCHANGED <<pending, pending_format>>
      BY <2>2, <3>2 DEF dispatch, corrVars, hostVars
    <3> QED BY <2>2, <3>1, <3>3, TakesFormat
  <2> QED BY <1>12, <2>1, <2>2 DEF Reply
<1>13. CASE ConnectOffers \/ ConnectAgrees
  BY <1>13, StartCommandFormat DEF ConnectOffers, ConnectAgrees, Versions
<1>14. CASE AppCommands
  <2>1. version \in Versions /\ "none" \in Versions
    BY DEF NcpInv, CountersOK, Versions
  <2> QED BY <1>14, <2>1, StartCommandFormat DEF AppCommands
<1>15. CASE ConnectStarts \/ AppResets
  BY <1>15, SameFormat DEF ConnectStarts, AppResets, StartReset, connVars, corrVars, hostVars, ncpVars
<1>16. CASE ConnectReturns \/ AppPolls \/ AppTakesCallbacks
  BY <1>16, SameFormat DEF ConnectReturns, AppPolls, AppTakesCallbacks,
                           connVars, corrVars, taskVars, hostVars, ncpVars, boundVars
<1>17. CASE AppDrops
  <2>1. /\ UNCHANGED <<in_flight, outbound, issued, asked, pending, pending_format>>
        /\ chunk' = <<>>
        /\ NcpTakes(outbound) \/ UNCHANGED ncpVars
    BY <1>17 DEF AppDrops, Return, connVars, corrVars, hostVars
  <2> QED BY <2>1, SameFormat, TakesFormat DEF ncpVars
<1>18. CASE NcpAnswers \/ NcpCallsBack
  <2>1. UNCHANGED <<in_flight, outbound, issued, asked, chunk, pending, pending_format>>
    BY <1>18 DEF NcpAnswers, NcpCallsBack, connVars, corrVars, taskVars, hostVars, boundVars
  <2>2. CASE NcpAnswers
    <3>1. /\ owed # <<>> /\ owed' = Tail(owed) /\ NcpSends(Head(owed))
          /\ Head(owed) \in S /\ Head(owed) \in EzspFrames /\ Tail(owed) \in Seq(S)
      BY <1>1, <1>2, <2>2, PartsOver DEF NcpAnswers, Expected
    <3>2. line' \in Seq(Carrying(S))
      BY <1>2, <3>1, SendsCarrying DEF NcpInv
    <3> QED BY <1>2, <1>3, <2>1, <3>1, <3>2
  <2>3. CASE NcpCallsBack
    <3>1. PICK frame \in EventFrames : NcpSends(frame)
      BY <2>3, CallbackTells
    <3>2. frame \in S /\ frame \in EzspFrames /\ UNCHANGED owed
      BY <1>1, <2>3 DEF EventFrames, Expected, NcpCallsBack
    <3>3. line' \in Seq(Carrying(S))
      BY <1>2, <3>1, <3>2, SendsCarrying DEF NcpInv
    <3> QED BY <1>2, <1>3, <2>1, <3>2, <3>3
  <2> QED BY <1>18, <2>2, <2>3
<1>19. CASE NcpSurprises
  <2>1. UNCHANGED <<in_flight, outbound, issued, asked, chunk, pending, pending_format>>
    BY <1>19 DEF NcpSurprises, connVars, corrVars, taskVars, hostVars, boundVars
  <2>2. PICK f : f \in Carrying(S) /\ line' = Append(line, f) /\ (owed' = <<>> \/ owed' = owed)
    BY <1>19, ControlFrames DEF NcpSurprises, NcpFails, NcpTakesRst, Noise
  <2>3. line' \in Seq(Carrying(S)) /\ owed' \in Seq(S)
    BY <1>2, <2>2, AppendType, EmptySeq, Zenon
  <2> QED BY <1>2, <1>3, <2>1, <2>3
<1> QED
  BY <1>4, <1>5, <1>8, <1>9, <1>10, <1>11, <1>12, <1>13, <1>14, <1>15, <1>16, <1>17, <1>18, <1>19
  DEF NcpNext, TaskStep

\* A new Ncp expects nothing and has sent nothing.
LEMMA InitFormat == NcpInit => FormatInv
BY EmptySeq DEF NcpInit, Init, FormatInv, NothingAsked, Nothing

\* The layouts hold whatever the application, the NCP and the transport do.
THEOREM FormatInvHolds == NcpSpec => []FormatInv
<1>1. NcpInv /\ NcpInv' /\ FormatInv /\ [NcpNext]_ncpAllVars => FormatInv'
  <2> SUFFICES ASSUME NcpInv, NcpInv', FormatInv, UNCHANGED ncpAllVars PROVE FormatInv'
    BY NextFormat
  <2>1. UNCHANGED <<in_flight, outbound, owed, line, issued, asked, chunk, pending, pending_format>>
    BY DEF ncpAllVars, connVars, corrVars, taskVars, hostVars, ncpVars, boundVars
  <2> QED BY <2>1, SameFormat
<1> QED BY <1>1, InitFormat, NcpInvHolds, PTL DEF NcpSpec

\* As long as a command is outstanding, every answer to it on its way is in the layout dispatch will
\* parse it with: neither a command that failed before it, nor a late answer, nor a dropped call can
\* leave the wrong one behind.
THEOREM OwnAnswerAlwaysReadable == NcpSpec => []OwnAnswerIsReadable
<1>1. NcpInv /\ FormatInv => OwnAnswerIsReadable
  <2> SUFFICES ASSUME NcpInv, FormatInv PROVE OwnAnswerIsReadable
    OBVIOUS
  <2> DEFINE Payloads(frames) ==
               {frames[i].payload : i \in {j \in 1 .. Len(frames) : frames[j].kind = "Data"}}
  <2>1. {owed[i] : i \in 1 .. Len(owed)} \subseteq Expected
    BY DEF FormatInv
  <2>2. Payloads(line) \subseteq Expected /\ Payloads(chunk) \subseteq Expected
    BY DEF FormatInv, Carrying
  <2>3. \A f \in Expected :
           (pending # <<>> /\ f.token = asked.token /\ f.kind = "Response")
               => pending_format = <<f.format>>
    BY DEF Expected, FormatInv
  <2> QED BY <2>1, <2>2, <2>3 DEF OwnAnswerIsReadable
<1> QED BY <1>1, FormatInvHolds, NcpInvHolds, PTL

-----------------------------------------------------------------------------
(* The order of the task *)

\* A method returns, or reset goes on to its next attempt.
LEMMA PumpEndsDoes ==
    ASSUME NEW outcome \in {"Ok", "Transport", "TooLong"}, PumpEnds(outcome)
    PROVE  /\ UNCHANGED <<connVars, hostVars, connecting, version>> /\ chunk' = <<>>
           /\ \/ op = "reset" /\ pc' = "retry" /\ UNCHANGED <<corrVars, op, result>>
              \/ /\ op \in {"command", "poll"} /\ pc' = "idle" /\ op' = "none"
                 /\ result'.version = "none" /\ (op = "command" => result'.kind # "Ok")
                 /\ op = "command" => corrVars' = corrVars \/ pending' = <<>>
<1>1. /\ UNCHANGED <<connVars, hostVars, connecting, version>> /\ chunk' = <<>>
  BY DEF PumpEnds, NoAnswer, Return
<1>2. CASE op = "reset"
  BY <1>1, <1>2 DEF PumpEnds
<1>3. CASE op = "command" /\ NoAnswer(outcome)
  BY <1>1, <1>3 DEF NoAnswer, Return, Returned, on_ncp_reset, time_out
<1>4. CASE op = "poll" /\ Return(Returned(outcome))
  BY <1>1, <1>4 DEF Return, Returned
<1> QED BY <1>2, <1>3, <1>4 DEF PumpEnds

\* pump_until is done, and the method with it.
LEMMA PumpReturnsDoes ==
    ASSUME PumpReturns
    PROVE  /\ pc = "pump" /\ pc' = "idle" /\ op' = "none" /\ chunk' = <<>>
           /\ UNCHANGED <<connVars, connecting, version, ncpVars, boundVars, pending_format>>
           /\ callbacks' \in {callbacks, <<>>}
           /\ \/ op = "reset" /\ result' = Returned("Ok") /\ ~initial_version_sent'
                   /\ pending' = <<>> /\ next_sequence_number' = 0 /\ UNCHANGED response
              \/ op = "command" /\ response # <<>> /\ response' = <<>>
                   /\ result'.version \in {"none", response[1].version}
                   /\ UNCHANGED <<corrVars, callbacks, initial_version_sent>>
              \/ op = "command" /\ response = <<>> /\ result'.kind # "Ok" /\ result'.version = "none"
                   /\ UNCHANGED <<response, callbacks, initial_version_sent>>
              \/ op = "poll" /\ result' = Returned("Ok") /\ UNCHANGED <<corrVars, response, initial_version_sent>>
<1>1. /\ pc = "pump" /\ UNCHANGED <<connVars, connecting, version, ncpVars, boundVars>>
  BY DEF PumpReturns
<1>2. CASE ResetDone
  BY <1>1, <1>2 DEF ResetDone, Return, new_correlator
<1>3. CASE Answered
  BY <1>1, <1>3 DEF Answered, Return, Returned
<1>4. CASE Disconnected
  BY <1>1, <1>4 DEF Disconnected, NoAnswer, Return, Returned, hostVars
<1>5. CASE PollDone
  BY <1>1, <1>5 DEF PollDone, Return
<1> QED BY <1>2, <1>3, <1>4, <1>5 DEF PumpReturns

\* The order of the task under every step.
LEMMA NextInOrder ==
    ASSUME NcpInv, NcpInv', TaskInOrder, VersionsAreTrue, NcpNext PROVE TaskInOrder'
<1> USE DEF TaskInOrder
<1>1. CASE ResetAttempt
  BY <1>1 DEF ResetAttempt, Return, boundVars, Nothing
<1>2. CASE Write
  BY <1>2 DEF Write, Return, connVars
<1>3. CASE PumpReturns
  BY <1>3, PumpReturnsDoes DEF boundVars
<1>4. CASE PumpRead
  BY <1>4 DEF PumpRead, boundVars
<1>5. CASE PumpTimeout \/ PumpReadFails
  BY <1>5, PumpEndsDoes DEF PumpTimeout, PumpReadFails, boundVars
<1>6. CASE Consume
  <2>1. outbound'.kind # "Rst"
    BY <1>6, ConsumeHolding DEF VersionsAreTrue, NcpInv
  <2>2. pc' \in {"pump", "consume", "reply"} /\ (pc' = "pump" => chunk' = <<>>)
    BY <1>6 DEF Consume, AfterFrame
  <2>3. UNCHANGED <<op, connecting, resets, surprises>>
    BY <1>6 DEF Consume, boundVars
  <2> QED BY <2>1, <2>2, <2>3
<1>7. CASE Reply
  <2>1. UNCHANGED <<resets, surprises>>
    BY <1>7 DEF Reply
  <2>2. CASE PumpEnds("TooLong") \/ PumpEnds("Transport")
    BY <2>1, <2>2, PumpEndsDoes
  <2>3. CASE pc' = AfterFrame(chunk) /\ UNCHANGED <<op, chunk, connecting>>
    BY <2>1, <2>3 DEF AfterFrame
  <2> QED BY <1>7, <2>2, <2>3 DEF Reply
<1>8. ASSUME NEW frame_id \in Commands \cup {"version"}, NEW desired \in Versions,
             StartCommand(frame_id, desired), connecting # "start"
      PROVE  TaskInOrder'
  BY <1>8, StartCommandDoes
<1>9. CASE ConnectOffers \/ ConnectAgrees \/ AppCommands
  <2>1. version \in Versions /\ {"none", "preferred", "older"} \subseteq Versions
    BY DEF NcpInv, CountersOK, Versions
  <2> QED BY <1>8, <1>9, <2>1 DEF ConnectOffers, ConnectAgrees, AppCommands
<1>10. CASE ConnectStarts \/ AppResets
  BY <1>10 DEF ConnectStarts, AppResets, StartReset
<1>11. CASE ConnectReturns
  <2>1. op = "none"
    BY <1>11 DEF ConnectReturns, NcpInv, TaskOK
  <2> QED BY <1>11, <2>1 DEF ConnectReturns, Negotiated, boundVars
<1>12. CASE AppPolls \/ AppTakesCallbacks \/ AppDrops
  BY <1>12 DEF AppPolls, AppTakesCallbacks, AppDrops, Return, taskVars, connVars, boundVars
<1>13. CASE NcpAnswers \/ NcpCallsBack \/ NcpSurprises
  BY <1>13 DEF NcpAnswers, NcpCallsBack, NcpSurprises, taskVars, connVars, boundVars
<1> QED
  BY <1>1, <1>2, <1>3, <1>4, <1>5, <1>6, <1>7, <1>9, <1>10, <1>11, <1>12, <1>13 DEF NcpNext, TaskStep

-----------------------------------------------------------------------------
(* Before the offer *)

\* A step that leaves the handshake's state alone but for where the task is.
LEMMA SameBeforeOffer ==
    ASSUME BeforeOffer, connecting' = connecting, connecting \in {"start", "reset"},
           UNCHANGED <<resets, surprises, issued, connVars, corrVars, hostVars, ncpVars>>,
           chunk' = <<>> \/ chunk' = chunk, op' = op, pc' # "reply"
    PROVE  BeforeOffer'
<1>1. chunk' \in Seq({RstAck})
  BY EmptySeq DEF BeforeOffer
<1> QED BY <1>1 DEF BeforeOffer, connVars, corrVars, hostVars, ncpVars

\* Nothing reaches the host before the offer but RSTACKs, in any number.
LEMMA NextBeforeOffer ==
    ASSUME NcpInv, NcpInv', TaskInOrder, TaskInOrder', BeforeOffer, NcpNext PROVE BeforeOffer'
<1> SUFFICES ASSUME connecting' \in {"start", "reset"} PROVE BeforeOffer'
  BY DEF BeforeOffer
<1>1. \/ connecting \in {"start", "reset"} /\ UNCHANGED connecting
      \/ connecting = "start" /\ ConnectStarts
  BY DEF NcpNext, TaskStep, ResetAttempt, Write, PumpReturns, PumpRead, PumpTimeout, PumpReadFails,
         Consume, Reply, PumpEnds, ConnectStarts, ConnectOffers, ConnectAgrees, ConnectReturns,
         AppResets, AppCommands, AppPolls, AppTakesCallbacks, AppDrops, NcpAnswers, NcpCallsBack,
         NcpSurprises, taskVars
<1>2. /\ op \in {"none", "reset"} /\ pc # "reply" /\ owed = <<>> /\ ncp_boot = "fresh"
      /\ outbound.kind \in {"Nothing", "Rst"}
      /\ line \in Seq({RstAck}) /\ chunk \in Seq({RstAck})
  BY <1>1 DEF BeforeOffer
<1>3. CASE ConnectStarts
  BY <1>3 DEF ConnectStarts, StartReset, BeforeOffer, connVars, corrVars, hostVars, ncpVars
<1>4. CASE ResetAttempt
  <2>1. /\ op = "reset" /\ op' \in {"reset", "none"} /\ (chunk' = <<>> \/ chunk' = chunk)
        /\ pc' # "reply"
        /\ UNCHANGED <<resets, surprises, issued, corrVars, hostVars, ncpVars, connecting>>
    BY <1>4 DEF ResetAttempt, Return, boundVars, TaskInOrder
  <2>2. chunk' \in Seq({RstAck})
    BY <1>2, <2>1, EmptySeq
  <2>3. connecting = "reset"
    BY <1>1, <2>1, <1>4 DEF BeforeOffer, ConnectStarts, StartReset, ResetAttempt
  <2>4. CASE UNCHANGED connVars
    BY <2>1, <2>2, <2>3, <2>4 DEF BeforeOffer, connVars, corrVars, hostVars, ncpVars
  <2>5. CASE begin_reset
    <3>1. /\ in_flight' = <<>> /\ next_tx_frame' = 0 /\ next_rx_frame' = 0
          /\ outbound' \in {Nothing, Rst} /\ received' = <<>>
      BY <2>3, <2>5 DEF begin_reset, BeforeOffer
    <3>2. outbound'.kind \in {"Nothing", "Rst"}
      BY <3>1 DEF Nothing, Rst
    <3> QED BY <2>1, <2>2, <2>3, <3>1, <3>2 DEF BeforeOffer, corrVars, hostVars, ncpVars
  <2> QED BY <1>4, <2>4, <2>5 DEF ResetAttempt
<1>5. CASE Write
  <2>1. /\ UNCHANGED <<connVars, corrVars, hostVars, resets, surprises, issued, connecting>>
        /\ pc = "write" /\ (chunk' = <<>> \/ chunk' = chunk) /\ pc' \in {"idle", "pump"}
        /\ op' \in {op, "none"} /\ (NcpTakes(outbound) \/ UNCHANGED ncpVars)
    BY <1>5 DEF Write, Return
  <2>2. op # "none" /\ connecting = "reset"
    BY <1>1, <2>1 DEF BeforeOffer, NcpInv, TaskOK, ConnectStarts, StartReset
  <2>3. chunk' \in Seq({RstAck})
    BY <1>2, <2>1, EmptySeq
  <2>4. CASE UNCHANGED ncpVars
    BY <1>2, <2>1, <2>2, <2>3, <2>4 DEF BeforeOffer, connVars, corrVars, hostVars, ncpVars
  <2>5. CASE NcpTakesRst
    <3>1. line' \in Seq({RstAck})
      BY <1>2, <2>5, AppendType DEF NcpTakesRst
    <3> QED BY <1>2, <2>1, <2>2, <2>3, <2>5, <3>1
         DEF BeforeOffer, connVars, corrVars, hostVars, NcpTakesRst
  <2> QED BY <1>2, <2>1, <2>4, <2>5 DEF NcpTakes
<1>6. CASE PumpReturns
  <2>1. op = "reset" /\ connecting = "reset"
    BY <1>1, <1>2, <1>6, PumpReturnsDoes DEF BeforeOffer, ConnectStarts, StartReset
  <2>2. <<>> \in Seq({RstAck})
    BY EmptySeq
  <2> QED BY <1>6, <2>1, <2>2, PumpReturnsDoes DEF BeforeOffer, connVars, ncpVars, boundVars
<1>7. CASE PumpRead
  <2>1. PICK n \in 1 .. MaxChunk :
           n <= Len(line) /\ chunk' = SubSeq(line, 1, n) /\ line' = SubSeq(line, n + 1, Len(line))
    BY <1>7 DEF PumpRead
  <2>2. n \in 1 .. Len(line)
    BY <1>2, <2>1, NcpAssumption
  <2>3. chunk' \in Seq({RstAck}) /\ line' \in Seq({RstAck})
    BY <1>2, <2>1, <2>2, PartsOver
  <2>4. UNCHANGED connecting
    BY <1>7 DEF PumpRead
  <2> QED BY <1>1, <1>7, <2>3, <2>4
       DEF PumpRead, BeforeOffer, connVars, corrVars, hostVars, boundVars
<1>8. CASE PumpTimeout \/ PumpReadFails
  <2>1. \E outcome \in {"Ok", "Transport"} : PumpEnds(outcome)
    BY <1>8 DEF PumpTimeout, PumpReadFails
  <2>2. /\ UNCHANGED <<resets, surprises, issued, ncpVars>>
    BY <1>8 DEF PumpTimeout, PumpReadFails, boundVars
  <2>3. op = "reset" /\ connecting = "reset" /\ UNCHANGED connecting
    BY <1>1, <1>2, <2>1, PumpEndsDoes DEF BeforeOffer
  <2>4. chunk' = <<>> /\ pc' = "retry" /\ UNCHANGED <<op, connVars, corrVars, hostVars>>
    BY <2>1, <2>3, PumpEndsDoes
  <2> QED BY <2>2, <2>3, <2>4, SameBeforeOffer
<1>9. CASE Consume
  <2>1. chunk # <<>> /\ chunk' = Tail(chunk)
    BY <1>9 DEF Consume, NcpInv, TaskOK
  <2>2. Head(chunk) = RstAck /\ chunk' \in Seq({RstAck})
    BY <1>2, <2>1, PartsOver
  <2>3. OnRstAck
    BY <1>9, <2>2 DEF Consume, on_frame, RstAck
  <2>4. outbound'.kind = "Nothing" /\ pc' # "reply"
    BY <1>9, <2>3 DEF OnRstAck, Nothing, Consume, AfterFrame
  <2>5. UNCHANGED <<connecting, op, resets, surprises, issued, corrVars, hostVars, ncpVars>>
    BY <1>9 DEF Consume, boundVars
  <2> QED BY <1>1, <2>2, <2>3, <2>4, <2>5 DEF BeforeOffer, OnRstAck, corrVars, hostVars, ncpVars
<1>10. CASE Reply \/ NcpAnswers \/ NcpCallsBack
  BY <1>2, <1>10 DEF Reply, NcpAnswers, NcpCallsBack
<1>11. CASE ConnectOffers \/ ConnectAgrees \/ ConnectReturns
  BY <1>11 DEF ConnectOffers, ConnectAgrees, ConnectReturns
<1>12. CASE AppResets \/ AppCommands \/ AppPolls \/ AppTakesCallbacks \/ AppDrops \/ NcpSurprises
  BY <1>1, <1>12 DEF AppResets, AppCommands, AppPolls, AppTakesCallbacks, AppDrops, NcpSurprises,
                     ConnectStarts
<1> QED
  BY <1>3, <1>4, <1>5, <1>6, <1>7, <1>8, <1>9, <1>10, <1>11, <1>12 DEF NcpNext, TaskStep

-----------------------------------------------------------------------------
(* What is said of the version *)

\* The parts of VersionsAreTrue, of one version.
VersionsOf(v) ==
    /\ owed \in Seq(Answers(v))
    /\ line \in Seq(Carrying(Told(v))) /\ chunk \in Seq(Carrying(Told(v)))
    /\ received # <<>> => received[1] \in Told(v)
    /\ response # <<>> => response[1].version \in {"none", v}
    /\ result.version \in {"none", v}
    /\ connecting = "up" => version = v
    /\ in_flight \in Seq(Holding(Asking(v)))
    /\ outbound.kind = "Data" => outbound.payload \in Asking(v)

\* A layout misread does not touch the rest of the frame.
LEMMA ParseKeeps ==
    ASSUME NEW frame \in EzspFrames, NEW format
    PROVE  /\ parse(frame, format).version = frame.version
           /\ parse(frame, format).kind = frame.kind
           /\ parse(frame, format).sequence = frame.sequence
           /\ frame.format = format => parse(frame, format) = frame
BY DEF parse, EzspFrames

\* The NCP takes what the host wrote, and says the truth about it.
LEMMA TakesVersions ==
    ASSUME NcpInv, VersionsAreTrue, NcpTakes(outbound) \/ UNCHANGED ncpVars
    PROVE  /\ line' \in Seq(Carrying(Told(ncp_version))) /\ owed' \in Seq(Answers(ncp_version))
           /\ UNCHANGED ncp_version
<1>1. CASE NcpTakes(outbound)
  <2>1. outbound.kind = "Data" => NcpReply(outbound.payload) \in Answers(ncp_version)
    BY ReplyTells DEF NcpInv, PayloadsOK
  <2>2. line \in Seq(Carrying(Told(ncp_version))) /\ owed \in Seq(Answers(ncp_version))
    BY DEF VersionsAreTrue
  <2> QED BY <1>1, <2>1, <2>2, TakesCarrying
<1>2. CASE UNCHANGED ncpVars
  BY <1>2 DEF ncpVars, VersionsAreTrue
<1> QED BY <1>1, <1>2

\* What the host hears and says of the version is true under every step.
LEMMA NextVersions ==
    ASSUME NcpInv, NcpInv', BeforeOffer, VersionsAreTrue, NcpNext PROVE VersionsAreTrue'
<1>1. PICK v : v = ncp_version
  OBVIOUS
<1>2. VersionsOf(v) /\ <<>> \in Seq(Carrying(Told(v)))
  BY <1>1, EmptySeq DEF VersionsAreTrue, VersionsOf
<1>3. ASSUME UNCHANGED ncp_version, VersionsOf(v)' PROVE VersionsAreTrue'
  BY <1>1, <1>3 DEF VersionsAreTrue, VersionsOf
<1>4. VersionsOf(v) => result.version \in {"none", v}
  BY DEF VersionsOf
<1>5. ASSUME NcpTakes(outbound) \/ UNCHANGED ncpVars
      PROVE  /\ line' \in Seq(Carrying(Told(v))) /\ owed' \in Seq(Answers(v))
             /\ UNCHANGED ncp_version
  BY <1>1, <1>5, TakesVersions
<1>6. ASSUME NcpTakes(outbound) \/ UNCHANGED ncpVars, chunk' = <<>> \/ chunk' = chunk,
             response' = <<>> \/ UNCHANGED response, result'.version \in {"none", v},
             connecting' = "up" => version' = v, UNCHANGED connVars
      PROVE  VersionsAreTrue'
  <2>1. chunk' \in Seq(Carrying(Told(v)))
    BY <1>2, <1>6 DEF VersionsOf
  <2>2. VersionsOf(v)'
    BY <1>2, <1>5, <1>6, <2>1 DEF VersionsOf, connVars
  <2> QED BY <1>3, <1>5, <1>6, <2>2
<1>7. ASSUME UNCHANGED <<connecting, version>> PROVE connecting' = "up" => version' = v
  BY <1>2, <1>7 DEF VersionsOf
<1>8. CASE ResetAttempt
  <2>1. /\ UNCHANGED <<ncpVars, response, connecting, version>> /\ (chunk' = <<>> \/ chunk' = chunk)
        /\ result'.version \in {"none", v}
    BY <1>2, <1>4, <1>8 DEF ResetAttempt, Return, Returned, hostVars
  <2>2. CASE UNCHANGED connVars
    BY <1>6, <1>7, <2>1, <2>2
  <2>3. CASE begin_reset
    <3>1. in_flight' \in Seq(Holding(Asking(v))) /\ outbound'.kind # "Data" /\ received' = <<>>
      BY <1>2, <2>3, BeginResetHolding DEF VersionsOf
    <3>2. VersionsOf(v)' /\ UNCHANGED ncp_version
      BY <1>2, <1>7, <2>1, <3>1 DEF VersionsOf, ncpVars
    <3> QED BY <1>3, <3>2
  <2> QED BY <1>8, <2>2, <2>3 DEF ResetAttempt
<1>9. CASE Write \/ AppDrops
  <2>1. /\ UNCHANGED <<connVars, response, connecting, version>> /\ (chunk' = <<>> \/ chunk' = chunk)
        /\ result'.version \in {"none", v} /\ (NcpTakes(outbound) \/ UNCHANGED ncpVars)
    BY <1>2, <1>4, <1>9 DEF Write, AppDrops, Return, Returned, hostVars
  <2> QED BY <1>6, <1>7, <2>1
<1>10. CASE PumpReturns
  <2>1. result'.version \in {"none", v} /\ (response' = <<>> \/ UNCHANGED response)
    BY <1>2, <1>10, PumpReturnsDoes DEF VersionsOf, Returned
  <2> QED BY <1>6, <1>7, <1>10, <2>1, PumpReturnsDoes
<1>11. CASE PumpRead
  <2>1. PICK n \in 1 .. MaxChunk :
           n <= Len(line) /\ chunk' = SubSeq(line, 1, n) /\ line' = SubSeq(line, n + 1, Len(line))
    BY <1>11 DEF PumpRead
  <2>2. n \in 1 .. Len(line)
    BY <2>1, NcpAssumption DEF NcpInv, LineOK
  <2>3. chunk' \in Seq(Carrying(Told(v))) /\ line' \in Seq(Carrying(Told(v)))
    BY <1>2, <2>1, <2>2, PartsOver DEF VersionsOf
  <2>4. VersionsOf(v)' /\ UNCHANGED ncp_version
    BY <1>2, <1>11, <2>3 DEF VersionsOf, PumpRead, connVars, hostVars
  <2> QED BY <1>3, <2>4
<1>12. ASSUME NEW outcome \in {"Ok", "Transport", "TooLong"}, PumpEnds(outcome), UNCHANGED ncpVars
       PROVE  VersionsAreTrue'
  <2>1. /\ UNCHANGED <<connVars, response, connecting, version>> /\ chunk' = <<>>
        /\ result'.version \in {"none", v}
    BY <1>2, <1>4, <1>12, PumpEndsDoes DEF hostVars
  <2> QED BY <1>6, <1>7, <1>12, <2>1
<1>13. CASE PumpTimeout \/ PumpReadFails
  BY <1>12, <1>13 DEF PumpTimeout, PumpReadFails
<1>14. CASE Consume
  <2>1. chunk # <<>> /\ chunk' = Tail(chunk)
    BY <1>14 DEF Consume, NcpInv, TaskOK
  <2>2. chunk' \in Seq(Carrying(Told(v))) /\ Head(chunk) \in Carrying(Told(v))
    BY <1>2, <2>1, PartsOver DEF VersionsOf
  <2>3. /\ in_flight' \in Seq(Holding(Asking(v)))
        /\ outbound'.kind = "Data" => outbound'.payload \in Asking(v)
        /\ received' # <<>> => received'[1] \in Told(v)
    BY <1>2, <1>14, <2>2, ConsumeHolding DEF NcpInv, VersionsOf, Carrying
  <2>4. UNCHANGED <<owed, line, response, result, connecting, version, ncp_version>>
    BY <1>14 DEF Consume, hostVars, ncpVars
  <2>5. VersionsOf(v)'
    BY <1>2, <2>2, <2>3, <2>4 DEF VersionsOf
  <2> QED BY <1>3, <2>4, <2>5
<1>15. CASE Reply
  <2>1. CASE (PumpEnds("TooLong") \/ PumpEnds("Transport")) /\ UNCHANGED ncpVars
    BY <1>12, <2>1
  <2>2. CASE /\ NcpTakes(outbound) /\ UNCHANGED <<connVars, chunk, result, connecting, version>>
             /\ \/ received = <<>> /\ UNCHANGED <<corrVars, hostVars>>
                \/ received # <<>> /\ dispatch(received[1])
    <3>1. CASE UNCHANGED response
      BY <1>2, <1>4, <1>6, <1>7, <2>2, <3>1
    <3>2. CASE /\ received # <<>>
               /\ \E format : response' = <<parse(received[1], format)>>
      <4>1. received[1] \in Told(v) /\ received[1] \in EzspFrames
        BY <1>2, <3>2 DEF VersionsOf, Told
      <4>2. response'[1].version \in {"none", v}
        BY <3>2, <4>1, ParseKeeps DEF Told
      <4>3. VersionsOf(v)'
        BY <1>2, <1>5, <2>2, <4>2 DEF VersionsOf, connVars
      <4> QED BY <1>3, <1>5, <2>2, <4>3
    <3> QED BY <2>2, <3>1, <3>2 DEF dispatch, File, hostVars
  <2> QED BY <1>15, <2>1, <2>2 DEF Reply
<1>16. ASSUME NEW frame_id \in Commands \cup {"version"}, NEW desired \in Versions,
              StartCommand(frame_id, desired), connecting' = "up" => connecting = "up",
              frame_id = "version" /\ HeaderFormat(frame_id) = "Extended" => desired = v
       PROVE  VersionsAreTrue'
  <2>1. /\ UNCHANGED <<version, response, ncpVars>> /\ (chunk' = <<>> \/ chunk' = chunk)
        /\ result'.version = "none"
    BY <1>16, StartCommandDoes
  <2>2. CASE UNCHANGED connVars
    BY <1>2, <1>6, <1>16, <2>1, <2>2 DEF VersionsOf
  <2>3. CASE frame_id # "absent" /\ send_data(Sent(frame_id, desired))
    <3> DEFINE p == Sent(frame_id, desired)
    <3>1. p \in Asking(v) /\ p \in Payload
      BY <1>16, <2>3, SentType DEF Asking
    <3> HIDE DEF p
    <3>2. /\ in_flight' \in Seq(Holding(Asking(v))) /\ received' = <<>>
          /\ outbound'.kind = "Data" => outbound'.payload \in Asking(v)
      BY <1>2, <2>3, <3>1, SendDataHolding DEF NcpInv, VersionsOf, p
    <3>3. chunk' \in Seq(Carrying(Told(v)))
      BY <1>2, <2>1 DEF VersionsOf
    <3>4. VersionsOf(v)' /\ UNCHANGED ncp_version
      BY <1>2, <1>16, <2>1, <3>2, <3>3 DEF VersionsOf, ncpVars
    <3> QED BY <1>3, <3>4
  <2> QED BY <1>16, <2>2, <2>3, StartCommandDoes
<1>17. CASE ConnectOffers \/ ConnectAgrees \/ AppCommands
  <2>1. version \in Versions /\ {"none", "preferred", "older"} \subseteq Versions
    BY DEF NcpInv, CountersOK, Versions
  <2>2. CASE ConnectOffers
    <3>1. HeaderFormat("version") # "Extended"
      BY <2>2 DEF ConnectOffers, BeforeOffer, HeaderFormat
    <3> QED BY <1>16, <2>1, <2>2, <3>1 DEF ConnectOffers
  <2>3. CASE ConnectAgrees
    BY <1>2, <1>4, <1>16, <2>1, <2>3 DEF ConnectAgrees
  <2>4. CASE AppCommands
    BY <1>2, <1>16, <2>1, <2>4 DEF AppCommands, VersionsOf
  <2> QED BY <1>17, <2>2, <2>3, <2>4
<1>18. CASE ConnectStarts \/ AppResets
  <2>1. /\ UNCHANGED <<ncpVars, chunk, response, result, connVars, version>>
        /\ connecting' = "up" => connecting = "up"
    BY <1>18 DEF ConnectStarts, AppResets, StartReset, hostVars
  <2> QED BY <1>2, <1>4, <1>6, <2>1 DEF VersionsOf
<1>19. CASE ConnectReturns
  <2>1. connecting' = "up" => version' = v
    BY <1>2, <1>4, <1>19 DEF ConnectReturns, Negotiated
  <2>2. UNCHANGED <<ncpVars, chunk, response, result, connVars>>
    BY <1>19 DEF ConnectReturns, hostVars
  <2> QED BY <1>2, <1>4, <1>6, <2>1, <2>2
<1>20. CASE AppPolls \/ AppTakesCallbacks
  BY <1>2, <1>4, <1>6, <1>7, <1>20 DEF AppPolls, AppTakesCallbacks, taskVars, hostVars
<1>21. CASE NcpAnswers \/ NcpCallsBack
  <2>1. UNCHANGED <<connVars, chunk, response, result, connecting, version, ncp_version>>
    BY <1>21 DEF NcpAnswers, NcpCallsBack, taskVars, hostVars
  <2>2. line' \in Seq(Carrying(Told(v))) /\ owed' \in Seq(Answers(v))
    <3>1. CASE NcpAnswers
      <4>1. /\ owed # <<>> /\ owed' = Tail(owed) /\ NcpSends(Head(owed))
            /\ Head(owed) \in Answers(v) /\ Tail(owed) \in Seq(Answers(v))
        BY <1>2, <3>1, PartsOver DEF NcpAnswers, VersionsOf
      <4>2. Head(owed) \in Told(v) /\ Head(owed) \in EzspFrames
        BY <4>1 DEF Answers, Told
      <4> QED BY <1>2, <4>1, <4>2, SendsCarrying DEF NcpInv, VersionsOf
    <3>2. CASE NcpCallsBack
      <4>1. PICK frame \in EventFrames : NcpSends(frame) /\ frame \in Told(v)
        BY <3>2, CallbackTells
      <4>2. frame \in EzspFrames /\ UNCHANGED owed
        BY <3>2 DEF EventFrames, NcpCallsBack
      <4> QED BY <1>2, <4>1, <4>2, SendsCarrying DEF NcpInv, VersionsOf
    <3> QED BY <1>21, <3>1, <3>2
  <2>3. VersionsOf(v)'
    BY <1>2, <2>1, <2>2 DEF VersionsOf, connVars
  <2> QED BY <1>3, <2>1, <2>3
<1>22. CASE NcpSurprises
  <2>1. UNCHANGED <<connVars, chunk, response, result, connecting, version>>
    BY <1>22 DEF NcpSurprises, taskVars, hostVars
  <2>2. PICK f : /\ f \in Carrying(Told(v)) /\ line' = Append(line, f)
                 /\ (owed' = <<>> \/ owed' = owed) /\ UNCHANGED ncp_version
    BY <1>22, ControlFrames DEF NcpSurprises, NcpFails, NcpTakesRst, Noise
  <2>3. line' \in Seq(Carrying(Told(v)))
    BY <1>2, <2>2, AppendType DEF VersionsOf
  <2>4. owed' \in Seq(Answers(v))
    BY <1>2, <2>2, EmptySeq, Zenon DEF VersionsOf
  <2>5. VersionsOf(v)'
    BY <1>2, <2>1, <2>3, <2>4 DEF VersionsOf, connVars
  <2> QED BY <1>3, <2>2, <2>5
<1> QED
  BY <1>8, <1>9, <1>10, <1>11, <1>13, <1>14, <1>15, <1>17, <1>18, <1>19, <1>20, <1>21, <1>22
  DEF NcpNext, TaskStep

-----------------------------------------------------------------------------
(* The first exchange *)

\* The acknowledgement of the first frame.
LEMMA FirstNumbers ==
    /\ 0 \in SeqNum /\ 1 \in SeqNum /\ next_sequence(0) = 1
    /\ Ack(1) \in AcknowledgeFirst
    /\ \A S : {RstAck} \subseteq Carrying(S)
    /\ {RstAck} \subseteq AcknowledgeFirst
<1>1. 0 \in SeqNum /\ 1 \in SeqNum /\ next_sequence(0) = 1
  BY ModulusAssumption, WindowAssumption DEF SeqNum, next_sequence
<1>2. Ack(1) \in LineFrames /\ Ack(1).kind = "Ack" /\ Ack(1).ack_num = 1
  BY <1>1 DEF Ack, LineFrames, AckFrames
<1> QED BY <1>1, <1>2, ControlFrames DEF AcknowledgeFirst

\* The answer to the first command, on the line.
LEMMA AnswerFrameType ==
    ASSUME NEW v, FirstAnswer(v) \in EzspFrames
    PROVE  /\ AnswerFrame(v) \in AcknowledgeFirst /\ AnswerFrame(v) \in LineFrames
           /\ AnswerFrame(v).kind = "Data" /\ AnswerFrame(v).frame_num = 0
           /\ AnswerFrame(v).ack_num = 1 /\ AnswerFrame(v).payload = FirstAnswer(v)
<1>1. /\ AnswerFrame(v).kind = "Data" /\ AnswerFrame(v).frame_num = 0
      /\ AnswerFrame(v).ack_num = 1 /\ AnswerFrame(v).payload = FirstAnswer(v)
  BY DEF AnswerFrame, Data
<1>2. AnswerFrame(v) \in LineFrames
  BY FirstNumbers DEF AnswerFrame, Data, LineFrames, LineData
<1> QED BY <1>1, <1>2 DEF AcknowledgeFirst

\* Behind frames without payload, the answer is first.
LEMMA AnswerSent ==
    ASSUME NEW v, NEW s \in Seq(Carrying({})), NEW t \in Seq(Carrying({}))
    PROVE  AnswerFirst(s \o Append(t, AnswerFrame(v)), v)
<1> DEFINE a == AnswerFrame(v)
           w == s \o Append(t, a)
           T == Carrying({}) \cup {a}
<1>1. s \in Seq(T) /\ t \in Seq(T) /\ a \in T
  BY SeqMonotonic
<1>7. \A f \in Carrying({}) : f.kind # "Data"
  BY DEF Carrying
<1> HIDE DEF a, T
<1>2. PICK m, n : m = Len(s) /\ n = Len(t) /\ m \in Nat /\ n \in Nat
  BY <1>1, LenProperties
<1>3. /\ Append(t, a) \in Seq(T) /\ Len(Append(t, a)) = n + 1 /\ Append(t, a)[n + 1] = a
      /\ \A i \in 1 .. n : Append(t, a)[i] = t[i]
  BY <1>1, <1>2
<1>4. Len(w) = m + n + 1 /\ w[m + n + 1] = a
  BY <1>1, <1>2, <1>3, ConcatProperties
<1>5. \A i \in 1 .. (m + n) : w[i].kind # "Data"
  <2> SUFFICES ASSUME NEW i \in 1 .. (m + n) PROVE w[i].kind # "Data"
    OBVIOUS
  <2>1. CASE i <= m
    <3>1. w[i] = s[i] /\ s[i] \in Carrying({})
      BY <1>1, <1>2, <1>3, <2>1, ConcatProperties
    <3> QED BY <1>7, <3>1
  <2>2. CASE i > m
    <3>1. w[i] = Append(t, a)[i - m] /\ i - m \in 1 .. n
      BY <1>1, <1>2, <1>3, <2>2, ConcatProperties
    <3>2. w[i] = t[i - m] /\ t[i - m] \in Carrying({})
      BY <1>2, <1>3, <3>1, ElementOfSeq
    <3> QED BY <1>7, <3>2
  <2>3. i <= m \/ i > m
    BY <1>2
  <2> QED BY <2>1, <2>2, <2>3
<1> HIDE DEF w
<1>6. AnswerFirst(w, v)
  <2>1. PICK j : j = m + n + 1 /\ j \in 1 .. Len(w) /\ j - 1 = m + n /\ Len(w) = j
    BY <1>2, <1>4
  <2>2. \A i \in (j + 1) .. Len(w) : FALSE
    BY <1>2, <2>1
  <2> QED BY <1>4, <1>5, <2>1, <2>2 DEF AnswerFirst, a
<1> QED BY <1>6 DEF w, a

\* A callback, or no payload at all, behind it leaves it first.
LEMMA AnswerStaysFirst ==
    ASSUME NEW v, NEW w \in Seq(LineFrames), AnswerFirst(w, v), NEW f \in Carrying(EventFrames)
    PROVE  AnswerFirst(Append(w, f), v)
<1>1. PICK j \in 1 .. Len(w) :
         /\ w[j] = AnswerFrame(v)
         /\ \A i \in 1 .. (j - 1) : w[i].kind # "Data"
         /\ \A i \in (j + 1) .. Len(w) : w[i] \in Carrying(EventFrames)
  BY DEF AnswerFirst
<1>2. PICK n : n = Len(w) /\ n \in Nat
  OBVIOUS
<1>3. f \in LineFrames
  BY DEF Carrying
<1>4. PICK x : x = Append(w, f)
  OBVIOUS
<1>5. Len(x) = n + 1 /\ x[n + 1] = f /\ \A i \in 1 .. n : x[i] = w[i]
  BY <1>2, <1>3, <1>4
<1>6. j \in 1 .. Len(x) /\ x[j] = AnswerFrame(v)
  BY <1>1, <1>2, <1>5
<1>7. \A i \in 1 .. (j - 1) : x[i].kind # "Data"
  BY <1>1, <1>2, <1>5
<1>8. \A i \in (j + 1) .. Len(x) : x[i] \in Carrying(EventFrames)
  BY <1>1, <1>2, <1>5
<1> QED BY <1>4, <1>6, <1>7, <1>8 DEF AnswerFirst

\* The frames come one after the other: the first with a payload is the answer.
LEMMA AnswerArrives ==
    ASSUME NEW v, NEW w \in Seq(LineFrames), w # <<>>, AnswerFirst(w, v)
    PROVE  /\ Head(w).kind = "Data"
                 => Head(w) = AnswerFrame(v) /\ Tail(w) \in Seq(Carrying(EventFrames))
           /\ Head(w).kind # "Data" => AnswerFirst(Tail(w), v)
<1>1. PICK j \in 1 .. Len(w) :
         /\ w[j] = AnswerFrame(v)
         /\ \A i \in 1 .. (j - 1) : w[i].kind # "Data"
         /\ \A i \in (j + 1) .. Len(w) : w[i] \in Carrying(EventFrames)
  BY DEF AnswerFirst
<1>2. PICK n : n = Len(w) /\ n \in Nat
  OBVIOUS
<1>3. PICK x : x = Tail(w)
  OBVIOUS
<1>4. /\ x \in Seq(LineFrames) /\ Len(x) = n - 1 /\ \A i \in 1 .. (n - 1) : x[i] = w[i + 1]
      /\ Head(w) = w[1]
  BY <1>2, <1>3, HeadTailProperties
<1>5. CASE j = 1
  <2>1. \A i \in 1 .. Len(x) : x[i] \in Carrying(EventFrames)
    BY <1>1, <1>2, <1>4, <1>5
  <2>2. AnswerFrame(v).kind = "Data"
    BY DEF AnswerFrame, Data
  <2> QED BY <1>1, <1>3, <1>4, <1>5, <2>1, <2>2, SeqOver
<1>6. CASE j > 1
  <2>1. Head(w).kind # "Data"
    BY <1>1, <1>4, <1>6
  <2>2. j - 1 \in 1 .. Len(x) /\ x[j - 1] = AnswerFrame(v)
    BY <1>1, <1>2, <1>4, <1>6
  <2>3. \A i \in 1 .. (j - 1 - 1) : x[i].kind # "Data"
    BY <1>1, <1>2, <1>4, <1>6
  <2>4. \A i \in (j - 1 + 1) .. Len(x) : x[i] \in Carrying(EventFrames)
    BY <1>1, <1>2, <1>4, <1>6
  <2>5. AnswerFirst(x, v)
    BY <2>2, <2>3, <2>4 DEF AnswerFirst
  <2> QED BY <1>3, <2>1, <2>5
<1> QED BY <1>1, <1>5, <1>6

\* Appending to the line, reading from it and consuming what was read leave the frames to come in
\* their order.
LEMMA ComingInOrder ==
    ASSUME NEW s \in Seq(LineFrames), NEW t \in Seq(LineFrames)
    PROVE  /\ s \o t \in Seq(LineFrames) /\ <<>> \o t = t
           /\ \A f \in LineFrames : s \o Append(t, f) = Append(s \o t, f)
           /\ \A n \in 1 .. Len(t) : SubSeq(t, 1, n) \o SubSeq(t, n + 1, Len(t)) = t
           /\ s # <<>> => s \o t # <<>> /\ Head(s \o t) = Head(s) /\ Tail(s \o t) = Tail(s) \o t
<1>1. s \o t \in Seq(LineFrames) /\ <<>> \o t = t
  BY ConcatProperties, ConcatEmptySeq
<1>2. ASSUME NEW f \in LineFrames PROVE s \o Append(t, f) = Append(s \o t, f)
  <2>1. <<f>> \in Seq(LineFrames)
    OBVIOUS
  <2>2. Append(t, f) = t \o <<f>> /\ Append(s \o t, f) = (s \o t) \o <<f>>
    BY <1>1, AppendIsConcat
  <2> QED BY <2>1, <2>2, ConcatAssociative
<1>3. ASSUME NEW n \in 1 .. Len(t) PROVE SubSeq(t, 1, n) \o SubSeq(t, n + 1, Len(t)) = t
  <2>1. PICK m : m = Len(t) /\ m \in Nat
    OBVIOUS
  <2>2. 1 \in 1 .. m + 1 /\ n \in 1 - 1 .. m /\ m \in n .. m
    BY <2>1
  <2>3. SubSeq(t, 1, n) \o SubSeq(t, n + 1, m) = SubSeq(t, 1, m)
    BY <2>1, <2>2, ConcatAdjacentSubSeq
  <2> QED BY <2>1, <2>3, SubSeqFull
<1>4. ASSUME s # <<>>
      PROVE  s \o t # <<>> /\ Head(s \o t) = Head(s) /\ Tail(s \o t) = Tail(s) \o t
  <2>1. s \o t # <<>>
    BY <1>4, ConcatEqualIffEmpty
  <2>2. s = <<Head(s)>> \o Tail(s) /\ Tail(s) \in Seq(LineFrames) /\ Head(s) \in LineFrames
    BY <1>4, HeadTailProperties
  <2>3. PICK h, r : h = Head(s) /\ r = Tail(s)
    OBVIOUS
  <2>4. s \o t = <<h>> \o (r \o t) /\ r \o t \in Seq(LineFrames) /\ h \in LineFrames
    BY <2>2, <2>3, ConcatAssociative, ConcatProperties
  <2>5. Head(<<h>> \o (r \o t)) = h /\ Tail(<<h>> \o (r \o t)) = r \o t
    BY <2>4
  <2> QED BY <2>1, <2>3, <2>4, <2>5
<1> QED BY <1>1, <1>2, <1>3, <1>4

\* connect's offer leaves with frame number, acknowledgement and sequence 0, and the legacy header.
LEMMA OfferIsFirst ==
    ASSUME NcpInv, TaskInOrder, BeforeOffer, ConnectOffers, pc' # "idle" \/ result'.kind = "Ok"
    PROVE  UnderWay' /\ Writing'
<1>1. /\ connecting = "reset" /\ StartCommand("version", "preferred") /\ "preferred" \in Versions
  BY DEF ConnectOffers, Versions
<1>2. /\ resets = 1 /\ surprises = 0 /\ line \in Seq({RstAck}) /\ owed = <<>>
      /\ ncp_rx = 0 /\ ncp_tx = 0 /\ ncp_boot = "fresh" /\ ~ncp_failed /\ next_rx_frame = 0
      /\ next_tx_frame = 0 /\ in_flight = <<>> /\ next_sequence_number = 0 /\ issued = 0
      /\ response = <<>> /\ callbacks = <<>> /\ HeaderFormat("version") = "Legacy"
  BY <1>1 DEF BeforeOffer, TaskInOrder, HeaderFormat
<1>3. /\ pc' = "write" /\ op' = "command" /\ pending = <<>> /\ pending' # <<>>
      /\ outbound'.kind = "Data" /\ send_data(Sent("version", "preferred"))
  BY <1>1, StartCommandDoes
<1>4. /\ pending' = <<[sequence |-> 0, frame_id |-> "version"]>> /\ pending_format' = <<"Legacy">>
      /\ initial_version_sent'
  <2>1. pending' # pending
    BY <1>3
  <2> QED BY <1>1, <1>2, <2>1, StartCommandDoes DEF corrVars
<1>5. UNCHANGED <<line, owed, ncp_rx, ncp_tx, ncp_boot, ncp_failed, resets, surprises, response, callbacks>>
  BY <1>1, StartCommandDoes DEF ncpVars
<1>6. Sent("version", "preferred") = FirstCommand
  BY <1>2 DEF Sent, FirstCommand
<1>7. /\ outbound' = Data(0, 0, FALSE, FirstCommand) /\ UNCHANGED next_rx_frame
      /\ in_flight' = <<[frame_num |-> 0, payload |-> FirstCommand, sends |-> 1]>>
  <2>1. SendDataAccepted(FirstCommand)
    BY <1>3, <1>6 DEF send_data, SendDataRefused, NotConnected, WindowFull
  <2>2. PICK new : new = [frame_num |-> 0, payload |-> FirstCommand, sends |-> 1]
    OBVIOUS
  <2>3. in_flight' = Append(<<>>, new) /\ Append(<<>>, new) = <<new>>
    BY <1>2, <2>1, <2>2 DEF SendDataAccepted
  <2> QED BY <1>2, <2>1, <2>2, <2>3, Zenon DEF SendDataAccepted
<1>8. Len(in_flight') = 1 /\ in_flight'[1].frame_num = 0
  BY <1>7
<1> QED BY <1>2, <1>3, <1>4, <1>5, <1>7, <1>8 DEF UnderWay, Writing, FirstPending

\* The NCP takes the offer, and owes the answer that tells its version.
LEMMA FirstIsTaken ==
    ASSUME NcpInv, TaskInOrder, UnderWay, Writing, Write, pc' # "idle" \/ result'.kind = "Ok"
    PROVE  UnderWay' /\ Waiting'
<1>1. /\ NcpTakes(outbound) /\ pc' = "pump" /\ UNCHANGED <<op, chunk, result>>
      /\ UNCHANGED <<connVars, corrVars, hostVars, resets, surprises>>
  BY DEF Write, Return, Returned
<1>2. chunk = <<>> /\ line \in Seq({RstAck}) /\ owed = <<>> /\ ncp_tx = 0 /\ ncp_boot = "fresh"
      /\ ncp_rx = 0 /\ FirstPending /\ next_rx_frame = 0
      /\ Len(in_flight) = 1 /\ in_flight[1].frame_num = 0
  BY DEF TaskInOrder, Writing
<1>3. outbound.kind = "Data" /\ outbound.frame_num = 0 /\ outbound.payload = FirstCommand
  BY DEF Writing, Data
<1>4. /\ ncp_rx' = next_sequence(ncp_rx) /\ owed' = Append(owed, NcpReply(FirstCommand))
      /\ ncp_boot' = NcpBoot(FirstCommand) /\ line' = Append(line, Ack(ncp_rx'))
      /\ UNCHANGED <<ncp_tx, ncp_version, ncp_failed>>
  BY <1>1, <1>2, <1>3 DEF NcpTakes, NcpTakesData, UnderWay
<1>5. ncp_rx' = 1 /\ line' = Append(line, Ack(1))
  BY <1>2, <1>4, FirstNumbers
<1>6. NcpReply(FirstCommand) = FirstAnswer(ncp_version)
  BY <1>2 DEF NcpReply, FirstCommand, FirstAnswer, Ezsp
<1>7. ncp_boot' = IF ncp_version = "preferred" THEN "set" ELSE "offered"
  BY <1>2, <1>4 DEF NcpBoot, FirstCommand, Ezsp
<1>8. line' \in Seq(AcknowledgeFirst) /\ line' \in Seq(Carrying({}))
  <2>1. Ack(1) \in AcknowledgeFirst /\ Ack(1) \in Carrying({})
    BY FirstNumbers, ControlFrames
  <2>2. line \in Seq(AcknowledgeFirst) /\ line \in Seq(Carrying({}))
    BY <1>2, FirstNumbers, SeqMonotonic
  <2> QED BY <1>5, <2>1, <2>2, AppendType
<1>9. chunk' \in Seq(AcknowledgeFirst) /\ chunk' \in Seq(Carrying({}))
  BY <1>1, <1>2, EmptySeq
<1>10. owed' = <<FirstAnswer(ncp_version')>>
  BY <1>2, <1>4, <1>6
<1>11. FirstPending' /\ UnderWay' /\ UNCHANGED <<in_flight, next_rx_frame>>
  BY <1>1, <1>2, <1>4 DEF FirstPending, UnderWay, corrVars, hostVars, connVars
<1> QED BY <1>1, <1>2, <1>4, <1>5, <1>7, <1>8, <1>9, <1>10, <1>11 DEF Waiting, FirstTaken

\* Whatever a read returns, the frames to come are the same.
LEMMA WaitingReads ==
    ASSUME NcpInv, TaskInOrder, UnderWay, Waiting, PumpRead PROVE UnderWay' /\ Waiting'
<1>1. PICK n \in 1 .. MaxChunk :
         n <= Len(line) /\ chunk' = SubSeq(line, 1, n) /\ line' = SubSeq(line, n + 1, Len(line))
  BY DEF PumpRead
<1>2. n \in 1 .. Len(line) /\ line \in Seq(LineFrames) /\ chunk = <<>> /\ chunk \in Seq(LineFrames)
  BY <1>1, NcpAssumption DEF NcpInv, LineOK, TaskInOrder, PumpRead, TaskOK
<1>3. /\ pc' = "consume"
      /\ UNCHANGED <<op, connVars, corrVars, hostVars, ncp_tx, ncp_rx, owed, ncp_boot, ncp_version,
                     ncp_failed, resets, surprises>>
  BY DEF PumpRead, boundVars
<1>4. line' \in Seq(AcknowledgeFirst) /\ chunk' \in Seq(AcknowledgeFirst)
  BY <1>1, <1>2, PartsOver DEF Waiting
<1>5. FirstPending' /\ UnderWay' /\ FirstTaken' /\ next_rx_frame' = 0
      /\ (in_flight' = <<>> \/ (Len(in_flight') = 1 /\ in_flight'[1].frame_num = 0))
  BY <1>3 DEF Waiting, FirstPending, UnderWay, FirstTaken, corrVars, hostVars, connVars
<1>6. chunk' \o line' = chunk \o line
  BY <1>1, <1>2, ComingInOrder
<1>7. CASE /\ owed = <<FirstAnswer(ncp_version)>> /\ ncp_tx = 0
           /\ line \in Seq(Carrying({})) /\ chunk \in Seq(Carrying({}))
  <2>1. line' \in Seq(Carrying({})) /\ chunk' \in Seq(Carrying({}))
    BY <1>1, <1>2, <1>7, PartsOver
  <2> QED BY <1>3, <1>4, <1>5, <1>7, <2>1 DEF Waiting
<1>8. CASE owed = <<>> /\ AnswerFirst(chunk \o line, ncp_version)
  <2>1. owed' = <<>> /\ AnswerFirst(chunk' \o line', ncp_version')
    BY <1>3, <1>6, <1>8, Zenon
  <2>2. (owed = <<>> /\ AnswerFirst(chunk \o line, ncp_version))'
    BY <2>1 DEF AnswerFirst, AnswerFrame, FirstAnswer
  <2> QED BY <1>3, <1>4, <1>5, <2>2 DEF Waiting
<1> QED BY <1>7, <1>8 DEF Waiting

\* Both parts of a concatenation are over the set the whole is over.
LEMMA ConcatParts ==
    ASSUME NEW T, NEW S, NEW s \in Seq(T), NEW t \in Seq(T), s \o t \in Seq(S)
    PROVE  s \in Seq(S) /\ t \in Seq(S)
<1>1. PICK w : w = s \o t
  OBVIOUS
<1>2. PICK m, n : m = Len(s) /\ n = Len(t) /\ m \in Nat /\ n \in Nat
  BY LenProperties
<1>3. /\ Len(w) = m + n
      /\ \A i \in 1 .. (m + n) : w[i] = IF i <= m THEN s[i] ELSE t[i - m]
  BY <1>1, <1>2, ConcatProperties
<1>4. \A i \in 1 .. (m + n) : w[i] \in S
  BY <1>1, <1>3, ElementOfSeq
<1>5. \A i \in 1 .. m : s[i] \in S
  BY <1>2, <1>3, <1>4
<1>6. ASSUME NEW i \in 1 .. n PROVE t[i] \in S
  <2>1. m + i \in 1 .. (m + n) /\ ~(m + i <= m) /\ (m + i) - m = i
    BY <1>2
  <2>2. w[m + i] = t[(m + i) - m]
    BY <1>3, <2>1
  <2> QED BY <1>4, <2>1, <2>2
<1> QED BY <1>2, <1>5, <1>6, SeqOver

\* An acknowledgement of the first frame leaves nothing in the queue.
LEMMA FirstRetired ==
    ASSUME ConnInv, in_flight = <<>> \/ (Len(in_flight) = 1 /\ in_flight[1].frame_num = 0)
    PROVE  retire_acknowledged(1) = <<>>
<1>1. PICK n : n = AcknowledgedPrefix(1)
  OBVIOUS
<1>2. /\ n \in 0 .. Len(in_flight)
      /\ n < Len(in_flight) => in_flight[n + 1].frame_num = 1
  BY <1>1, FirstNumbers, PrefixIsAPosition DEF ConnInv
<1>3. PICK m : m = Len(in_flight) /\ m \in Nat /\ in_flight \in Seq(InFlight)
  BY DEF ConnInv, TypeOK
<1>4. n = m
  <2>1. CASE in_flight = <<>>
    BY <1>2, <1>3, <2>1
  <2>2. CASE m = 1 /\ in_flight[1].frame_num = 0
    <3>1. n = 0 => in_flight[1].frame_num = 1
      BY <1>2, <1>3, <2>2
    <3>2. n \in {0, 1}
      BY <1>2, <1>3, <2>2
    <3> QED BY <2>2, <3>1, <3>2
  <2> QED BY <1>3, <2>1, <2>2
<1>5. SubSeq(in_flight, m + 1, m) = <<>>
  BY <1>3, SubSeqEmpty
<1> QED BY <1>1, <1>3, <1>4, <1>5 DEF retire_acknowledged

\* Late RSTACKs and acknowledgements change nothing; the first payload is the answer.
LEMMA WaitingConsumes ==
    ASSUME NcpInv, NcpInv', UnderWay, Waiting, Consume PROVE UnderWay' /\ (Waiting' \/ Accepted')
<1> DEFINE f == Head(chunk)
<1>1. chunk # <<>> /\ chunk' = Tail(chunk) /\ chunk \in Seq(LineFrames) /\ line \in Seq(LineFrames)
  BY DEF Consume, NcpInv, TaskOK, LineOK
<1>2. /\ UNCHANGED <<op, corrVars, hostVars, ncpVars, resets, surprises>>
      /\ pc' = IF outbound'.kind = "Nothing" THEN AfterFrame(Tail(chunk)) ELSE "reply"
  BY DEF Consume, boundVars
<1>3. UnderWay' /\ FirstPending' /\ FirstTaken' /\ UNCHANGED <<line, owed, ncp_tx, ncp_version>>
  BY <1>2 DEF Waiting, UnderWay, FirstPending, FirstTaken, corrVars, hostVars, ncpVars
<1>4. /\ f \in AcknowledgeFirst /\ chunk' \in Seq(AcknowledgeFirst) /\ line' \in Seq(AcknowledgeFirst)
  BY <1>1, <1>3, PartsOver DEF Waiting
<1>5. f.kind \in {"RstAck", "Ack", "Data"} /\ (f.kind # "RstAck" => f.ack_num = 1) /\ f \in LineFrames
  BY <1>4 DEF AcknowledgeFirst
<1>6. on_frame(f)
  BY <1>5 DEF Consume
<1>7. /\ Head(chunk \o line) = f /\ Tail(chunk \o line) = chunk' \o line /\ chunk \o line # <<>>
      /\ chunk \o line \in Seq(LineFrames) /\ chunk' \in Seq(LineFrames)
  BY <1>1, ComingInOrder, PartsOver
<1>8. retire_acknowledged(1) = <<>>
  BY FirstRetired DEF Waiting, NcpInv
<1> HIDE DEF f
<1>9. CASE f.kind # "Data"
  <2>1. /\ in_flight' = <<>> /\ next_rx_frame' = 0 /\ outbound' = Nothing
    BY <1>5, <1>6, <1>8, <1>9 DEF on_frame, OnRstAck, OnAck, Waiting
  <2>2. pc' \in {"pump", "consume"}
    BY <1>2, <2>1 DEF Nothing, AfterFrame
  <2>3. CASE /\ owed = <<FirstAnswer(ncp_version)>> /\ ncp_tx = 0
             /\ line \in Seq(Carrying({})) /\ chunk \in Seq(Carrying({}))
    <3>1. chunk' \in Seq(Carrying({}))
      BY <1>1, <2>3, PartsOver
    <3> QED BY <1>3, <1>4, <2>1, <2>2, <2>3, <3>1 DEF Waiting
  <2>4. CASE owed = <<>> /\ AnswerFirst(chunk \o line, ncp_version)
    <3>1. AnswerFirst(chunk' \o line, ncp_version)
      BY <1>7, <1>9, <2>4, AnswerArrives
    <3>2. (owed = <<>> /\ AnswerFirst(chunk \o line, ncp_version))'
      BY <1>3, <2>4, <3>1 DEF AnswerFirst, AnswerFrame, FirstAnswer
    <3> QED BY <1>3, <1>4, <2>1, <2>2, <3>2 DEF Waiting
  <2> QED BY <2>3, <2>4 DEF Waiting
<1>10. CASE f.kind = "Data"
  <2>1. owed = <<>> /\ AnswerFirst(chunk \o line, ncp_version)
    <3>1. ASSUME chunk \in Seq(Carrying({})) PROVE FALSE
      <4>1. f \in Carrying({})
        BY <1>1, <3>1, PartsOver DEF f
      <4> QED BY <1>10, <4>1 DEF Carrying
    <3> QED BY <3>1 DEF Waiting
  <2>2. f = AnswerFrame(ncp_version) /\ chunk' \o line \in Seq(Carrying(EventFrames))
    BY <1>7, <1>10, <2>1, AnswerArrives
  <2>3. chunk' \in Seq(Carrying(EventFrames)) /\ line' \in Seq(Carrying(EventFrames))
    BY <1>1, <1>3, <1>7, <2>2, ConcatParts
  <2>4. f.frame_num = 0 /\ f.payload = FirstAnswer(ncp_version) /\ f.ack_num = 1
    BY <2>2 DEF AnswerFrame, Data
  <2>5. /\ in_flight' = <<>> /\ received' = <<FirstAnswer(ncp_version)>>
        /\ outbound' = Ack(next_rx_frame')
    BY <1>6, <1>8, <1>10, <2>4 DEF on_frame, OnData, Waiting
  <2>6. outbound'.kind = "Ack" /\ pc' = "reply"
    BY <1>2, <2>5 DEF Ack
  <2>7. OnlyCallbacksCome'
    BY <1>3, <2>1, <2>3 DEF OnlyCallbacksCome
  <2>8. received' = <<FirstAnswer(ncp_version')>>
    BY <1>3, <2>5
  <2> QED BY <1>3, <2>5, <2>6, <2>7, <2>8 DEF Accepted
<1> QED BY <1>9, <1>10

\* The NCP sends the answer it owes: the first payload of its session.
LEMMA WaitingIsAnswered ==
    ASSUME NcpInv, UnderWay, Waiting, NcpAnswers PROVE UnderWay' /\ Waiting'
<1>1. /\ UNCHANGED <<connVars, corrVars, pc, op, chunk, hostVars, ncp_rx, ncp_boot, ncp_version, ncp_failed,
                     resets, surprises>>
  BY DEF NcpAnswers, taskVars, boundVars
<1>2. /\ owed = <<FirstAnswer(ncp_version)>> /\ ncp_tx = 0 /\ ncp_rx = 1
      /\ line \in Seq(Carrying({})) /\ chunk \in Seq(Carrying({}))
      /\ line \in Seq(AcknowledgeFirst) /\ chunk \in Seq(AcknowledgeFirst)
  BY DEF Waiting, NcpAnswers, FirstTaken
<1>3. /\ owed' = <<>> /\ Head(owed) = FirstAnswer(ncp_version) /\ FirstAnswer(ncp_version) \in EzspFrames
  <2>1. owed \in Seq(EzspFrames)
    BY DEF NcpInv, LineOK
  <2> QED BY <1>2, <2>1 DEF NcpAnswers
<1>4. line' = Append(line, AnswerFrame(ncp_version))
  BY <1>2, <1>3 DEF NcpAnswers, NcpSends, AnswerFrame
<1>5. line' \in Seq(AcknowledgeFirst)
  BY <1>2, <1>3, <1>4, AnswerFrameType, AppendType
<1>6. AnswerFirst(chunk \o line', ncp_version)
  BY <1>2, <1>4, AnswerSent
<1>7. (owed = <<>> /\ AnswerFirst(chunk \o line, ncp_version))'
  BY <1>1, <1>3, <1>6 DEF AnswerFirst, AnswerFrame, FirstAnswer
<1>8. UnderWay' /\ FirstPending' /\ FirstTaken' /\ next_rx_frame' = 0 /\ pc' \in {"pump", "consume"}
      /\ (in_flight' = <<>> \/ (Len(in_flight') = 1 /\ in_flight'[1].frame_num = 0))
  BY <1>1 DEF Waiting, UnderWay, FirstPending, FirstTaken, corrVars, hostVars, connVars
<1> QED BY <1>1, <1>2, <1>5, <1>7, <1>8 DEF Waiting

\* Callbacks come behind the answer (NcpCallsBack).
LEMMA WaitingHearsCallback ==
    ASSUME NcpInv, UnderWay, Waiting, NcpCallsBack PROVE UnderWay' /\ Waiting'
<1>1. /\ UNCHANGED <<connVars, corrVars, pc, op, chunk, hostVars, ncp_rx, ncp_boot, ncp_version, ncp_failed,
                     owed, resets, surprises>>
  BY DEF NcpCallsBack, taskVars
<1>2. ~\E i \in 1 .. Len(owed) : owed[i].frame_id = "version"
  BY DEF NcpCallsBack
<1>3. owed = <<>> /\ AnswerFirst(chunk \o line, ncp_version)
  <2>1. ASSUME owed = <<FirstAnswer(ncp_version)>> PROVE FALSE
    <3>1. Len(owed) = 1 /\ owed[1] = FirstAnswer(ncp_version)
      BY <2>1
    <3>2. FirstAnswer(ncp_version).frame_id = "version"
      BY DEF FirstAnswer, Ezsp
    <3> QED BY <1>2, <3>1, <3>2
  <2> QED BY <2>1 DEF Waiting
<1>4. PICK frame \in EventFrames : NcpSends(frame)
  BY CallbackTells
<1>5. PICK f : f = Data(ncp_tx, ncp_rx, FALSE, frame) /\ line' = Append(line, f)
  BY <1>4 DEF NcpSends
<1>6. /\ f \in LineFrames /\ f.kind = "Data" /\ f.ack_num = 1 /\ f.payload = frame
  BY <1>5 DEF Data, LineFrames, LineData, NcpInv, LineOK, EventFrames, Waiting, FirstTaken
<1>7. f \in AcknowledgeFirst /\ f \in Carrying(EventFrames)
  BY <1>6 DEF AcknowledgeFirst, Carrying
<1>8. chunk \in Seq(LineFrames) /\ line \in Seq(LineFrames)
  BY DEF NcpInv, TaskOK, LineOK
<1>9. /\ chunk \o line \in Seq(LineFrames) /\ chunk \o line' = Append(chunk \o line, f)
  <2>1. chunk \o line \in Seq(LineFrames)
    BY <1>8, ComingInOrder
  <2>2. chunk \o Append(line, f) = Append(chunk \o line, f)
    BY <1>6, <1>8, ComingInOrder
  <2> QED BY <1>5, <2>1, <2>2, Zenon
<1>10. AnswerFirst(chunk \o line', ncp_version)
  BY <1>3, <1>7, <1>9, AnswerStaysFirst
<1>11. (owed = <<>> /\ AnswerFirst(chunk \o line, ncp_version))'
  BY <1>1, <1>3, <1>10 DEF AnswerFirst, AnswerFrame, FirstAnswer
<1>12. line' \in Seq(AcknowledgeFirst) /\ chunk' \in Seq(AcknowledgeFirst)
  BY <1>1, <1>5, <1>7, AppendType DEF Waiting
<1>13. UnderWay' /\ FirstPending' /\ FirstTaken' /\ next_rx_frame' = 0 /\ pc' \in {"pump", "consume"}
      /\ (in_flight' = <<>> \/ (Len(in_flight') = 1 /\ in_flight'[1].frame_num = 0))
  BY <1>1 DEF Waiting, UnderWay, FirstPending, FirstTaken, corrVars, hostVars, connVars
<1> QED BY <1>11, <1>12, <1>13 DEF Waiting

\* The answer is parsed with the legacy header, is the outstanding command's and ends the wait.
LEMMA AcceptedIsFiled ==
    ASSUME NcpInv, UnderWay, Accepted, Reply, pc' # "idle" \/ result'.kind = "Ok"
    PROVE  UnderWay' /\ Got'
<1>1. op = "command" /\ outbound.kind = "Ack" /\ received = <<FirstAnswer(ncp_version)>>
      /\ pending_format = <<"Legacy">> /\ callbacks = <<>> /\ in_flight = <<>>
      /\ pending = <<[sequence |-> 0, frame_id |-> "version"]>>
  BY DEF Accepted, FirstPending
<1>2. ASSUME NEW outcome \in {"TooLong", "Transport"}, PumpEnds(outcome) PROVE FALSE
  BY <1>1, <1>2, PumpEndsDoes
<1>3. /\ NcpTakes(outbound) /\ dispatch(received[1]) /\ pc' = AfterFrame(chunk)
      /\ UNCHANGED <<connVars, op, chunk, resets, surprises>>
  BY <1>1, <1>2 DEF Reply
<1>4. UNCHANGED ncpVars
  BY <1>1, <1>3 DEF NcpTakes
<1>5. PICK a : a = FirstAnswer(ncp_version)
  OBVIOUS
<1>6. /\ a.kind = "Response" /\ a.format = "Legacy" /\ a.sequence = 0 /\ a.frame_id = "version"
  BY <1>5 DEF FirstAnswer, Ezsp
<1>7. received[1] = a /\ pending_format # <<>> /\ pending_format[1] = "Legacy"
  BY <1>1, <1>5
<1>8. File(a)
  BY <1>3, <1>6, <1>7 DEF dispatch, parse
<1>9. Classified(a) = "Response"
  BY <1>1, <1>6 DEF Classified
<1>10. /\ pending' = <<>> /\ response' = <<a>> /\ pending_format' = <<>>
       /\ UNCHANGED <<callbacks, initial_version_sent>>
  BY <1>8, <1>9 DEF File, classify
<1>11. response' # <<>> /\ pc' \in {"pump", "consume"}
  BY <1>3, <1>10 DEF AfterFrame
<1>12. CallbacksAreEvents'
  BY <1>1, <1>10 DEF CallbacksAreEvents
<1>13. FirstTaken' /\ OnlyCallbacksCome'
  BY <1>3, <1>4 DEF Accepted, FirstTaken, OnlyCallbacksCome, ncpVars
<1>14. UnderWay'
  BY <1>3, <1>4, <1>10 DEF UnderWay, ncpVars
<1>15. in_flight' = <<>> /\ outbound'.kind # "Data"
  BY <1>1, <1>3 DEF connVars
<1> QED BY <1>1, <1>3, <1>10, <1>11, <1>12, <1>13, <1>14, <1>15 DEF Got

\* A callback parsed with the extended header is queued as it was sent; nothing else is queued.
LEMMA CallbackIsFiled ==
    ASSUME NcpInv, VersionsAreTrue, received # <<>>, dispatch(received[1]),
           pending_format # <<"Legacy">>, CallbacksAreEvents
    PROVE  /\ CallbacksAreEvents' /\ UNCHANGED initial_version_sent
           /\ pending_format' = <<>> \/ UNCHANGED pending_format
           /\ received[1].kind = "Callback" => UNCHANGED <<pending, response, pending_format>>
<1>1. PICK frame : frame = received[1]
  OBVIOUS
<1>2. frame \in Told(ncp_version)
  BY <1>1 DEF VersionsAreTrue
<1>3. pending_format = <<>> \/ pending_format = <<"Extended">>
  BY DEF NcpInv, TaskOK, Formats
<1>4. File(parse(frame, "Extended"))
  <2>1. CASE pending_format = <<>>
    BY <1>1, <2>1 DEF dispatch
  <2>2. CASE pending_format = <<"Extended">>
    <3>1. pending_format # <<>> /\ pending_format[1] = "Extended"
      BY <2>2
    <3> QED BY <1>1, <3>1 DEF dispatch
  <2> QED BY <1>3, <2>1, <2>2
<1>5. PICK p : p = parse(frame, "Extended")
  OBVIOUS
<1>6. /\ p.kind = frame.kind
      /\ p.kind = "Callback" => p = frame /\ p.frame_id = "event"
  BY <1>2, <1>5, ParseKeeps DEF Told
<1>7. File(p)
  BY <1>4, <1>5
<1>8. CASE p.kind = "Callback"
  <2>1. Classified(p) = "Callback"
    BY <1>8 DEF Classified
  <2>2. callbacks' = Append(callbacks, p) /\ UNCHANGED <<pending, response, pending_format, initial_version_sent>>
    BY <1>7, <2>1 DEF File, classify
  <2>3. CallbacksAreEvents'
    <3>1. PICK n : n = Len(callbacks) /\ n \in Nat
      BY DEF NcpInv, QueuesOK
    <3>2. /\ Len(callbacks') = n + 1 /\ callbacks'[n + 1] = p
          /\ \A i \in 1 .. n : callbacks'[i] = callbacks[i]
      BY <2>2, <3>1 DEF NcpInv, QueuesOK
    <3> QED BY <1>6, <1>8, <3>1, <3>2 DEF CallbacksAreEvents
  <2> QED BY <2>2, <2>3
<1>9. CASE p.kind # "Callback"
  <2>1. Classified(p) # "Callback"
    BY <1>9 DEF Classified
  <2>2. UNCHANGED <<callbacks, initial_version_sent>> /\ (pending_format' = <<>> \/ UNCHANGED pending_format)
    BY <1>7, <2>1 DEF File
  <2> QED BY <1>1, <1>6, <1>9, <2>2 DEF CallbacksAreEvents
<1> QED BY <1>8, <1>9

\* A callback more on the line is a callback more to come.
LEMMA CallbackComes ==
    ASSUME NcpInv, OnlyCallbacksCome, NcpCallsBack PROVE OnlyCallbacksCome'
<1>1. PICK frame \in EventFrames : NcpSends(frame)
  BY CallbackTells
<1>2. line' \in Seq(Carrying(EventFrames))
  BY <1>1, SendsCarrying DEF OnlyCallbacksCome, NcpInv, EventFrames
<1> QED BY <1>2 DEF OnlyCallbacksCome, NcpCallsBack, taskVars

\* Accepted and Got do not mind.
LEMMA HearsCallback ==
    ASSUME NcpInv, UnderWay, Accepted \/ Got, NcpCallsBack PROVE UnderWay' /\ (Accepted' \/ Got')
<1>1. /\ UNCHANGED <<connVars, corrVars, pc, op, chunk, hostVars, ncp_rx, ncp_boot, ncp_version, ncp_failed,
                     resets, surprises>>
  BY DEF NcpCallsBack, taskVars
<1>2. UnderWay' /\ OnlyCallbacksCome'
  BY <1>1, CallbackComes DEF UnderWay, Accepted, Got, hostVars
<1>3. CASE Accepted
  <2>1. FirstPending' /\ FirstTaken' /\ in_flight' = <<>> /\ outbound'.kind = "Ack"
    BY <1>1, <1>3 DEF Accepted, FirstPending, FirstTaken, corrVars, hostVars, connVars
  <2>2. received' = <<FirstAnswer(ncp_version')>>
    BY <1>1, <1>3 DEF Accepted, connVars
  <2> QED BY <1>1, <1>2, <1>3, <2>1, <2>2 DEF Accepted
<1>4. CASE Got
  BY <1>1, <1>2, <1>4 DEF Got, FirstTaken, CallbacksAreEvents, corrVars, hostVars, connVars
<1> QED BY <1>3, <1>4

\* Until command has taken its answer, what else was read goes the usual way.
LEMMA GotGoesOn ==
    ASSUME NcpInv, NcpInv', TaskInOrder, VersionsAreTrue, UnderWay, Got,
           PumpReturns \/ PumpRead \/ Consume \/ Reply, pc' # "idle" \/ result'.kind = "Ok"
    PROVE  UnderWay' /\ Got'
<1>1. /\ pending = <<>> /\ pending_format = <<>> /\ in_flight = <<>> /\ owed = <<>>
      /\ line \in Seq(Carrying(EventFrames)) /\ chunk \in Seq(Carrying(EventFrames))
      /\ outbound.kind # "Data" /\ CallbacksAreEvents /\ FirstTaken
  BY DEF Got, OnlyCallbacksCome
<1>2. CASE PumpReturns
  <2>1. /\ pc' = "idle" /\ op' = "none" /\ chunk' = <<>> /\ response' = <<>>
        /\ UNCHANGED <<connVars, ncpVars, boundVars, pending_format, corrVars, callbacks,
                       initial_version_sent>>
    BY <1>2, PumpReturnsDoes DEF UnderWay, Got, TaskInOrder
  <2>2. chunk' \in Seq(Carrying(EventFrames))
    BY <2>1, EmptySeq
  <2>3. UnderWay' /\ OnlyCallbacksCome' /\ FirstTaken' /\ CallbacksAreEvents'
    BY <1>1, <2>1, <2>2 DEF UnderWay, OnlyCallbacksCome, FirstTaken, CallbacksAreEvents, ncpVars, boundVars
  <2> QED BY <1>1, <2>1, <2>3 DEF Got, connVars, corrVars
<1>3. CASE PumpRead
  <2>1. PICK n \in 1 .. MaxChunk :
           n <= Len(line) /\ chunk' = SubSeq(line, 1, n) /\ line' = SubSeq(line, n + 1, Len(line))
    BY <1>3 DEF PumpRead
  <2>2. n \in 1 .. Len(line)
    BY <2>1, NcpAssumption DEF NcpInv, LineOK
  <2>3. chunk' \in Seq(Carrying(EventFrames)) /\ line' \in Seq(Carrying(EventFrames))
    BY <1>1, <2>1, <2>2, PartsOver
  <2>4. /\ pc' = "consume"
        /\ UNCHANGED <<op, connVars, corrVars, hostVars, ncp_tx, ncp_rx, owed, ncp_boot, ncp_version,
                       ncp_failed, resets, surprises>>
    BY <1>3 DEF PumpRead, boundVars
  <2>5. UnderWay' /\ OnlyCallbacksCome' /\ FirstTaken' /\ CallbacksAreEvents'
    BY <1>1, <2>3, <2>4 DEF UnderWay, OnlyCallbacksCome, FirstTaken, CallbacksAreEvents, hostVars
  <2> QED BY <1>1, <2>4, <2>5 DEF Got, connVars, corrVars, hostVars
<1>4. CASE Consume
  <2>1. chunk # <<>> /\ chunk' = Tail(chunk) /\ op = "command"
    BY <1>4 DEF Consume, NcpInv, TaskOK, UnderWay
  <2>2. chunk' \in Seq(Carrying(EventFrames)) /\ Head(chunk) \in Carrying(EventFrames)
    BY <1>1, <2>1, PartsOver
  <2>3. in_flight \in Seq(Holding({}))
    BY <1>1, EmptySeq
  <2>4. /\ in_flight' \in Seq(Holding({}))
        /\ outbound'.kind = "Data" => outbound'.payload \in {}
        /\ received' # <<>> => Head(chunk).kind = "Data" /\ received'[1] = Head(chunk).payload
    BY <1>4, <2>3, ConsumeHolding DEF NcpInv
  <2>5. in_flight' = <<>> /\ outbound'.kind # "Data"
    <3>1. in_flight' \in Seq({})
      BY <2>4 DEF Holding
    <3>2. in_flight' # <<>> => Head(in_flight') \in {}
      BY <3>1, HeadTailProperties
    <3> QED BY <2>4, <3>2
  <2>6. received' # <<>> => received'[1].kind = "Callback"
    BY <2>2, <2>4 DEF Carrying, EventFrames
  <2>7. /\ UNCHANGED <<op, corrVars, hostVars, ncpVars, resets, surprises>>
        /\ pc' \in {"pump", "consume", "reply"}
    BY <1>4 DEF Consume, boundVars, AfterFrame
  <2>8. UnderWay' /\ OnlyCallbacksCome' /\ FirstTaken' /\ CallbacksAreEvents'
    BY <1>1, <2>2, <2>7
    DEF UnderWay, OnlyCallbacksCome, FirstTaken, CallbacksAreEvents, hostVars, ncpVars
  <2> QED BY <1>1, <2>5, <2>6, <2>7, <2>8 DEF Got, corrVars, hostVars
<1>5. CASE Reply
  <2>1. op = "command" /\ pc = "reply" /\ outbound.kind # "Rst"
    BY <1>5 DEF Reply, UnderWay, NcpInv, TaskOK, TaskInOrder
  <2>2. ASSUME NEW outcome \in {"TooLong", "Transport"}, PumpEnds(outcome) PROVE FALSE
    BY <2>1, <2>2, PumpEndsDoes
  <2>3. /\ NcpTakes(outbound) /\ pc' = AfterFrame(chunk)
        /\ \/ received = <<>> /\ UNCHANGED <<corrVars, hostVars>>
           \/ received # <<>> /\ dispatch(received[1])
        /\ UNCHANGED <<connVars, op, chunk, resets, surprises>>
    BY <1>5, <2>2 DEF Reply
  <2>4. UNCHANGED ncpVars
    BY <1>1, <2>1, <2>3 DEF NcpTakes
  <2>5. pending_format # <<"Legacy">>
    BY <1>1
  <2>6. received # <<>> => received[1].kind = "Callback"
    BY <2>1 DEF Got
  <2>7. CallbacksAreEvents' /\ UNCHANGED <<pending, response, pending_format, initial_version_sent>>
    <3>1. CASE UNCHANGED <<corrVars, hostVars>>
      BY <1>1, <3>1 DEF CallbacksAreEvents, corrVars, hostVars
    <3>2. CASE received # <<>> /\ dispatch(received[1])
      BY <1>1, <2>5, <2>6, <3>2, CallbackIsFiled
    <3> QED BY <2>3, <3>1, <3>2
  <2>8. UnderWay' /\ OnlyCallbacksCome' /\ FirstTaken'
    BY <1>1, <2>3, <2>4, <2>7 DEF UnderWay, OnlyCallbacksCome, FirstTaken, ncpVars
  <2>9. pc' \in {"pump", "consume"}
    BY <2>3 DEF AfterFrame
  <2> QED BY <1>1, <2>1, <2>3, <2>7, <2>8, <2>9 DEF Got, connVars
<1> QED BY <1>2, <1>3, <1>4, <1>5

\* A step after which the first exchange has not failed.
LEMMA NextFirst ==
    ASSUME NcpInv, NcpInv', TaskInOrder, BeforeOffer, VersionsAreTrue, FirstExchange, NcpNext
    PROVE  FirstExchange'
<1> SUFFICES ASSUME connecting' = "first", pc' # "idle" \/ result'.kind = "Ok"
             PROVE  UnderWay' /\ (Writing' \/ Waiting' \/ Accepted' \/ Got')
  BY DEF FirstExchange
<1>1. CASE ConnectOffers
  BY <1>1, OfferIsFirst
<1>2. connecting = "first" \/ ConnectOffers
  BY DEF NcpNext, TaskStep, ResetAttempt, Write, PumpReturns, PumpRead, PumpTimeout, PumpReadFails,
         Consume, Reply, PumpEnds, ConnectStarts, ConnectOffers, ConnectAgrees, ConnectReturns,
         AppResets, AppCommands, AppPolls, AppTakesCallbacks, AppDrops, NcpAnswers, NcpCallsBack,
         NcpSurprises, taskVars
<1>3. CASE connecting = "first"
  <2>1. \/ ResetAttempt \/ Write \/ PumpReturns \/ PumpRead \/ PumpTimeout \/ PumpReadFails
        \/ Consume \/ Reply \/ NcpAnswers \/ NcpCallsBack
    BY <1>3 DEF NcpNext, TaskStep, ConnectStarts, ConnectOffers, ConnectAgrees, ConnectReturns,
         AppResets, AppCommands, AppPolls, AppTakesCallbacks, AppDrops, NcpSurprises
  <2>2. pc # "idle" \/ result.kind = "Ok"
    BY <2>1 DEF ResetAttempt, Write, PumpReturns, PumpRead, PumpTimeout, PumpReadFails, Consume, Reply,
                NcpAnswers, NcpCallsBack, taskVars
  <2>3. UnderWay /\ (Writing \/ Waiting \/ Accepted \/ Got)
    BY <1>3, <2>2 DEF FirstExchange
  <2>4. pc = "write" => Writing
    BY <2>3 DEF Waiting, Accepted, Got, NcpInv, TaskOK, UnderWay
  <2>5. pc \in {"pump", "consume"} => Waiting \/ Got
    BY <2>3 DEF Writing, Accepted
  <2>6. pc = "reply" => Accepted \/ Got
    BY <2>3 DEF Writing, Waiting
  <2>7. CASE ResetAttempt
    BY <2>3, <2>7 DEF ResetAttempt, TaskInOrder, UnderWay
  <2>8. CASE Write
    BY <2>3, <2>4, <2>8, FirstIsTaken DEF Write
  <2>9. CASE PumpReturns
    <3>1. CASE Got
      BY <2>3, <2>9, <3>1, GotGoesOn
    <3>2. CASE Waiting
      BY <2>9, <3>2, PumpReturnsDoes DEF Waiting, FirstPending
    <3> QED BY <2>5, <2>9, <3>1, <3>2 DEF PumpReturns
  <2>10. CASE PumpRead
    BY <2>3, <2>5, <2>10, WaitingReads, GotGoesOn DEF PumpRead
  <2>11. CASE PumpTimeout \/ PumpReadFails
    <3>1. \E outcome \in {"Ok", "Transport"} : PumpEnds(outcome)
      BY <2>11 DEF PumpTimeout, PumpReadFails
    <3> QED BY <2>3, <3>1, PumpEndsDoes DEF UnderWay
  <2>12. CASE Consume
    BY <2>3, <2>5, <2>12, WaitingConsumes, GotGoesOn DEF Consume
  <2>13. CASE Reply
    BY <2>3, <2>6, <2>13, AcceptedIsFiled, GotGoesOn DEF Reply
  <2>14. CASE NcpAnswers
    <3>1. owed # <<>>
      BY <2>14 DEF NcpAnswers
    <3>2. Waiting
      BY <2>3, <3>1 DEF Writing, Accepted, Got, OnlyCallbacksCome
    <3> QED BY <2>3, <2>14, <3>2, WaitingIsAnswered
  <2>15. CASE NcpCallsBack
    <3>1. ~Writing
      BY <2>15 DEF NcpCallsBack, Writing
    <3> QED BY <2>3, <2>15, <3>1, WaitingHearsCallback, HearsCallback
  <2> QED BY <2>1, <2>7, <2>8, <2>9, <2>10, <2>11, <2>12, <2>13, <2>14, <2>15
<1> QED BY <1>1, <1>2, <1>3

-----------------------------------------------------------------------------
(* After the first exchange *)

\* What connect has when it leaves the first exchange.
LEMMA LeavingFirst ==
    ASSUME NcpInv, FirstExchange, connecting = "first", pc = "idle", result.kind = "Ok"
    PROVE  UnderWay /\ Got /\ op = "none"
BY DEF FirstExchange, Writing, Waiting, Accepted, FirstPending, NcpInv, TaskOK

\* Nothing is parsed with the legacy header any more.
LEMMA NextAfterFirst ==
    ASSUME NcpInv, NcpInv', TaskInOrder, TaskInOrder', VersionsAreTrue, FirstExchange, AfterFirst, NcpNext
    PROVE  AfterFirst'
<1> SUFFICES ASSUME connecting' \in {"second", "up"}, resets' = 1
             PROVE  /\ op' # "reset" /\ initial_version_sent' /\ pending_format' # <<"Legacy">>
                    /\ CallbacksAreEvents'
  BY DEF AfterFirst
<1>1. CASE AppResets
  BY <1>1 DEF AppResets, StartReset, TaskInOrder
<1>2. ASSUME connecting \in {"second", "up"}, resets = 1
      PROVE  /\ op # "reset" /\ initial_version_sent /\ pending_format # <<"Legacy">>
             /\ CallbacksAreEvents
  BY <1>2 DEF AfterFirst
<1>3. ASSUME NEW frame_id \in Commands \cup {"version"}, NEW desired \in Versions,
             StartCommand(frame_id, desired), initial_version_sent, CallbacksAreEvents,
             pending_format # <<"Legacy">>
      PROVE  /\ op' # "reset" /\ initial_version_sent' /\ pending_format' # <<"Legacy">>
             /\ CallbacksAreEvents'
  <2>1. HeaderFormat(frame_id) = "Extended"
    BY <1>3 DEF HeaderFormat
  <2>2. initial_version_sent' /\ pending_format' # <<"Legacy">>
    <3>1. pending_format' \in {pending_format, <<HeaderFormat(frame_id)>>}
      BY <1>3, StartCommandDoes
    <3>2. initial_version_sent'
      BY <1>3, StartCommandDoes
    <3>3. <<"Extended">> # <<"Legacy">>
      OBVIOUS
    <3> QED BY <1>3, <2>1, <3>1, <3>2, <3>3
  <2>3. op' # "reset" /\ UNCHANGED callbacks
    BY <1>3, StartCommandDoes
  <2> QED BY <1>3, <2>2, <2>3 DEF CallbacksAreEvents
<1>4. version \in Versions /\ {"none", "older"} \subseteq Versions
  BY DEF NcpInv, CountersOK, Versions
<1>5. CASE ConnectAgrees
  <2>1. pc = "idle" /\ connecting = "first" /\ result.kind = "Ok" /\ StartCommand("version", "older")
    BY <1>5 DEF ConnectAgrees, StartCommand
  <2>2. initial_version_sent /\ CallbacksAreEvents /\ pending_format # <<"Legacy">>
    <3>1. pending_format = <<>>
      BY <2>1, LeavingFirst DEF Got
    <3> QED BY <2>1, <3>1, LeavingFirst DEF UnderWay, Got
  <2> QED BY <1>3, <1>4, <2>1, <2>2
<1>6. CASE ConnectReturns
  <2>1. UNCHANGED <<op, initial_version_sent, pending_format, callbacks, resets>> /\ pc = "idle"
    BY <1>6 DEF ConnectReturns, hostVars, boundVars
  <2>2. CASE connecting = "second"
    BY <1>2, <2>1, <2>2 DEF CallbacksAreEvents
  <2>3. CASE connecting = "first" /\ result.kind = "Ok"
    <3>1. pending_format = <<>> /\ op = "none" /\ initial_version_sent /\ CallbacksAreEvents
      BY <2>1, <2>3, LeavingFirst DEF UnderWay, Got
    <3>2. pending_format' # <<"Legacy">>
      BY <2>1, <3>1
    <3> QED BY <2>1, <3>1, <3>2 DEF CallbacksAreEvents
  <2> QED BY <1>6, <2>2, <2>3 DEF ConnectReturns, Negotiated
<1>7. CASE AppCommands
  <2>1. connecting = "up" /\ resets = 1
    <3>1. UNCHANGED resets
      BY <1>4, <1>7, StartCommandDoes DEF AppCommands
    <3> QED BY <1>7, <3>1 DEF AppCommands
  <2> QED BY <1>2, <1>3, <1>4, <1>7, <2>1 DEF AppCommands
<1>8. CASE UNCHANGED <<connecting, resets, initial_version_sent, pending_format>>
           /\ op' \in {op, "none", "poll"} /\ callbacks' \in {callbacks, <<>>}
  <2>1. /\ op # "reset" /\ initial_version_sent /\ pending_format # <<"Legacy">>
        /\ CallbacksAreEvents
    BY <1>2, <1>8
  <2>2. CallbacksAreEvents'
    BY <1>8, <2>1 DEF CallbacksAreEvents
  <2> QED BY <1>8, <2>1, <2>2
<1>9. CASE PumpReturns
  <2>1. UNCHANGED <<connecting, resets, pending_format>> /\ callbacks' \in {callbacks, <<>>} /\ op' = "none"
    BY <1>9, PumpReturnsDoes DEF boundVars
  <2>2. op # "reset"
    BY <1>2, <2>1
  <2>3. UNCHANGED initial_version_sent
    BY <1>9, <2>2, PumpReturnsDoes
  <2> QED BY <1>8, <2>1, <2>3
<1>10. CASE Reply
  <2>1. CASE PumpEnds("TooLong") \/ PumpEnds("Transport")
    BY <1>8, <1>10, <2>1, PumpEndsDoes DEF Reply, hostVars
  <2>2. CASE /\ UNCHANGED <<op, connecting>>
             /\ \/ received = <<>> /\ UNCHANGED <<corrVars, hostVars>>
                \/ received # <<>> /\ dispatch(received[1])
    <3>1. UNCHANGED resets
      BY <1>10 DEF Reply
    <3>2. CASE UNCHANGED hostVars
      BY <1>8, <2>2, <3>1, <3>2 DEF hostVars
    <3>3. CASE received # <<>> /\ dispatch(received[1])
      <4>1. /\ op # "reset" /\ initial_version_sent /\ pending_format # <<"Legacy">>
            /\ CallbacksAreEvents
        BY <1>2, <2>2, <3>1
      <4>2. CallbacksAreEvents' /\ initial_version_sent' /\ pending_format' \in {<<>>, pending_format}
        BY <3>3, <4>1, CallbackIsFiled
      <4>3. pending_format' # <<"Legacy">>
        BY <4>1, <4>2
      <4> QED BY <2>2, <4>1, <4>2, <4>3
    <3> QED BY <2>2, <3>2, <3>3
  <2> QED BY <1>10, <2>1, <2>2 DEF Reply
<1>11. CASE ResetAttempt \/ Write \/ PumpRead \/ Consume
  BY <1>8, <1>11 DEF ResetAttempt, Write, PumpRead, Consume, Return, hostVars, boundVars
<1>12. CASE PumpTimeout \/ PumpReadFails
  BY <1>8, <1>12, PumpEndsDoes DEF PumpTimeout, PumpReadFails, hostVars, boundVars
<1>13. CASE ConnectStarts \/ ConnectOffers
  BY <1>13 DEF ConnectStarts, ConnectOffers
<1>14. CASE AppPolls \/ AppTakesCallbacks \/ AppDrops
  BY <1>8, <1>14 DEF AppPolls, AppTakesCallbacks, AppDrops, Return, taskVars, hostVars, boundVars
<1>15. CASE NcpAnswers \/ NcpCallsBack \/ NcpSurprises
  BY <1>8, <1>15 DEF NcpAnswers, NcpCallsBack, NcpSurprises, taskVars, hostVars, boundVars
<1> QED
  BY <1>1, <1>5, <1>6, <1>7, <1>9, <1>10, <1>11, <1>12, <1>13, <1>14, <1>15 DEF NcpNext, TaskStep

-----------------------------------------------------------------------------
(* The agreement *)

\* A version command in the extended layout sets the NCP; nothing but a RST undoes that.
LEMMA TakesAgreeing ==
    ASSUME NcpInv, VersionsAreTrue, Agreeing, NcpTakes(outbound), outbound.kind # "Rst"
    PROVE  /\ ncp_boot' \in {"offered", "set"} /\ (ncp_boot = "set" => ncp_boot' = "set")
           /\ ncp_boot' # "set" => owed' = <<>> /\ line' \in Seq(Carrying(EventFrames))
<1>1. CASE UNCHANGED ncpVars
  <2>1. UNCHANGED <<ncp_boot, owed, line>>
    BY <1>1 DEF ncpVars
  <2> QED BY <2>1 DEF Agreeing, NotYetSet, OnlyCallbacksCome
<1>2. CASE outbound.kind = "Data" /\ NcpTakesData(outbound)
  <2>1. PICK c : c = outbound.payload
    OBVIOUS
  <2>2. c \in CommandFrames /\ c.format = "Extended" /\ (c.frame_id = "version" => c.version = ncp_version)
    BY <1>2, <2>1 DEF Agreeing, AsksExtended, ExtendedCommands, VersionsAreTrue, Asking
  <2>3. /\ NcpBoot(c) = IF c.frame_id = "version" THEN "set" ELSE ncp_boot
    BY <2>2 DEF NcpBoot, Agreeing
  <2>4. CASE ncp_boot' = NcpBoot(c)
    <3>1. CASE ncp_boot = "set"
      BY <2>3, <2>4, <3>1
    <3>2. CASE ncp_boot # "set"
      <4>1. c.frame_id = "version"
        BY <1>2, <2>1, <3>2 DEF Agreeing, NotYetSet, VersionCommands
      <4> QED BY <2>3, <2>4, <4>1, <3>2
    <3> QED BY <3>1, <3>2
  <2>5. CASE /\ line' = Append(line, IF outbound.retransmit THEN Ack(ncp_rx) ELSE Nak(ncp_rx))
             /\ UNCHANGED <<owed, ncp_boot>>
    <3>1. PICK f : f \in Carrying(EventFrames) /\ line' = Append(line, f)
      BY <2>5, ControlFrames DEF NcpInv, LineOK
    <3>2. line \in Seq(Carrying(EventFrames)) => line' \in Seq(Carrying(EventFrames))
      BY <3>1, AppendType
    <3> QED BY <2>5, <3>2 DEF Agreeing, NotYetSet, OnlyCallbacksCome
  <2> QED BY <1>1, <1>2, <2>1, <2>4, <2>5 DEF NcpTakesData
<1> QED BY <1>1, <1>2 DEF NcpTakes

\* A step of the task between its calls, or of the NCP.
LEMMA AgreeingGoesOn ==
    ASSUME NcpInv, NcpInv', TaskInOrder, VersionsAreTrue, connecting \in {"second", "up"},
           op # "reset", pending_format # <<"Legacy">>, CallbacksAreEvents, Agreeing,
           UNCHANGED connecting, TaskStep \/ AppPolls \/ AppTakesCallbacks \/ AppDrops \/ NcpAnswers \/ NcpCallsBack
    PROVE  Agreeing'
<1>1. connecting = "up" => ncp_boot = "set"
  BY DEF Agreeing
<1>2. op = "poll" => ncp_boot = "set"
  BY <1>1 DEF TaskInOrder
<1>3. outbound.kind = "Rst" => pc \notin {"write", "reply"}
  BY DEF TaskInOrder
<1>4. ASSUME UNCHANGED connVars, ncp_boot' \in {"offered", "set"}, ncp_boot = "set" => ncp_boot' = "set",
             ncp_boot' # "set" => OnlyCallbacksCome' /\ response' = <<>> /\ result'.kind # "Ok"
      PROVE  Agreeing'
  <2>1. UNCHANGED <<in_flight, outbound, received>>
    BY <1>4 DEF connVars
  <2>2. AsksExtended'
    BY <2>1 DEF Agreeing, AsksExtended
  <2>3. ncp_boot' # "set" => NotYetSet'
    BY <1>4, <2>1 DEF Agreeing, NotYetSet
  <2> QED BY <1>1, <1>4, <2>2, <2>3 DEF Agreeing
<1>5. ncp_boot \in {"offered", "set"} /\ (ncp_boot # "set" => NotYetSet)
  BY DEF Agreeing
<1>6. ncp_boot # "set" => OnlyCallbacksCome /\ response = <<>> /\ result.kind # "Ok"
  BY <1>5 DEF NotYetSet
<1>7. <<>> \in Seq(Carrying(EventFrames))
  BY EmptySeq
<1>8. ASSUME NEW outcome \in {"Ok", "Transport", "TooLong"}, PumpEnds(outcome), UNCHANGED ncpVars
      PROVE  Agreeing'
  <2>1. /\ UNCHANGED <<connVars, response>> /\ chunk' = <<>> /\ (op = "command" => result'.kind # "Ok")
        /\ op \in {"command", "poll"}
    BY <1>8, PumpEndsDoes DEF hostVars
  <2>2. UNCHANGED <<ncp_boot, owed, line>>
    BY <1>8 DEF ncpVars
  <2>3. ncp_boot' # "set" => OnlyCallbacksCome' /\ response' = <<>> /\ result'.kind # "Ok"
    BY <1>2, <1>6, <1>7, <2>1, <2>2 DEF OnlyCallbacksCome
  <2> QED BY <1>4, <1>5, <2>1, <2>2, <2>3
<1>10. CASE ResetAttempt
  BY <1>10 DEF ResetAttempt, TaskInOrder
<1>11. CASE Write
  <2>1. UNCHANGED <<connVars, response>> /\ chunk' \in {chunk, <<>>} /\ (result' = result \/ result'.kind # "Ok")
    BY <1>11 DEF Write, Return, Returned, hostVars
  <2>2. CASE UNCHANGED ncpVars
    <3>1. UNCHANGED <<ncp_boot, owed, line>>
      BY <2>2 DEF ncpVars
    <3>2. ncp_boot' # "set" => OnlyCallbacksCome' /\ response' = <<>> /\ result'.kind # "Ok"
      BY <1>6, <1>7, <2>1, <3>1 DEF OnlyCallbacksCome
    <3> QED BY <1>4, <1>5, <2>1, <3>1, <3>2
  <2>3. CASE NcpTakes(outbound)
    <3>1. /\ ncp_boot' \in {"offered", "set"} /\ (ncp_boot = "set" => ncp_boot' = "set")
          /\ ncp_boot' # "set" => owed' = <<>> /\ line' \in Seq(Carrying(EventFrames))
      BY <1>3, <1>11, <2>3, TakesAgreeing DEF Write
    <3>2. ncp_boot' # "set" => OnlyCallbacksCome' /\ response' = <<>> /\ result'.kind # "Ok"
      BY <1>6, <1>7, <2>1, <3>1 DEF OnlyCallbacksCome
    <3> QED BY <1>4, <2>1, <3>1, <3>2
  <2> QED BY <1>11, <2>2, <2>3 DEF Write
<1>12. CASE PumpReturns
  <2>1. /\ UNCHANGED <<connVars, ncpVars>> /\ chunk' = <<>>
        /\ \/ op = "command" /\ response # <<>>
           \/ op = "command" /\ result'.kind # "Ok" /\ UNCHANGED response
           \/ op = "poll"
    BY <1>12, PumpReturnsDoes
  <2>2. UNCHANGED <<ncp_boot, owed, line>>
    BY <2>1 DEF ncpVars
  <2>3. ncp_boot' # "set" => OnlyCallbacksCome' /\ response' = <<>> /\ result'.kind # "Ok"
    BY <1>2, <1>6, <1>7, <2>1, <2>2 DEF OnlyCallbacksCome
  <2> QED BY <1>4, <1>5, <2>1, <2>2, <2>3
<1>13. CASE PumpRead
  <2>1. PICK n \in 1 .. MaxChunk :
           n <= Len(line) /\ chunk' = SubSeq(line, 1, n) /\ line' = SubSeq(line, n + 1, Len(line))
    BY <1>13 DEF PumpRead
  <2>2. n \in 1 .. Len(line)
    BY <2>1, NcpAssumption DEF NcpInv, LineOK
  <2>3. UNCHANGED <<connVars, response, result, owed, ncp_boot>>
    BY <1>13 DEF PumpRead, hostVars
  <2>4. line \in Seq(Carrying(EventFrames)) =>
           line' \in Seq(Carrying(EventFrames)) /\ chunk' \in Seq(Carrying(EventFrames))
    BY <2>1, <2>2, PartsOver
  <2>5. ncp_boot' # "set" => OnlyCallbacksCome' /\ response' = <<>> /\ result'.kind # "Ok"
    BY <1>6, <2>3, <2>4 DEF OnlyCallbacksCome
  <2> QED BY <1>4, <1>5, <2>3, <2>5
<1>14. CASE PumpTimeout \/ PumpReadFails
  BY <1>8, <1>14 DEF PumpTimeout, PumpReadFails
<1>15. CASE Consume
  <2>1. /\ in_flight \in Seq(Holding(ExtendedCommands)) /\ ConnInv'
    BY DEF Agreeing, AsksExtended, NcpInv
  <2>2. AsksExtended'
    BY <1>15, <2>1, ConsumeHolding DEF AsksExtended
  <2>3. UNCHANGED <<response, result, ncp_boot, owed, line>> /\ chunk' = Tail(chunk) /\ chunk # <<>>
    BY <1>15 DEF Consume, hostVars, ncpVars, NcpInv, TaskOK
  <2>4. ASSUME ncp_boot # "set" PROVE NotYetSet'
    <3>1. /\ chunk \in Seq(Carrying(EventFrames)) /\ in_flight \in Seq(Holding(VersionCommands))
          /\ OnlyCallbacksCome
      BY <1>5, <2>4 DEF NotYetSet, OnlyCallbacksCome
    <3>2. /\ in_flight' \in Seq(Holding(VersionCommands))
          /\ outbound'.kind = "Data" => outbound'.payload \in VersionCommands
          /\ received' # <<>> => Head(chunk).kind = "Data" /\ received'[1] = Head(chunk).payload
      BY <1>15, <2>1, <3>1, ConsumeHolding
    <3>3. Head(chunk) \in Carrying(EventFrames) /\ Tail(chunk) \in Seq(Carrying(EventFrames))
      BY <2>3, <3>1, PartsOver
    <3>4. received' # <<>> => received'[1].kind = "Callback"
      BY <3>2, <3>3 DEF Carrying, EventFrames
    <3>5. OnlyCallbacksCome'
      BY <2>3, <3>1, <3>3 DEF OnlyCallbacksCome
    <3> QED BY <1>6, <2>3, <2>4, <3>2, <3>4, <3>5 DEF NotYetSet
  <2> QED BY <1>1, <1>5, <2>2, <2>3, <2>4 DEF Agreeing
<1>16. CASE Reply
  <2>1. CASE NcpTakes(outbound) /\ UNCHANGED <<connVars, chunk, result>>
             /\ \/ received = <<>> /\ UNCHANGED <<corrVars, hostVars>>
                \/ received # <<>> /\ dispatch(received[1])
    <3>1. /\ ncp_boot' \in {"offered", "set"} /\ (ncp_boot = "set" => ncp_boot' = "set")
          /\ ncp_boot' # "set" => owed' = <<>> /\ line' \in Seq(Carrying(EventFrames))
      BY <1>3, <1>16, <2>1, TakesAgreeing DEF Reply
    <3>2. ncp_boot # "set" => UNCHANGED response
      <4>1. CASE received = <<>>
        BY <2>1, <4>1 DEF hostVars
      <4>2. CASE received # <<>>
        <5>1. dispatch(received[1])
          BY <2>1, <4>2
        <5> QED BY <1>5, <4>2, <5>1, CallbackIsFiled DEF NotYetSet
      <4> QED BY <4>1, <4>2
    <3>3. ncp_boot' # "set" => OnlyCallbacksCome' /\ response' = <<>> /\ result'.kind # "Ok"
      BY <1>6, <2>1, <3>1, <3>2 DEF OnlyCallbacksCome
    <3> QED BY <1>4, <2>1, <3>1, <3>3
  <2>2. CASE (PumpEnds("TooLong") \/ PumpEnds("Transport")) /\ UNCHANGED ncpVars
    BY <1>8, <2>2
  <2> QED BY <1>16, <2>1, <2>2 DEF Reply
<1>17. CASE AppPolls \/ AppTakesCallbacks \/ AppDrops
  <2>1. connecting = "up" /\ ncp_boot = "set"
    BY <1>1, <1>17 DEF AppPolls, AppTakesCallbacks, AppDrops
  <2>2. UNCHANGED connVars
    BY <1>17 DEF AppPolls, AppTakesCallbacks, AppDrops
  <2>3. UNCHANGED ncp_boot \/ (pc \in {"write", "reply"} /\ NcpTakes(outbound))
    BY <1>17 DEF AppPolls, AppTakesCallbacks, AppDrops, ncpVars
  <2>4. ncp_boot' = "set"
    BY <1>3, <2>1, <2>3, TakesAgreeing
  <2> QED BY <1>4, <2>2, <2>4
<1>18. CASE NcpAnswers \/ NcpCallsBack
  <2>1. UNCHANGED <<connVars, ncp_boot>>
    BY <1>18 DEF NcpAnswers, NcpCallsBack
  <2>2. ncp_boot = "set"
    BY <1>6, <1>18 DEF NcpAnswers, NcpCallsBack, OnlyCallbacksCome
  <2> QED BY <1>4, <2>1, <2>2
<1> QED
  BY <1>10, <1>11, <1>12, <1>13, <1>14, <1>15, <1>16, <1>17, <1>18 DEF TaskStep

\* A call of command after the first exchange asks in the extended layout.
LEMMA AsksInExtended ==
    ASSUME NcpInv, NEW frame_id \in Commands \cup {"version"}, NEW desired \in Versions,
           StartCommand(frame_id, desired), initial_version_sent, AsksExtended
    PROVE  AsksExtended'
<1>1. UNCHANGED connVars \/ (frame_id # "absent" /\ send_data(Sent(frame_id, desired)))
  BY StartCommandDoes
<1>2. CASE UNCHANGED connVars
  BY <1>2 DEF connVars, AsksExtended
<1>3. CASE frame_id # "absent" /\ send_data(Sent(frame_id, desired))
  <2>1. PICK p : p = Sent(frame_id, desired)
    OBVIOUS
  <2>2. p \in ExtendedCommands /\ p \in Payload
    BY <1>3, <2>1, SentType DEF HeaderFormat, ExtendedCommands
  <2>3. send_data(p) /\ ConnInv
    BY <1>3, <2>1 DEF NcpInv
  <2> QED BY <2>2, <2>3, SendDataHolding DEF AsksExtended
<1> QED BY <1>1, <1>2, <1>3

\* The second exchange begins with nothing of the first left.
LEMMA SecondBegins ==
    ASSUME NcpInv, VersionsAreTrue, FirstExchange, ConnectAgrees
    PROVE  Agreeing'
<1>1. /\ pc = "idle" /\ connecting = "first" /\ connecting' = "second" /\ result.kind = "Ok" /\ result.version = "older"
      /\ StartCommand("version", "older")
  BY DEF ConnectAgrees, StartCommand
<1>2. UnderWay /\ Got /\ op = "none"
  BY <1>1, LeavingFirst
<1>3. /\ initial_version_sent /\ in_flight = <<>> /\ outbound.kind # "Data" /\ response = <<>> /\ pending = <<>>
      /\ OnlyCallbacksCome /\ ncp_boot = IF ncp_version = "preferred" THEN "set" ELSE "offered"
  BY <1>2 DEF UnderWay, Got, FirstTaken
<1>4. ncp_version = "older" /\ "older" \in Versions
  BY <1>1 DEF VersionsAreTrue, Versions
<1>5. AsksExtended
  BY <1>3, EmptySeq DEF AsksExtended
<1>6. AsksExtended'
  BY <1>1, <1>3, <1>4, <1>5, AsksInExtended
<1>7. UNCHANGED <<ncpVars, response>> /\ chunk' \in {chunk, <<>>} /\ result'.kind # "Ok"
  BY <1>1, <1>4, StartCommandDoes
<1>8. UNCHANGED <<ncp_boot, owed, line>>
  BY <1>7 DEF ncpVars
<1>9. send_data(Sent("version", "older"))
  BY <1>1, <1>3 DEF StartCommand, Sent, begin_refused
<1>10. PICK p : p = Sent("version", "older")
  OBVIOUS
<1>11. p \in VersionCommands /\ p \in Payload
  BY <1>1, <1>4, <1>10, SentType DEF VersionCommands
<1>12. send_data(p) /\ ConnInv
  BY <1>9, <1>10 DEF NcpInv
<1>13. in_flight \in Seq(Holding(VersionCommands))
  BY <1>3, EmptySeq
<1>14. /\ in_flight' \in Seq(Holding(VersionCommands)) /\ received' = <<>>
       /\ outbound'.kind = "Data" => outbound'.payload \in VersionCommands
  BY <1>11, <1>12, <1>13, SendDataHolding
<1>15. OnlyCallbacksCome'
  BY <1>3, <1>7, <1>8, EmptySeq DEF OnlyCallbacksCome
<1>16. NotYetSet'
  BY <1>3, <1>7, <1>14, <1>15 DEF NotYetSet
<1> QED BY <1>1, <1>3, <1>4, <1>6, <1>8, <1>16 DEF Agreeing

\* The agreement under every step.
LEMMA NextNcpIsSet ==
    ASSUME NcpInv, NcpInv', TaskInOrder, TaskInOrder', VersionsAreTrue, FirstExchange, AfterFirst, NcpIsSet, NcpNext
    PROVE  NcpIsSet'
<1> SUFFICES ASSUME connecting' \in {"second", "up"}, resets' = 1, surprises' = 0
             PROVE  Agreeing'
  BY DEF NcpIsSet
<1>1. CASE AppResets \/ NcpSurprises
  BY <1>1 DEF AppResets, StartReset, NcpSurprises, TaskInOrder
<1>2. ASSUME connecting \in {"second", "up"}, resets = 1, surprises = 0
      PROVE  /\ op # "reset" /\ initial_version_sent /\ pending_format # <<"Legacy">>
             /\ CallbacksAreEvents /\ Agreeing
  BY <1>2 DEF AfterFirst, NcpIsSet
<1>3. CASE ConnectAgrees
  BY <1>3, SecondBegins
<1>4. CASE ConnectReturns
  <2>1. /\ pc = "idle" /\ Negotiated /\ connecting' = "up"
        /\ UNCHANGED <<connVars, ncpVars, resets, surprises>>
    BY <1>4 DEF ConnectReturns, boundVars
  <2>2. UNCHANGED <<in_flight, outbound, ncp_boot>>
    BY <2>1 DEF connVars, ncpVars
  <2>3. AsksExtended /\ ncp_boot = "set"
    <3>1. CASE connecting = "second" /\ result.kind = "Ok"
      BY <1>2, <2>1, <3>1 DEF Agreeing, NotYetSet
    <3>2. CASE connecting = "first" /\ result.kind = "Ok" /\ result.version = "preferred"
      <4>1. in_flight = <<>> /\ outbound.kind # "Data" /\ FirstTaken
        BY <2>1, <3>2, LeavingFirst DEF Got
      <4>2. ncp_version = "preferred"
        BY <3>2 DEF VersionsAreTrue
      <4> QED BY <4>1, <4>2, EmptySeq DEF AsksExtended, FirstTaken
    <3> QED BY <2>1, <3>1, <3>2 DEF Negotiated
  <2> QED BY <2>1, <2>2, <2>3 DEF Agreeing, AsksExtended
<1>5. CASE AppCommands
  <2>1. PICK frame_id \in Commands : StartCommand(frame_id, IF frame_id = "version" THEN version ELSE "none")
    BY <1>5 DEF AppCommands
  <2>2. PICK desired \in Versions : StartCommand(frame_id, desired)
    BY <2>1 DEF NcpInv, CountersOK, Versions
  <2>3. connecting = "up" /\ UNCHANGED <<connecting, ncpVars, resets, surprises>>
    BY <1>5, <2>2, StartCommandDoes DEF AppCommands
  <2>4. initial_version_sent /\ Agreeing
    BY <1>2, <2>3
  <2>5. AsksExtended'
    BY <2>2, <2>4, AsksInExtended DEF Agreeing
  <2>6. ncp_boot' = "set"
    BY <2>3, <2>4 DEF Agreeing, ncpVars
  <2> QED BY <2>5, <2>6 DEF Agreeing
<1>6. CASE TaskStep \/ AppPolls \/ AppTakesCallbacks \/ AppDrops \/ NcpAnswers \/ NcpCallsBack
  <2>1. UNCHANGED <<connecting, resets, surprises>>
    BY <1>6 DEF TaskStep, ResetAttempt, Write, PumpReturns, PumpRead, PumpTimeout, PumpReadFails, Consume,
                Reply, PumpEnds, AppPolls, AppTakesCallbacks, AppDrops, NcpAnswers, NcpCallsBack, taskVars,
                boundVars
  <2>2. /\ op # "reset" /\ pending_format # <<"Legacy">> /\ CallbacksAreEvents /\ Agreeing
        /\ connecting \in {"second", "up"}
    BY <1>2, <2>1
  <2> QED BY <1>6, <2>1, <2>2, AgreeingGoesOn
<1>7. CASE ConnectStarts \/ ConnectOffers
  BY <1>7 DEF ConnectStarts, ConnectOffers
<1> QED BY <1>1, <1>3, <1>4, <1>5, <1>6, <1>7 DEF NcpNext

-----------------------------------------------------------------------------
(* The theorems *)

\* connect has not begun.
LEMMA InitConnect == NcpInit => ConnectInv
<1> SUFFICES ASSUME NcpInit PROVE ConnectInv
  OBVIOUS
<1>1. /\ connecting = "start" /\ pc = "idle" /\ op = "none" /\ chunk = <<>> /\ line = <<>> /\ owed = <<>>
      /\ result.version = "none" /\ response = <<>> /\ callbacks = <<>> /\ ~initial_version_sent
      /\ pending_format = <<>> /\ ncp_rx = 0 /\ ncp_tx = 0 /\ ncp_boot = "fresh" /\ ~ncp_failed
      /\ issued = 0 /\ resets = 0 /\ surprises = 0
  BY DEF NcpInit, Returned
<1>2. /\ in_flight = <<>> /\ next_tx_frame = 0 /\ next_rx_frame = 0 /\ outbound.kind = "Nothing"
      /\ received = <<>> /\ pending = <<>> /\ next_sequence_number = 0
  BY DEF NcpInit, Init, CorrInit, Nothing
<1>3. TaskInOrder
  BY <1>1 DEF TaskInOrder
<1>4. BeforeOffer
  BY <1>1, <1>2, EmptySeq DEF BeforeOffer
<1>5. VersionsAreTrue
  BY <1>1, <1>2, EmptySeq DEF VersionsAreTrue
<1>6. FirstExchange /\ AfterFirst /\ NcpIsSet
  BY <1>1 DEF FirstExchange, AfterFirst, NcpIsSet
<1> QED BY <1>3, <1>4, <1>5, <1>6 DEF ConnectInv

\* Every step of Ncp keeps ConnectInv.
LEMMA NextConnect ==
    ASSUME NcpInv, NcpInv', ConnectInv, [NcpNext]_ncpAllVars PROVE ConnectInv'
<1>1. TaskInOrder /\ BeforeOffer /\ VersionsAreTrue /\ FirstExchange /\ AfterFirst /\ NcpIsSet
  BY DEF ConnectInv
<1>2. CASE NcpNext
  <2>1. TaskInOrder'
    BY <1>1, <1>2, NextInOrder
  <2>2. BeforeOffer'
    BY <1>1, <1>2, <2>1, NextBeforeOffer
  <2>3. VersionsAreTrue'
    BY <1>1, <1>2, NextVersions
  <2>4. FirstExchange'
    BY <1>1, <1>2, NextFirst
  <2>5. AfterFirst'
    BY <1>1, <1>2, <2>1, NextAfterFirst
  <2>6. NcpIsSet'
    BY <1>1, <1>2, <2>1, NextNcpIsSet
  <2> QED BY <2>1, <2>2, <2>3, <2>4, <2>5, <2>6 DEF ConnectInv
<1>3. CASE UNCHANGED ncpAllVars
  <2>1. UNCHANGED <<connVars, corrVars, taskVars, hostVars, ncpVars, boundVars>>
    BY <1>3 DEF ncpAllVars
  <2>2. UNCHANGED <<pc, op, chunk, result, connecting, version, callbacks, response, initial_version_sent,
                    pending_format, line, ncp_tx, ncp_rx, owed, ncp_boot, ncp_version, ncp_failed, issued,
                    resets, surprises>>
    BY <2>1 DEF taskVars, hostVars, ncpVars, boundVars
  <2>3. UNCHANGED <<in_flight, next_tx_frame, next_rx_frame, outbound, received, pending, next_sequence_number>>
    BY <2>1 DEF connVars, corrVars
  <2>4. TaskInOrder' /\ BeforeOffer' /\ VersionsAreTrue'
    BY <1>1, <2>2, <2>3 DEF TaskInOrder, BeforeOffer, VersionsAreTrue
  <2>5. FirstExchange'
    <3>1. UnderWay' = UnderWay
      BY <2>2 DEF UnderWay
    <3>2. FirstPending => FirstPending'
      BY <2>2, <2>3 DEF FirstPending
    <3>3. FirstTaken => FirstTaken'
      BY <2>2 DEF FirstTaken
    <3>4. OnlyCallbacksCome => OnlyCallbacksCome'
      BY <2>2 DEF OnlyCallbacksCome
    <3>5. CallbacksAreEvents => CallbacksAreEvents'
      BY <2>2 DEF CallbacksAreEvents
    <3>6. Writing => Writing'
      BY <2>2, <2>3, <3>2 DEF Writing
    <3>7. Waiting => Waiting'
      BY <2>2, <2>3, <3>2, <3>3, Zenon DEF Waiting
    <3>8. Accepted => Accepted'
      BY <2>2, <2>3, <3>2, <3>3, <3>4 DEF Accepted
    <3>9. Got => Got'
      BY <2>2, <2>3, <3>3, <3>4, <3>5 DEF Got
    <3> QED BY <1>1, <2>2, <3>1, <3>6, <3>7, <3>8, <3>9 DEF FirstExchange
  <2>6. AfterFirst' /\ NcpIsSet'
    BY <1>1, <2>2, <2>3 DEF AfterFirst, NcpIsSet, Agreeing, AsksExtended, NotYetSet, OnlyCallbacksCome,
                            CallbacksAreEvents
  <2> QED BY <2>4, <2>5, <2>6 DEF ConnectInv
<1> QED BY <1>2, <1>3

\* connect follows its exchanges as ncp.rs:140-198 lays them out, at every point of the task.
THEOREM ConnectInvHolds == NcpSpec => []ConnectInv
<1>1. NcpInit => ConnectInv
  BY InitConnect
<1>2. NcpInv /\ NcpInv' /\ ConnectInv /\ [NcpNext]_ncpAllVars => ConnectInv'
  BY NextConnect
<1> QED BY <1>1, <1>2, NcpInvHolds, PTL DEF NcpSpec

\* CallbacksAreReadAsSent, however many commands failed, were dropped or went unanswered: until the
\* application resets the link no callback is parsed with the legacy header (ncp.rs:91-96).
THEOREM CallbacksAlwaysReadAsSent == NcpSpec => []CallbacksAreReadAsSent
<1>1. ConnectInv => CallbacksAreReadAsSent
  BY DEF ConnectInv, AfterFirst, CallbacksAreEvents, CallbacksAreReadAsSent
<1> QED BY <1>1, ConnectInvHolds, PTL

\* ConnectAgreesOnVersion: what connect returns talks to an NCP that has agreed on the version it
\* reports, whichever the NCP runs (ncp.rs:140-198).
THEOREM ConnectAlwaysAgreesOnVersion == NcpSpec => []ConnectAgreesOnVersion
<1>1. ConnectInv => ConnectAgreesOnVersion
  BY DEF ConnectInv, NcpIsSet, Agreeing, VersionsAreTrue, ConnectAgreesOnVersion
<1> QED BY <1>1, ConnectInvHolds, PTL
=============================================================================
