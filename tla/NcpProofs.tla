----------------------------- MODULE NcpProofs -----------------------------
(***************************************************************************)
(* Proofs about Ncp, for every set of commands, NCP versions and bounds.   *)
(*                                                                         *)
(* NcpInv is the inductive invariant.  It takes in ConnInv and CorrInv:    *)
(* the runtime touches its Connection and its Correlator only through      *)
(* their methods, so what is proved of each alone holds of it here.        *)
(***************************************************************************)
EXTENDS Ncp, AshConnectionProofs, CorrelatorProofs

-----------------------------------------------------------------------------
(* The inductive invariant *)

CommandFrames == {f \in EzspFrames : f.kind = "Command"}

LineData == [kind : {"Data"}, frame_num : SeqNum, ack_num : SeqNum,
             retransmit : BOOLEAN, payload : EzspFrames]

\* What the NCP puts on the line, and what the decoder makes of noise.
LineFrames ==
    LineData \cup AckFrames \cup NakFrames \cup {RstAck, ErrorFrame}
      \cup {Rejected(recoverable) : recoverable \in BOOLEAN}

\* What one call of the connection is handed and hands back.
PayloadsOK ==
    /\ \A i \in 1 .. Len(in_flight) : in_flight[i].payload \in CommandFrames
    /\ outbound.kind = "Data" => outbound.payload \in CommandFrames
    /\ received # <<>> => received[1] \in EzspFrames
    /\ received # <<>> => outbound.kind = "Ack"

LineOK ==
    /\ line \in Seq(LineFrames) /\ owed \in Seq(EzspFrames)
    /\ ncp_tx \in SeqNum /\ ncp_rx \in SeqNum
    /\ ncp_version \in NcpVersions

CountersOK ==
    /\ issued \in 0 .. MaxCommands /\ events \in 0 .. MaxCallbacks
    /\ faults \in Nat /\ version \in Versions

\* A reset that waits has an attempt left to count.
TaskOK ==
    /\ pc \in {"idle", "retry", "write", "pump", "consume", "reply"}
    /\ op \in {"none", "reset", "command", "poll"}
    /\ pc = "idle" <=> op = "none"
    /\ chunk \in Seq(LineFrames) /\ (pc = "consume" => chunk # <<>>)
    /\ tries \in 0 .. MAX_RESET_ATTEMPTS
    /\ op = "reset" /\ pc # "retry" => tries < MAX_RESET_ATTEMPTS
    /\ pending_format \in {<<>>} \cup {<<f>> : f \in Formats}
    /\ Len(response) <= 1

\* While command runs, its answer is awaited or there.
CommandAwaits == op = "command" => pending # <<>> \/ response # <<>>

\* The callback the task has acknowledged and not yet dispatched.
Undispatched ==
    IF pc = "reply" /\ received # <<>> /\ received[1].kind = "Callback" THEN received ELSE <<>>

Tokens(frames) == [i \in 1 .. Len(frames) |-> frames[i].token]

QueuesOK ==
    callbacks \in Seq(EzspFrames) /\ taken \in Seq(EzspFrames) /\ accepted \in Seq(EzspFrames)

\* At every point, the callbacks handed over, queued and in hand are those acknowledged.
NoCallbackLost ==
    faults = 0 => Tokens((taken \o callbacks) \o Undispatched) = Tokens(accepted)

NcpInv ==
    /\ ConnInv /\ CorrInv
    /\ PayloadsOK /\ LineOK /\ CountersOK /\ TaskOK
    /\ CommandAwaits /\ LostLinkIsNotATimeout
    /\ QueuesOK /\ NoCallbackLost

-----------------------------------------------------------------------------
(* Frames *)

\* A frame put together from parts that have their types.
LEMMA EzspType ==
    ASSUME NEW kind \in Kinds, NEW format \in Formats,
           NEW sequence \in Sequence \cup (0 .. MaxCallbacks), NEW frame_id \in FrameIds,
           NEW token \in (0 .. MaxCommands) \cup (0 .. MaxCallbacks), NEW v \in Versions
    PROVE  /\ Ezsp(kind, format, sequence, frame_id, token, v) \in EzspFrames
           /\ Ezsp(kind, format, sequence, frame_id, token, v).kind = kind
BY DEF Ezsp, EzspFrames

\* The command of a call of command, numbered by the correlator.
LEMMA CommandType ==
    ASSUME NEW format \in Formats, NEW sequence \in Sequence, NEW frame_id \in FrameIds,
           NEW token \in 0 .. MaxCommands, NEW v \in Versions
    PROVE  Ezsp("Command", format, sequence, frame_id, token, v) \in CommandFrames
BY EzspType DEF CommandFrames, Kinds

\* Whatever the state of its version negotiation, the NCP answers with an EZSP frame.
LEMMA ReplyType ==
    ASSUME LineOK, NEW c \in CommandFrames
    PROVE  NcpReply(c) \in EzspFrames
<1>1. /\ c.format \in Formats /\ c.sequence \in Sequence \cup (0 .. MaxCallbacks)
      /\ c.frame_id \in FrameIds /\ c.token \in (0 .. MaxCommands) \cup (0 .. MaxCallbacks)
  BY DEF CommandFrames, EzspFrames
<1>2. /\ ncp_version \in Versions /\ "none" \in Versions /\ "Response" \in Kinds
      /\ {"version", "invalid"} \subseteq FrameIds /\ "Extended" \in Formats
  BY NcpAssumption DEF LineOK, Versions, Kinds, Formats
<1> QED BY <1>1, <1>2, EzspType DEF NcpReply

\* A frame of the line that the decoder accepted is one the connection handles.
LEMMA LineFrameIsAshFrame ==
    ASSUME NEW f \in LineFrames, f.kind # "Rejected"
    PROVE  /\ f \in AshFrame
           /\ f.kind = "Data" => f.payload \in EzspFrames
           /\ f.kind # "Rst"
<1>1. CASE f \in LineData
  BY <1>1, EzspPayloadAssumption DEF LineData, AshFrame, DataFrames
<1>2. CASE f \in AckFrames \cup NakFrames \cup {RstAck, ErrorFrame}
  BY <1>2 DEF AshFrame, AckFrames, NakFrames, RstAck, ErrorFrame
<1>3. CASE f \in {Rejected(recoverable) : recoverable \in BOOLEAN}
  BY <1>3 DEF Rejected
<1> QED BY <1>1, <1>2, <1>3 DEF LineFrames

\* A read that did not decode says whether a NAK can recover it.
LEMMA RejectedSaysHow ==
    ASSUME NEW f \in LineFrames, f.kind = "Rejected"
    PROVE  f.recoverable \in BOOLEAN
BY DEF LineFrames, LineData, AckFrames, NakFrames, RstAck, ErrorFrame, Rejected

-----------------------------------------------------------------------------
(* The calls on the connection *)

\* begin_reset drops the queue or leaves it, and hands back no payload.
LEMMA BeginResetPayloads ==
    ASSUME ConnInv, PayloadsOK, begin_reset PROVE PayloadsOK'
<1>1. in_flight' = in_flight \/ (in_flight' = <<>> /\ Len(in_flight') = 0)
  BY DEF begin_reset
<1>2. \A i \in 1 .. Len(in_flight') : in_flight'[i].payload \in CommandFrames
  BY <1>1 DEF PayloadsOK
<1> QED BY <1>2 DEF begin_reset, PayloadsOK, Rst, Nothing

\* send_data queues the command it was given or refuses it.
LEMMA SendDataPayloads ==
    ASSUME ConnInv, PayloadsOK, NEW p \in CommandFrames, send_data(p) PROVE PayloadsOK'
<1>1. CASE SendDataRefused(NotConnected) \/ SendDataRefused(WindowFull)
  BY <1>1 DEF SendDataRefused, PayloadsOK, NotConnected, WindowFull
<1>2. CASE SendDataAccepted(p)
  <2> DEFINE new == [frame_num |-> next_tx_frame, payload |-> p, sends |-> 1]
  <2>1. new.payload = p /\ in_flight' = Append(in_flight, new) /\ in_flight \in Seq(InFlight)
    BY <1>2 DEF SendDataAccepted, ConnInv, TypeOK
  <2> HIDE DEF new
  <2>2. /\ Len(in_flight') = Len(in_flight) + 1 /\ Len(in_flight) \in Nat
        /\ in_flight'[Len(in_flight) + 1] = new
        /\ \A i \in 1 .. Len(in_flight) : in_flight'[i] = in_flight[i]
    BY <2>1
  <2>3. \A i \in 1 .. Len(in_flight') : in_flight'[i].payload \in CommandFrames
    BY <2>1, <2>2 DEF PayloadsOK
  <2> QED BY <1>2, <2>3 DEF SendDataAccepted, PayloadsOK, Data
<1> QED BY <1>1, <1>2 DEF send_data

\* What retire_acknowledged leaves is what was there.
LEMMA RetirePayloads ==
    ASSUME ConnInv, PayloadsOK, NEW ack_num \in SeqNum
    PROVE  /\ retire_acknowledged(ack_num) \in Seq(InFlight)
           /\ \A i \in 1 .. Len(retire_acknowledged(ack_num)) :
                 retire_acknowledged(ack_num)[i].payload \in CommandFrames
<1> DEFINE n == AcknowledgedPrefix(ack_num)
           left == retire_acknowledged(ack_num)
<1>1. n \in 0 .. Len(in_flight) /\ left = SubSeq(in_flight, n + 1, Len(in_flight))
  BY PrefixIsAPosition DEF ConnInv, retire_acknowledged
<1>2. in_flight \in Seq(InFlight) /\ Len(in_flight) \in Nat
  BY DEF ConnInv, TypeOK
<1> HIDE DEF n, left
<1>3. /\ left \in Seq(InFlight) /\ Len(left) = Len(in_flight) - n
      /\ \A i \in 1 .. Len(left) : left[i] = in_flight[i + n]
  BY <1>1, <1>2
<1>4. \A i \in 1 .. Len(left) : left[i].payload \in CommandFrames
  BY <1>1, <1>2, <1>3 DEF PayloadsOK
<1> QED BY <1>3, <1>4 DEF left

\* on_frame retires, resends and delivers, and sends no payload it was not given.
LEMMA OnFramePayloads ==
    ASSUME ConnInv, PayloadsOK, NEW f \in AshFrame, f.kind = "Data" => f.payload \in EzspFrames,
           on_frame(f)
    PROVE  PayloadsOK'
<1>1. CASE OnRstAck \/ OnError
  <2>1. in_flight' = <<>> /\ outbound' = Nothing /\ received' = <<>> /\ Len(in_flight') = 0
    BY <1>1 DEF OnRstAck, OnError
  <2> QED BY <2>1 DEF PayloadsOK, Nothing
<1>2. CASE OnRst
  BY <1>2 DEF OnRst, PayloadsOK, Nothing
<1>3. CASE f.kind \in {"Ack", "Nak", "Data"}
  <2> DEFINE left == retire_acknowledged(f.ack_num)
  <2>1. f.ack_num \in SeqNum
    BY <1>3 DEF AshFrame, DataFrames, AckFrames, NakFrames, Rst, RstAck, ErrorFrame
  <2>2. /\ left \in Seq(InFlight)
        /\ \A i \in 1 .. Len(left) : left[i].payload \in CommandFrames
    BY <2>1, RetirePayloads
  <2> HIDE DEF left
  <2>3. CASE in_flight' = left /\ outbound'.kind \in {"Nothing", "Ack"}
             /\ (received' = <<>> \/ (received' = <<f.payload>> /\ f.kind = "Data"
                                      /\ outbound'.kind = "Ack"))
    BY <2>2, <2>3 DEF PayloadsOK
  <2>4. CASE RetransmitOldest(left) /\ received' = <<>>
    <3>1. \A i \in 1 .. Len(in_flight') : in_flight'[i].payload \in CommandFrames
      BY <2>2, <2>4, RetransmitKeepsContent
    <3>2. outbound'.kind = "Data" => outbound'.payload \in CommandFrames
      <4>1. CASE outbound' = Nothing
        BY <4>1 DEF Nothing
      <4>2. CASE /\ left # <<>>
                 /\ outbound' = Data(left[1].frame_num, next_rx_frame, TRUE, left[1].payload)
        <5>1. 1 \in 1 .. Len(left)
          BY <2>2, <4>2
        <5> QED BY <2>2, <4>2, <5>1 DEF Data
      <4> QED BY <2>4, <4>1, <4>2 DEF RetransmitOldest
    <3> QED BY <2>4, <3>1, <3>2 DEF PayloadsOK
  <2>5. OnAck(f.ack_num) \/ OnNak(f.ack_num)
          \/ (f.kind = "Data" /\ OnData(f.frame_num, f.ack_num, f.payload))
    BY <1>3 DEF on_frame
  <2>6. CASE OnAck(f.ack_num)
    BY <2>3, <2>6 DEF OnAck, left, Nothing
  <2>7. CASE OnNak(f.ack_num)
    BY <2>4, <2>7 DEF OnNak, left
  <2>8. CASE f.kind = "Data" /\ OnData(f.frame_num, f.ack_num, f.payload)
    BY <2>3, <2>8 DEF OnData, left, Ack
  <2> QED BY <2>5, <2>6, <2>7, <2>8
<1> QED BY <1>1, <1>2, <1>3 DEF on_frame

\* on_decode_failure carries no payload.
LEMMA DecodeFailurePayloads ==
    ASSUME PayloadsOK, NEW recoverable, on_decode_failure(recoverable) PROVE PayloadsOK'
BY DEF PayloadsOK, on_decode_failure, Nak, Nothing

-----------------------------------------------------------------------------
(* Every step is a call of the connection and of the correlator, or leaves them alone *)

\* What a step does to the two components.
Calls == [Next]_connVars /\ PayloadsOK' /\ [CorrNext]_corrVars

\* A step that leaves the connection alone leaves its payloads alone.
LEMMA SameConnection ==
    ASSUME PayloadsOK, UNCHANGED connVars PROVE [Next]_connVars /\ PayloadsOK'
BY DEF connVars, PayloadsOK

\* classify gives up the outstanding command or leaves it, like time_out and like no call at all.
LEMMA ClassifyIsACall ==
    ASSUME NEW frame, classify(frame) PROVE [CorrNext]_corrVars
BY DEF classify, CorrNext, time_out, corrVars

\* command numbers its frame and queues it, or stops before either.
LEMMA StartCommandCalls ==
    ASSUME NcpInv, NEW frame_id \in Commands \cup {"version"}, NEW desired \in Versions,
           StartCommand(frame_id, desired)
    PROVE  Calls
<1>1. ConnInv /\ PayloadsOK /\ CorrInv
  BY DEF NcpInv
<1>2. CASE UNCHANGED connVars /\ UNCHANGED corrVars
  BY <1>1, <1>2, SameConnection DEF Calls
<1>3. CASE frame_id # "absent" /\ begin(frame_id)
  <2>1. frame_id \in FrameIds
    BY <1>3, NcpAssumption
  <2>2. [CorrNext]_corrVars
    BY <1>3, <2>1 DEF CorrNext
  <2>3. CASE UNCHANGED connVars
    BY <1>1, <2>2, <2>3, SameConnection DEF Calls
  <2> DEFINE p == Ezsp("Command", HeaderFormat(frame_id), next_sequence_number, frame_id,
                       issued + 1, desired)
  <2>4. CASE send_data(p)
    <3>1. issued + 1 \in 0 .. MaxCommands
      BY NcpAssumption DEF StartCommand, NcpInv, CountersOK
    <3>2. HeaderFormat(frame_id) \in Formats /\ next_sequence_number \in Sequence
      BY <1>1 DEF HeaderFormat, Formats, CorrInv, CorrTypeOK
    <3>3. p \in CommandFrames
      BY <2>1, <3>1, <3>2, CommandType
    <3>4. p \in Payload
      BY <3>3, EzspPayloadAssumption DEF CommandFrames
    <3> HIDE DEF p
    <3>5. [Next]_connVars
      BY <2>4, <3>4 DEF Next
    <3>6. PayloadsOK'
      BY <1>1, <2>4, <3>3, SendDataPayloads
    <3> QED BY <2>2, <3>5, <3>6 DEF Calls
  <2> QED BY <1>3, <2>3, <2>4 DEF StartCommand
<1> QED BY <1>2, <1>3 DEF StartCommand

\* consume hands the connection the first frame of the chunk, or the failure to decode it.
LEMMA ConsumeCalls ==
    ASSUME NcpInv, Consume PROVE Calls
<1>1. ConnInv /\ PayloadsOK
  BY DEF NcpInv
<1> DEFINE f == Head(chunk)
<1>2. f \in LineFrames
  BY DEF Consume, NcpInv, TaskOK
<1>3. CASE f.kind = "Rejected"
  <2>1. on_decode_failure(f.recoverable) /\ f.recoverable \in BOOLEAN
    BY <1>2, <1>3, RejectedSaysHow DEF Consume
  <2>2. [Next]_connVars /\ PayloadsOK'
    BY <1>1, <2>1, DecodeFailurePayloads DEF Next
  <2> QED BY <2>2 DEF Calls, Consume
<1>4. CASE f.kind # "Rejected"
  <2>1. on_frame(f) /\ f \in AshFrame /\ (f.kind = "Data" => f.payload \in EzspFrames)
    BY <1>2, <1>4, LineFrameIsAshFrame DEF Consume
  <2> HIDE DEF f
  <2>2. [Next]_connVars /\ PayloadsOK'
    BY <1>1, <2>1, OnFramePayloads DEF Next
  <2> QED BY <2>2 DEF Calls, Consume
<1> QED BY <1>3, <1>4

\* The end of command tells the correlator that the command timed out or that the NCP reset.
LEMMA NoAnswerCalls ==
    ASSUME NEW outcome, NoAnswer(outcome) PROVE [CorrNext]_corrVars
BY DEF NoAnswer, CorrNext

\* Every step of the runtime, of the application and of the NCP.
LEMMA NcpNextCalls ==
    ASSUME NcpInv, NcpNext PROVE Calls
<1>1. ConnInv /\ PayloadsOK
  BY DEF NcpInv
<1>2. CASE ResetAttempt
  <2>1. [CorrNext]_corrVars
    BY <1>2 DEF ResetAttempt
  <2>2. [Next]_connVars /\ PayloadsOK'
    BY <1>1, <1>2, SameConnection, BeginResetPayloads DEF ResetAttempt, Next
  <2> QED BY <2>1, <2>2 DEF Calls
<1>3. CASE Consume
  BY <1>3, ConsumeCalls
<1>4. CASE ConnectOffers \/ ConnectAgrees
  BY <1>4, StartCommandCalls DEF ConnectOffers, ConnectAgrees, Versions
<1>5. CASE AppCommands
  <2>1. version \in Versions /\ "none" \in Versions
    BY DEF NcpInv, CountersOK, Versions
  <2> QED BY <1>5, <2>1, StartCommandCalls DEF AppCommands
<1>6. CASE UNCHANGED connVars /\ [CorrNext]_corrVars
  BY <1>1, <1>6, SameConnection DEF Calls
<1>7. CASE PumpReturns
  <2>1. [CorrNext]_corrVars
    BY <1>7, NoAnswerCalls
    DEF PumpReturns, ResetDone, Answered, Disconnected, PollDone, CorrNext
  <2> QED BY <1>6, <1>7, <2>1 DEF PumpReturns
<1>8. ASSUME NEW outcome, PumpEnds(outcome) PROVE UNCHANGED connVars /\ [CorrNext]_corrVars
  BY <1>8, NoAnswerCalls DEF PumpEnds
<1>9. CASE PumpTimeout \/ PumpReadFails
  BY <1>6, <1>8, <1>9 DEF PumpTimeout, PumpReadFails
<1>10. CASE Reply
  <2>1. ASSUME NEW payload, dispatch(payload) PROVE [CorrNext]_corrVars
    BY <2>1, ClassifyIsACall DEF dispatch, File
  <2> QED BY <1>6, <1>8, <1>10, <2>1 DEF Reply
<1>11. CASE Write \/ PumpRead \/ ConnectReturns \/ AppPolls \/ AppTakesCallbacks \/ AppDrops
  BY <1>6, <1>11 DEF Write, PumpRead, ConnectReturns, AppPolls, AppTakesCallbacks, AppDrops
<1>12. CASE ConnectStarts \/ AppResets
  BY <1>6, <1>12 DEF ConnectStarts, AppResets, StartReset
<1>13. CASE NcpAnswers \/ NcpCallsBack \/ NcpSurprises
  BY <1>6, <1>13 DEF NcpAnswers, NcpCallsBack, NcpSurprises
<1> QED
  BY <1>2, <1>3, <1>4, <1>5, <1>7, <1>9, <1>10, <1>11, <1>12, <1>13 DEF NcpNext, TaskStep

-----------------------------------------------------------------------------
(* The line, the NCP and the counters *)

\* A step that leaves the NCP and the line alone.
LEMMA SameLine ==
    ASSUME LineOK, UNCHANGED ncpVars PROVE LineOK'
BY DEF ncpVars, LineOK

\* One more frame at the end of a sequence.
LEMMA AppendType ==
    ASSUME NEW S, NEW s \in Seq(S), NEW e \in S PROVE Append(s, e) \in Seq(S)
OBVIOUS

\* The NCP answers an RST with an RSTACK and starts over.
LEMMA RstLine ==
    ASSUME LineOK, NcpTakesRst PROVE LineOK'
<1>1. line' \in Seq(LineFrames)
  BY AppendType DEF LineOK, NcpTakesRst, LineFrames
<1>2. owed' \in Seq(EzspFrames) /\ ncp_tx' \in SeqNum /\ ncp_rx' \in SeqNum
  BY ModulusAssumption DEF NcpTakesRst, SeqNum
<1> QED BY <1>1, <1>2 DEF LineOK, NcpTakesRst

\* The NCP takes a command of the host, or says what it expects instead.
LEMMA DataLine ==
    ASSUME LineOK, NEW f, f.payload \in CommandFrames, NcpTakesData(f) PROVE LineOK'
<1>1. next_sequence(ncp_rx) \in SeqNum /\ ncp_rx \in SeqNum
  BY NextSequence DEF LineOK
<1>2. \A n \in SeqNum : Ack(n) \in LineFrames /\ Nak(n) \in LineFrames
  BY DEF Ack, Nak, LineFrames, AckFrames, NakFrames
<1>3. CASE UNCHANGED ncpVars
  BY <1>3, SameLine
<1>4. CASE /\ ncp_rx' = next_sequence(ncp_rx) /\ owed' = Append(owed, NcpReply(f.payload))
           /\ line' = Append(line, Ack(ncp_rx')) /\ UNCHANGED <<ncp_tx, ncp_version>>
  <2>1. owed' \in Seq(EzspFrames)
    BY <1>4, AppendType, ReplyType DEF LineOK
  <2>2. line' \in Seq(LineFrames)
    BY <1>1, <1>2, <1>4, AppendType DEF LineOK
  <2> QED BY <1>1, <1>4, <2>1, <2>2 DEF LineOK
<1>5. CASE /\ line' = Append(line, IF f.retransmit THEN Ack(ncp_rx) ELSE Nak(ncp_rx))
           /\ UNCHANGED <<ncp_tx, ncp_rx, owed, ncp_version>>
  <2>1. line' \in Seq(LineFrames)
    BY <1>1, <1>2, <1>5, AppendType DEF LineOK
  <2> QED BY <1>5, <2>1 DEF LineOK
<1> QED BY <1>3, <1>4, <1>5 DEF NcpTakesData

\* The NCP takes what the host wrote.
LEMMA TakesLine ==
    ASSUME LineOK, PayloadsOK, NcpTakes(outbound) PROVE LineOK'
BY RstLine, DataLine, SameLine DEF NcpTakes, PayloadsOK

\* The NCP numbers a frame and puts it on the line.
LEMMA SendsLine ==
    ASSUME LineOK, NEW frame \in EzspFrames, NcpSends(frame),
           owed' \in Seq(EzspFrames), UNCHANGED <<ncp_rx, ncp_version>>
    PROVE  LineOK'
<1>1. Data(ncp_tx, ncp_rx, FALSE, frame) \in LineFrames
  BY DEF LineOK, Data, LineFrames, LineData
<1>2. line' \in Seq(LineFrames)
  BY <1>1, AppendType DEF NcpSends, LineOK
<1>3. ncp_tx' \in SeqNum
  BY NextSequence DEF NcpSends, LineOK
<1> QED BY <1>2, <1>3 DEF LineOK

\* The line, the NCP's numbers and the bounds under every step.
LEMMA NcpNextLine ==
    ASSUME NcpInv, NcpNext PROVE LineOK' /\ CountersOK'
<1> USE NcpAssumption
<1>1. LineOK /\ CountersOK /\ PayloadsOK
  BY DEF NcpInv
<1>2. CASE UNCHANGED ncpVars /\ UNCHANGED <<issued, events, faults, version>>
  BY <1>1, <1>2, SameLine DEF CountersOK
<1>3. CASE ResetAttempt \/ PumpReturns \/ PumpTimeout \/ Consume \/ AppPolls \/ AppTakesCallbacks
  BY <1>2, <1>3
  DEF ResetAttempt, PumpReturns, PumpTimeout, PumpEnds, Consume, AppPolls, AppTakesCallbacks,
      boundVars, taskVars
<1>4. CASE ConnectStarts \/ AppResets
  BY <1>2, <1>4 DEF ConnectStarts, AppResets, StartReset
<1>5. CASE ConnectReturns
  <2>1. version' \in Versions
    BY <1>1, <1>5 DEF ConnectReturns, Negotiated, CountersOK, Versions
  <2> QED BY <1>1, <1>5, <2>1, SameLine DEF ConnectReturns, CountersOK, boundVars
<1>6. ASSUME NEW frame_id, NEW desired, StartCommand(frame_id, desired) PROVE LineOK' /\ CountersOK'
  <2>1. issued' \in 0 .. MaxCommands
    BY <1>1, <1>6 DEF StartCommand, CountersOK
  <2> QED BY <1>1, <1>6, <2>1, SameLine DEF StartCommand, CountersOK
<1>7. CASE ConnectOffers \/ ConnectAgrees \/ AppCommands
  BY <1>6, <1>7 DEF ConnectOffers, ConnectAgrees, AppCommands
<1>8. CASE (LineOK' \/ UNCHANGED ncpVars) /\ UNCHANGED <<issued, events, version>>
           /\ faults' \in {faults, faults + 1}
  BY <1>1, <1>8, SameLine DEF CountersOK
<1>9. CASE Write
  BY <1>1, <1>8, <1>9, TakesLine DEF Write
<1>10. CASE PumpReadFails
  BY <1>8, <1>10 DEF PumpReadFails, PumpEnds
<1>11. CASE Reply
  BY <1>1, <1>8, <1>11, TakesLine DEF Reply, PumpEnds
<1>12. CASE AppDrops
  BY <1>1, <1>8, <1>12, TakesLine DEF AppDrops
<1>13. CASE PumpRead
  <2>1. PICK n \in 1 .. MaxChunk : n <= Len(line) /\ line' = SubSeq(line, n + 1, Len(line))
    BY <1>13 DEF PumpRead
  <2>2. line' \in Seq(LineFrames)
    BY <1>1, <2>1 DEF LineOK
  <2> QED BY <1>1, <1>13, <2>2 DEF PumpRead, LineOK, CountersOK, boundVars
<1>14. CASE NcpAnswers
  <2>1. Head(owed) \in EzspFrames /\ Tail(owed) \in Seq(EzspFrames)
    BY <1>1, <1>14 DEF NcpAnswers, LineOK
  <2> QED BY <1>1, <1>14, <2>1, SendsLine DEF NcpAnswers, CountersOK, boundVars, taskVars
<1>15. CASE NcpCallsBack
  <2>1. events \in 0 .. MaxCallbacks /\ events' \in 0 .. MaxCallbacks
    BY <1>1, <1>15 DEF NcpCallsBack, CountersOK
  <2>2. Ezsp("Callback", "Extended", events, "event", events', "none") \in EzspFrames
    <3>1. /\ "Callback" \in Kinds /\ "Extended" \in Formats /\ "event" \in FrameIds
          /\ "none" \in Versions
      BY DEF Kinds, Formats, Versions
    <3>2. PICK token \in 0 .. MaxCallbacks : token = events'
      BY <2>1
    <3>3. Ezsp("Callback", "Extended", events, "event", token, "none") \in EzspFrames
      BY <2>1, <3>1, EzspType
    <3> QED BY <3>2, <3>3
  <2>3. LineOK'
    BY <1>1, <1>15, <2>2, SendsLine DEF NcpCallsBack, LineOK
  <2> QED BY <1>1, <1>15, <2>1, <2>3 DEF NcpCallsBack, CountersOK, taskVars
<1>16. CASE NcpSurprises
  <2>1. CASE NcpFails
    <3>1. line' \in Seq(LineFrames)
      BY <1>1, <2>1, AppendType DEF NcpFails, LineOK, LineFrames
    <3> QED BY <1>1, <1>8, <1>16, <2>1, <3>1 DEF NcpFails, LineOK, NcpSurprises, taskVars
  <2>2. CASE Noise
    <3>1. line' \in Seq(LineFrames)
      BY <1>1, <2>2, AppendType DEF Noise, LineOK, LineFrames
    <3> QED BY <1>1, <1>8, <1>16, <2>2, <3>1 DEF Noise, LineOK, NcpSurprises, taskVars
  <2>3. CASE NcpTakesRst
    BY <1>1, <1>8, <1>16, <2>3, RstLine DEF NcpSurprises, taskVars
  <2> QED BY <1>16, <2>1, <2>2, <2>3 DEF NcpSurprises
<1> QED
  BY <1>3, <1>4, <1>5, <1>7, <1>9, <1>10, <1>11, <1>12, <1>13, <1>14, <1>15, <1>16
  DEF NcpNext, TaskStep

-----------------------------------------------------------------------------
(* The task *)

TaskInv == TaskOK /\ CommandAwaits /\ LostLinkIsNotATimeout

FormatOK == pending_format \in {<<>>} \cup {<<f>> : f \in Formats}

\* A step that touches nothing the task looks at.
LEMMA SameTask ==
    ASSUME TaskInv, UNCHANGED <<pc, op, chunk, tries, result, pending, response, pending_format, phase>>
    PROVE  TaskInv'
BY DEF TaskInv, TaskOK, CommandAwaits, LostLinkIsNotATimeout, is_connected

\* A method returns: the only thing that can be wrong is a timeout reported on a lost link.
LEMMA ReturnTask ==
    ASSUME NEW res, Return(res), res.kind = "Timeout" => phase' = "Connected",
           FormatOK', Len(response') <= 1
    PROVE  TaskInv'
<1>1. TaskOK'
  BY ResetAttemptsAssumption DEF Return, TaskOK, FormatOK
<1> QED BY <1>1 DEF Return, TaskInv, CommandAwaits, LostLinkIsNotATimeout, is_connected

\* command returns without an answer.  The link being down, pending is what tells a reset from a
\* timeout, so a command still awaited must be in it.
LEMMA NoAnswerTask ==
    ASSUME TaskInv, op = "command", NEW outcome \in {"Ok", "Transport", "TooLong"},
           outcome = "Ok" => response = <<>>,
           NoAnswer(outcome), UNCHANGED <<phase, response, pending_format>>
    PROVE  TaskInv'
<1>1. FormatOK' /\ Len(response') <= 1
  BY DEF TaskInv, TaskOK, FormatOK
<1>2. PICK kind : /\ Return(Returned(kind))
                  /\ kind = "Timeout" => is_connected \/ (outcome = "Ok" /\ pending = <<>>)
  <2>1. CASE ~is_connected
    BY <2>1 DEF NoAnswer
  <2>2. CASE is_connected
    BY <2>2 DEF NoAnswer
  <2> QED BY <2>1, <2>2
<1>3. Returned(kind).kind = "Timeout" => phase' = "Connected"
  BY <1>2 DEF Returned, TaskInv, CommandAwaits, is_connected
<1> QED BY <1>1, <1>2, <1>3, ReturnTask

\* pump_until ends without done.
LEMMA PumpEndsTask ==
    ASSUME TaskInv, pc \notin {"idle", "retry"}, NEW outcome \in {"Ok", "Transport", "TooLong"},
           op = "command" /\ outcome = "Ok" => response = <<>>,
           PumpEnds(outcome)
    PROVE  TaskInv'
<1>1. FormatOK' /\ Len(response') <= 1
  BY DEF TaskInv, TaskOK, FormatOK, PumpEnds, hostVars
<1>2. CASE op = "reset"
  <2>1. tries' \in 0 .. MAX_RESET_ATTEMPTS /\ pc' = "retry" /\ op' = "reset" /\ chunk' = <<>>
    BY <1>2, ResetAttemptsAssumption DEF PumpEnds, TaskInv, TaskOK
  <2>2. chunk' \in Seq(LineFrames)
    BY <2>1
  <2> QED BY <1>1, <2>1, <2>2
       DEF TaskInv, TaskOK, FormatOK, CommandAwaits, LostLinkIsNotATimeout
<1>3. CASE op = "command"
  BY <1>3, NoAnswerTask DEF PumpEnds, hostVars, connVars
<1>4. CASE op = "poll"
  <2>1. Return(Returned(outcome)) /\ Returned(outcome).kind # "Timeout"
    BY <1>4 DEF PumpEnds, Returned
  <2> QED BY <1>1, <2>1, ReturnTask
<1> QED BY <1>2, <1>3, <1>4 DEF PumpEnds

\* command starts: it returns at once, or waits with its sequence number pending.
LEMMA StartCommandTask ==
    ASSUME TaskInv, NEW frame_id, NEW desired, StartCommand(frame_id, desired)
    PROVE  TaskInv'
<1>1. FormatOK' /\ Len(response') <= 1
  BY DEF StartCommand, RememberFormat, HeaderFormat, Formats, TaskInv, TaskOK, FormatOK
<1>2. ASSUME NEW kind, Return(Returned(kind)), kind # "Timeout" PROVE TaskInv'
  BY <1>1, <1>2, ReturnTask DEF Returned
<1>3. CASE Return(Returned("UnsupportedCommand")) \/ Return(Returned("SequenceMismatch"))
           \/ Return(Returned("FrameTooLong"))
  BY <1>2, <1>3
<1>4. ASSUME NEW p, begin(frame_id), send_data(p), outbound'.kind # "Data",
             Return(Returned(outbound'.kind))
      PROVE  TaskInv'
  <2>1. outbound' \in {NotConnected, WindowFull}
    BY <1>4 DEF send_data, SendDataRefused, SendDataAccepted, Data
  <2>2. outbound'.kind # "Timeout"
    BY <2>1 DEF NotConnected, WindowFull
  <2>3. Returned(outbound'.kind).kind # "Timeout"
    BY <2>2 DEF Returned
  <2> QED BY <1>1, <1>4, <2>3, ReturnTask
<1>5. CASE begin(frame_id) /\ pc' = "write" /\ op' = "command" /\ UNCHANGED <<chunk, tries>>
  BY <1>1, <1>5
  DEF begin, TaskInv, TaskOK, FormatOK, CommandAwaits, LostLinkIsNotATimeout
<1> QED BY <1>3, <1>4, <1>5 DEF StartCommand

\* pump_until is done.
LEMMA PumpReturnsTask ==
    ASSUME TaskInv, PumpReturns PROVE TaskInv'
<1>1. FormatOK /\ Len(response) <= 1 /\ UNCHANGED phase
  BY DEF TaskInv, TaskOK, FormatOK, PumpReturns, connVars
<1>2. CASE ResetDone \/ PollDone
  <2>1. FormatOK' /\ Len(response') <= 1 /\ Return(Returned("Ok"))
    BY <1>1, <1>2 DEF ResetDone, PollDone, FormatOK
  <2> QED BY <2>1, ReturnTask DEF Returned
<1>3. CASE Answered
  <2>1. FormatOK' /\ Len(response') <= 1
    BY <1>1, <1>3 DEF Answered, FormatOK
  <2>2. PICK res : Return(res) /\ res.kind # "Timeout"
    BY <1>3 DEF Answered, Returned
  <2> QED BY <2>1, <2>2, ReturnTask
<1>4. CASE Disconnected
  BY <1>1, <1>4, NoAnswerTask DEF Disconnected, hostVars
<1> QED BY <1>2, <1>3, <1>4 DEF PumpReturns

\* Filing a frame: the answer leaves pending only to be put in response.
LEMMA FileTask ==
    ASSUME TaskInv, NEW frame, File(frame)
    PROVE  /\ FormatOK' /\ Len(response') <= 1
           /\ pending # <<>> \/ response # <<>> => pending' # <<>> \/ response' # <<>>
<1>1. FormatOK /\ Len(response) <= 1
  BY DEF TaskInv, TaskOK, FormatOK
<1>2. CASE Classified(frame) = "Response"
  <2>1. response' = <<frame>> /\ pending_format' = <<>>
    BY <1>2 DEF File
  <2> QED BY <2>1 DEF FormatOK
<1>3. CASE Classified(frame) # "Response"
  BY <1>1, <1>3 DEF File, classify, FormatOK
<1> QED BY <1>2, <1>3

\* The task moves on inside a method, with or without what the reply brought.
LEMMA GoesOnTask ==
    ASSUME TaskInv, pc \notin {"idle", "retry"}, pc' \in {"pump", "consume", "reply"},
           chunk' \in Seq(LineFrames), pc' = "consume" => chunk' # <<>>,
           UNCHANGED <<op, tries>>, FormatOK', Len(response') <= 1,
           pending # <<>> \/ response # <<>> => pending' # <<>> \/ response' # <<>>
    PROVE  TaskInv'
BY DEF TaskInv, TaskOK, FormatOK, CommandAwaits, LostLinkIsNotATimeout

\* The task under every step.
LEMMA NcpNextTask ==
    ASSUME NcpInv, NcpNext PROVE TaskInv'
<1>1. TaskInv
  BY DEF NcpInv, TaskInv
<1>2. FormatOK /\ Len(response) <= 1 /\ chunk \in Seq(LineFrames)
  BY DEF NcpInv, TaskOK, FormatOK
<1>3. ASSUME NEW kind, Return(Returned(kind)), kind # "Timeout",
             UNCHANGED <<pending_format, response>>
      PROVE  TaskInv'
  BY <1>2, <1>3, ReturnTask DEF FormatOK, Returned
<1>4. CASE ResetAttempt
  <2>1. CASE Return(Returned("ResetFailed"))
    BY <1>3, <1>4, <2>1 DEF ResetAttempt, hostVars
  <2>2. CASE pc' = "write" /\ tries < MAX_RESET_ATTEMPTS /\ UNCHANGED <<op, chunk, tries, result>>
    BY <1>1, <1>4, <2>2
    DEF ResetAttempt, hostVars, corrVars, TaskInv, TaskOK, CommandAwaits, LostLinkIsNotATimeout
  <2> QED BY <1>4, <2>1, <2>2 DEF ResetAttempt
<1>5. CASE Write
  <2>1. CASE Return(Returned("TooLong")) \/ Return(Returned("Transport"))
    BY <1>3, <1>5, <2>1 DEF Write, hostVars
  <2>2. CASE pc' = "pump" /\ UNCHANGED <<op, chunk, tries, result>>
    BY <1>1, <1>2, <1>5, <2>2, GoesOnTask DEF Write, hostVars, corrVars, FormatOK
  <2> QED BY <1>5, <2>1, <2>2 DEF Write
<1>6. CASE PumpReturns
  BY <1>1, <1>6, PumpReturnsTask
<1>7. CASE PumpRead
  <2>1. PICK n \in 1 .. MaxChunk : n <= Len(line) /\ chunk' = SubSeq(line, 1, n)
    BY <1>7 DEF PumpRead
  <2>2. chunk' \in Seq(LineFrames) /\ Len(chunk') = n
    BY <2>1, NcpAssumption DEF NcpInv, LineOK
  <2>3. chunk' # <<>>
    BY <2>1, <2>2
  <2> QED BY <1>1, <1>2, <1>7, <2>2, <2>3, GoesOnTask DEF PumpRead, hostVars, corrVars, FormatOK
<1>8. CASE PumpTimeout \/ PumpReadFails
  <2>1. op = "command" => response = <<>>
    BY <1>8 DEF PumpTimeout, PumpReadFails, PumpDone
  <2> QED BY <1>1, <1>8, <2>1, PumpEndsTask DEF PumpTimeout, PumpReadFails
<1>9. CASE Consume
  <2>1. Tail(chunk) \in Seq(LineFrames)
    BY <1>2, <1>9, HeadTailProperties DEF Consume, NcpInv, TaskOK
  <2>2. /\ pc' \in {"pump", "consume", "reply"} /\ chunk' = Tail(chunk)
        /\ pc' = "consume" => chunk' # <<>>
    BY <1>9 DEF Consume, AfterFrame
  <2> QED BY <1>1, <1>2, <1>9, <2>1, <2>2, GoesOnTask DEF Consume, hostVars, corrVars, FormatOK
<1>10. CASE Reply
  <2>1. CASE PumpEnds("TooLong") \/ PumpEnds("Transport")
    BY <1>1, <1>10, <2>1, PumpEndsTask DEF Reply
  <2>2. CASE /\ pc' = AfterFrame(chunk) /\ UNCHANGED <<op, chunk, tries>>
             /\ \/ UNCHANGED <<corrVars, hostVars>>
                \/ dispatch(received[1])
    <3>1. /\ FormatOK' /\ Len(response') <= 1
          /\ pending # <<>> \/ response # <<>> => pending' # <<>> \/ response' # <<>>
      BY <1>1, <1>2, <2>2, FileTask DEF dispatch, corrVars, hostVars, FormatOK
    <3>2. pc' \in {"pump", "consume"} /\ (pc' = "consume" => chunk' # <<>>)
      BY <2>2 DEF AfterFrame
    <3> QED BY <1>1, <1>2, <1>10, <2>2, <3>1, <3>2, GoesOnTask DEF Reply
  <2> QED BY <1>10, <2>1, <2>2 DEF Reply
<1>11. CASE ConnectOffers \/ ConnectAgrees \/ AppCommands
  BY <1>1, <1>11, StartCommandTask DEF ConnectOffers, ConnectAgrees, AppCommands
<1>12. CASE ConnectStarts \/ AppResets
  <2>1. /\ pc' = "retry" /\ op' = "reset" /\ tries' = 0 /\ chunk' = chunk
        /\ pending_format' = pending_format /\ response' = response
    BY <1>12 DEF ConnectStarts, AppResets, StartReset, hostVars
  <2> QED BY <1>1, <2>1, ResetAttemptsAssumption
       DEF TaskInv, TaskOK, CommandAwaits, LostLinkIsNotATimeout
<1>13. CASE AppPolls
  BY <1>1, <1>13 DEF AppPolls, hostVars, TaskInv, TaskOK, CommandAwaits, LostLinkIsNotATimeout
<1>14. CASE AppDrops
  BY <1>3, <1>14 DEF AppDrops, hostVars
<1>15. CASE ConnectReturns \/ AppTakesCallbacks
  BY <1>1, <1>15, SameTask
  DEF ConnectReturns, AppTakesCallbacks, connVars, corrVars, hostVars, taskVars
<1>16. CASE NcpAnswers \/ NcpCallsBack \/ NcpSurprises
  BY <1>1, <1>16, SameTask
  DEF NcpAnswers, NcpCallsBack, NcpSurprises, connVars, corrVars, hostVars, taskVars
<1> QED
  BY <1>4, <1>5, <1>6, <1>7, <1>8, <1>9, <1>10, <1>11, <1>12, <1>13, <1>14, <1>15, <1>16
  DEF NcpNext, TaskStep

-----------------------------------------------------------------------------
(* Callbacks *)

\* Equal tokens, place by place.
LEMMA TokensEqual ==
    ASSUME NEW s \in Seq(EzspFrames), NEW t \in Seq(EzspFrames)
    PROVE  Tokens(s) = Tokens(t)
             <=> Len(s) = Len(t) /\ \A i \in 1 .. Len(s) : s[i].token = t[i].token
<1>1. Len(s) \in Nat /\ Len(t) \in Nat
  OBVIOUS
<1>2. /\ Tokens(s) = [i \in 1 .. Len(s) |-> s[i].token]
      /\ Tokens(t) = [i \in 1 .. Len(t) |-> t[i].token]
  BY DEF Tokens
<1>3. ASSUME Tokens(s) = Tokens(t)
      PROVE  Len(s) = Len(t) /\ \A i \in 1 .. Len(s) : s[i].token = t[i].token
  <2>1. DOMAIN Tokens(s) = 1 .. Len(s) /\ DOMAIN Tokens(t) = 1 .. Len(t)
    BY <1>2, Zenon
  <2>2. 1 .. Len(s) = 1 .. Len(t)
    BY <1>3, <2>1, Zenon
  <2>3. Len(s) = Len(t)
    BY <1>1, <2>2
  <2>4. \A i \in 1 .. Len(s) : Tokens(s)[i] = s[i].token /\ Tokens(t)[i] = t[i].token
    BY <1>2, <2>3
  <2> QED BY <1>3, <2>3, <2>4
<1>4. ASSUME Len(s) = Len(t), \A i \in 1 .. Len(s) : s[i].token = t[i].token
      PROVE  Tokens(s) = Tokens(t)
  BY <1>2, <1>4
<1> QED BY <1>3, <1>4

\* One more frame at the end of two lists with the same tokens, the same token on both.
LEMMA TokensAppend ==
    ASSUME NEW s \in Seq(EzspFrames), NEW t \in Seq(EzspFrames),
           NEW e \in EzspFrames, NEW f \in EzspFrames, e.token = f.token,
           Tokens(s) = Tokens(t)
    PROVE  Tokens(s \o <<e>>) = Tokens(t \o <<f>>)
<1>1. /\ s \o <<e>> \in Seq(EzspFrames) /\ t \o <<f>> \in Seq(EzspFrames)
      /\ Len(s) \in Nat /\ Len(t) \in Nat
      /\ Len(s \o <<e>>) = Len(s) + 1 /\ Len(t \o <<f>>) = Len(t) + 1
      /\ \A i \in 1 .. Len(s) : (s \o <<e>>)[i] = s[i]
      /\ \A i \in 1 .. Len(t) : (t \o <<f>>)[i] = t[i]
      /\ (s \o <<e>>)[Len(s) + 1] = e /\ (t \o <<f>>)[Len(t) + 1] = f
  OBVIOUS
<1>2. Len(s) = Len(t) /\ \A i \in 1 .. Len(s) : s[i].token = t[i].token
  BY TokensEqual
<1>3. Len(s \o <<e>>) = Len(t \o <<f>>)
      /\ \A i \in 1 .. Len(s \o <<e>>) : (s \o <<e>>)[i].token = (t \o <<f>>)[i].token
  BY <1>1, <1>2
<1> QED BY <1>1, <1>3, TokensEqual

\* A frame keeps its kind and its token, however its header is read.
LEMMA ParseKeepsToken ==
    ASSUME NEW f \in EzspFrames, NEW format
    PROVE  /\ parse(f, format) \in EzspFrames
           /\ parse(f, format).kind = f.kind
           /\ parse(f, format).token = f.token
BY NcpAssumption DEF parse, EzspFrames

\* A step that moves callbacks from the queue to the caller, or none at all.
LEMMA CallbacksMove ==
    ASSUME QueuesOK, NoCallbackLost, Undispatched = <<>>, Undispatched' = <<>>,
           accepted' = accepted, faults' = 0 => faults = 0,
           \/ UNCHANGED <<taken, callbacks>>
           \/ taken' = taken \o callbacks /\ callbacks' = <<>>
    PROVE  QueuesOK' /\ NoCallbackLost'
<1>1. /\ taken \o callbacks \in Seq(EzspFrames)
      /\ (taken \o callbacks) \o <<>> = taken \o callbacks
  BY DEF QueuesOK
<1>2. QueuesOK' /\ taken' \o callbacks' = taken \o callbacks
  <2>1. CASE UNCHANGED <<taken, callbacks>>
    BY <2>1 DEF QueuesOK
  <2>2. CASE taken' = taken \o callbacks /\ callbacks' = <<>>
    <3>1. callbacks' \in Seq(EzspFrames)
      BY <2>2
    <3>2. taken' \in Seq(EzspFrames) /\ taken' \o callbacks' = taken \o callbacks
      BY <1>1, <2>2
    <3> QED BY <3>1, <3>2 DEF QueuesOK
  <2> QED BY <2>1, <2>2
<1>3. (taken' \o callbacks') \o Undispatched' = (taken \o callbacks) \o Undispatched
  BY <1>2
<1> QED BY <1>2, <1>3 DEF NoCallbackLost

\* A step that is none of the callbacks' business.
LEMMA CallbacksStay ==
    ASSUME QueuesOK, NoCallbackLost,
           UNCHANGED <<pc, received, accepted, taken, callbacks, faults>>
    PROVE  QueuesOK' /\ NoCallbackLost'
BY DEF QueuesOK, NoCallbackLost, Undispatched

\* A callback the connection delivers is acknowledged, so the task comes by the reply.
LEMMA ConsumeCallbacks ==
    ASSUME NcpInv, PayloadsOK', ConnInv', Consume PROVE QueuesOK' /\ NoCallbackLost'
<1>1. QueuesOK /\ NoCallbackLost /\ Undispatched = <<>>
  BY DEF NcpInv, Consume, Undispatched
<1>2. UNCHANGED <<taken, callbacks, faults>>
  BY DEF Consume, hostVars, boundVars
<1>3. CASE received' # <<>> /\ received'[1].kind = "Callback"
  <2>1. PICK p : received' = <<p>> /\ p \in EzspFrames /\ p.kind = "Callback"
    BY <1>3 DEF PayloadsOK, ConnInv, TypeOK
  <2>2. pc' = "reply"
    BY <1>3 DEF Consume, PayloadsOK
  <2>3. Undispatched' = <<p>> /\ accepted' = accepted \o <<p>>
    BY <1>3, <2>1, <2>2 DEF Undispatched, Consume
  <2>4. accepted' \in Seq(EzspFrames)
    BY <1>1, <2>1, <2>3 DEF QueuesOK
  <2>5. QueuesOK'
    BY <1>1, <1>2, <2>4 DEF QueuesOK
  <2>6. ASSUME faults' = 0
        PROVE  Tokens((taken' \o callbacks') \o Undispatched') = Tokens(accepted')
    <3>1. taken \o callbacks \in Seq(EzspFrames) /\ (taken \o callbacks) \o <<>> = taken \o callbacks
      BY <1>1 DEF QueuesOK
    <3>2. Tokens(taken \o callbacks) = Tokens(accepted)
      BY <1>1, <1>2, <2>6, <3>1 DEF NoCallbackLost
    <3>3. Tokens((taken \o callbacks) \o <<p>>) = Tokens(accepted \o <<p>>)
      BY <1>1, <2>1, <3>1, <3>2, TokensAppend DEF QueuesOK
    <3> QED BY <1>2, <2>3, <3>3
  <2> QED BY <2>5, <2>6 DEF NoCallbackLost
<1>4. CASE ~(received' # <<>> /\ received'[1].kind = "Callback")
  <2>1. accepted' = accepted /\ Undispatched' = <<>>
    BY <1>4 DEF Consume, Undispatched
  <2> QED BY <1>1, <1>2, <2>1, CallbacksMove
<1> QED BY <1>3, <1>4

\* The reply is out: what it acknowledged is filed, a callback at the end of the queue.
LEMMA ReplyCallbacks ==
    ASSUME NcpInv, Reply PROVE QueuesOK' /\ NoCallbackLost'
<1>1. QueuesOK /\ NoCallbackLost /\ CountersOK /\ pc = "reply"
  BY DEF NcpInv, Reply
<1>2. CASE faults' = faults + 1 /\ UNCHANGED <<accepted, taken, callbacks>>
  <2>1. faults' # 0
    BY <1>1, <1>2 DEF CountersOK
  <2> QED BY <1>1, <1>2, <2>1 DEF QueuesOK, NoCallbackLost
<1>3. CASE Unencodable(outbound) /\ PumpEnds("TooLong") /\ UNCHANGED <<accepted, taken, faults>>
  <2>1. received = <<>>
    BY <1>3 DEF Unencodable, NcpInv, PayloadsOK
  <2>2. Undispatched = <<>>
    BY <2>1 DEF Undispatched
  <2>3. pc' # "reply" /\ UNCHANGED callbacks
    BY <1>3 DEF PumpEnds, NoAnswer, Return, hostVars
  <2>4. Undispatched' = <<>>
    BY <2>3 DEF Undispatched
  <2> QED BY <1>1, <1>3, <2>2, <2>3, <2>4, CallbacksMove
<1>4. CASE /\ pc' = AfterFrame(chunk) /\ UNCHANGED <<accepted, taken, faults>>
           /\ \/ received = <<>> /\ UNCHANGED <<corrVars, hostVars>>
              \/ received # <<>> /\ dispatch(received[1])
  <2>1. Undispatched' = <<>>
    BY <1>4 DEF AfterFrame, Undispatched
  <2>2. CASE Undispatched = <<>> /\ UNCHANGED callbacks
    BY <1>1, <1>4, <2>1, <2>2, CallbacksMove
  <2>3. CASE received = <<>>
    BY <1>4, <2>2, <2>3 DEF Undispatched, dispatch, hostVars
  <2>4. CASE received # <<>>
    <3> DEFINE format == IF pending_format = <<>> THEN "Extended" ELSE pending_format[1]
               read == parse(received[1], format)
    <3>1. PICK p : received = <<p>> /\ p \in EzspFrames
      BY <2>4 DEF NcpInv, PayloadsOK, ConnInv, TypeOK
    <3>2. File(read)
      BY <1>4, <2>4 DEF dispatch
    <3>3. read \in EzspFrames /\ read.kind = p.kind /\ read.token = p.token
      BY <3>1, ParseKeepsToken
    <3> HIDE DEF read
    <3>4. CASE p.kind # "Callback"
      <4>1. Undispatched = <<>> /\ UNCHANGED callbacks
        BY <3>1, <3>2, <3>3, <3>4 DEF Undispatched, File, Classified
      <4> QED BY <2>2, <4>1
    <3>5. CASE p.kind = "Callback"
      <4>1. Undispatched = <<p>> /\ callbacks' = Append(callbacks, read)
        BY <1>1, <3>1, <3>2, <3>3, <3>5 DEF Undispatched, File, Classified
      <4>2. /\ taken \in Seq(EzspFrames) /\ callbacks \in Seq(EzspFrames)
            /\ taken' = taken /\ accepted' = accepted /\ accepted \in Seq(EzspFrames)
        BY <1>1, <1>4 DEF QueuesOK
      <4>3. callbacks' \in Seq(EzspFrames) /\ callbacks' = callbacks \o <<read>>
        BY <3>3, <4>1, <4>2, AppendIsConcat, AppendType
      <4>4. QueuesOK'
        BY <4>2, <4>3 DEF QueuesOK
      <4>5. ASSUME faults' = 0
            PROVE  Tokens((taken' \o callbacks') \o Undispatched') = Tokens(accepted')
        <5>1. taken \o callbacks \in Seq(EzspFrames) /\ <<read>> \in Seq(EzspFrames)
          BY <3>3, <4>2
        <5>2. (taken' \o callbacks') \o Undispatched' = (taken \o callbacks) \o <<read>>
          <6>1. taken \o (callbacks \o <<read>>) = (taken \o callbacks) \o <<read>>
            BY <4>2, <5>1, ConcatAssociative
          <6>2. ((taken \o callbacks) \o <<read>>) \o <<>> = (taken \o callbacks) \o <<read>>
            BY <5>1
          <6> QED BY <2>1, <4>2, <4>3, <6>1, <6>2
        <5>3. Tokens((taken \o callbacks) \o <<read>>) = Tokens((taken \o callbacks) \o <<p>>)
          BY <3>1, <3>3, <5>1, TokensAppend
        <5>4. Tokens((taken \o callbacks) \o <<p>>) = Tokens(accepted)
          BY <1>1, <1>4, <4>1, <4>5 DEF NoCallbackLost
        <5> QED BY <4>2, <5>2, <5>3, <5>4
      <4> QED BY <4>4, <4>5 DEF NoCallbackLost
    <3> QED BY <3>4, <3>5
  <2> QED BY <2>3, <2>4
<1> QED BY <1>2, <1>3, <1>4 DEF Reply, PumpEnds, hostVars, historyVars

\* The callbacks under every step.
LEMMA NcpNextCallbacks ==
    ASSUME NcpInv, PayloadsOK', ConnInv', NcpNext PROVE QueuesOK' /\ NoCallbackLost'
<1>1. QueuesOK /\ NoCallbackLost /\ CountersOK
  BY DEF NcpInv
<1>2. CASE faults' = faults + 1 /\ UNCHANGED <<accepted, taken, callbacks>>
  <2>1. faults' # 0
    BY <1>1, <1>2 DEF CountersOK
  <2> QED BY <1>1, <1>2, <2>1 DEF QueuesOK, NoCallbackLost
<1>3. ASSUME pc # "reply", pc' # "reply", UNCHANGED <<accepted, faults>>,
             \/ UNCHANGED <<taken, callbacks>>
             \/ taken' = taken \o callbacks /\ callbacks' = <<>>
      PROVE  QueuesOK' /\ NoCallbackLost'
  <2>1. Undispatched = <<>> /\ Undispatched' = <<>>
    BY <1>3 DEF Undispatched
  <2> QED BY <1>1, <1>3, <2>1, CallbacksMove
<1>4. CASE Consume
  BY <1>4, ConsumeCallbacks
<1>5. CASE Reply
  BY <1>5, ReplyCallbacks
<1>6. CASE ResetAttempt
  BY <1>3, <1>6 DEF ResetAttempt, Return, hostVars, historyVars, boundVars
<1>7. CASE Write
  BY <1>2, <1>3, <1>7 DEF Write, Return, hostVars, historyVars
<1>8. CASE PumpReturns
  BY <1>3, <1>8
  DEF PumpReturns, ResetDone, Answered, Disconnected, PollDone, NoAnswer, Return, hostVars, boundVars
<1>9. CASE PumpRead
  BY <1>3, <1>9 DEF PumpRead, hostVars, historyVars, boundVars
<1>10. CASE PumpTimeout
  BY <1>3, <1>10 DEF PumpTimeout, PumpEnds, NoAnswer, Return, hostVars, historyVars, boundVars
<1>11. CASE PumpReadFails \/ AppDrops
  BY <1>2, <1>11 DEF PumpReadFails, PumpEnds, AppDrops, hostVars, historyVars
<1>12. ASSUME NEW frame_id, NEW desired, StartCommand(frame_id, desired)
       PROVE  QueuesOK' /\ NoCallbackLost'
  <2>1. pc = "idle" /\ pc' \in {"idle", "write"} /\ UNCHANGED <<accepted, faults, taken, callbacks>>
    BY <1>12 DEF StartCommand, Return
  <2> QED BY <1>3, <2>1
<1>13. CASE ConnectOffers \/ ConnectAgrees \/ AppCommands
  BY <1>12, <1>13 DEF ConnectOffers, ConnectAgrees, AppCommands
<1>14. CASE ConnectStarts \/ AppResets
  BY <1>3, <1>14 DEF ConnectStarts, AppResets, StartReset, hostVars, historyVars
<1>15. CASE AppPolls \/ AppTakesCallbacks
  BY <1>3, <1>15 DEF AppPolls, AppTakesCallbacks, taskVars, hostVars, historyVars, boundVars
<1>16. CASE ConnectReturns
  BY <1>1, <1>16, CallbacksStay DEF ConnectReturns, connVars, hostVars, historyVars, boundVars
<1>17. CASE NcpAnswers \/ NcpCallsBack \/ NcpSurprises
  BY <1>1, <1>17, CallbacksStay
  DEF NcpAnswers, NcpCallsBack, NcpSurprises, taskVars, connVars, hostVars, historyVars, boundVars
<1> QED
  BY <1>4, <1>5, <1>6, <1>7, <1>8, <1>9, <1>10, <1>11, <1>13, <1>14, <1>15, <1>16, <1>17
  DEF NcpNext, TaskStep

-----------------------------------------------------------------------------
(* Theorems *)

\* A new Ncp satisfies the invariant.
LEMMA InitNcpInv == NcpInit => NcpInv
<1> SUFFICES ASSUME NcpInit PROVE NcpInv
  OBVIOUS
<1>1. ConnInv /\ CorrInv
  BY InitConnInv, InitCorrInv DEF NcpInit
<1>2. PayloadsOK
  <2>1. in_flight = <<>> /\ Len(in_flight) = 0 /\ outbound.kind = "Nothing" /\ received = <<>>
    BY DEF NcpInit, Init, Nothing
  <2> QED BY <2>1 DEF PayloadsOK
<1>3. LineOK /\ CountersOK
  BY ModulusAssumption, NcpAssumption DEF NcpInit, LineOK, CountersOK, SeqNum, Versions
<1>4. TaskOK /\ CommandAwaits /\ LostLinkIsNotATimeout
  BY ResetAttemptsAssumption
  DEF NcpInit, TaskOK, CommandAwaits, LostLinkIsNotATimeout, Returned
<1>5. QueuesOK
  BY DEF NcpInit, QueuesOK
<1>6. NoCallbackLost
  <2>1. Undispatched = <<>> /\ (<<>> \o <<>>) \o <<>> = <<>>
    BY DEF NcpInit, Undispatched
  <2> QED BY <2>1 DEF NcpInit, NoCallbackLost
<1> QED BY <1>1, <1>2, <1>3, <1>4, <1>5, <1>6 DEF NcpInv

\* Every step preserves it.
LEMMA NextNcpInv == NcpInv /\ [NcpNext]_ncpAllVars => NcpInv'
<1> SUFFICES ASSUME NcpInv, [NcpNext]_ncpAllVars PROVE NcpInv'
  OBVIOUS
<1>1. CASE NcpNext
  <2>1. [Next]_connVars /\ PayloadsOK' /\ [CorrNext]_corrVars
    BY <1>1, NcpNextCalls DEF Calls
  <2>2. ConnInv' /\ CorrInv'
    BY <2>1, NextConnInv, NextCorrInv DEF NcpInv
  <2>3. LineOK' /\ CountersOK'
    BY <1>1, NcpNextLine
  <2>4. TaskInv'
    BY <1>1, NcpNextTask
  <2>5. QueuesOK' /\ NoCallbackLost'
    BY <1>1, <2>1, <2>2, NcpNextCallbacks
  <2> QED BY <2>1, <2>2, <2>3, <2>4, <2>5 DEF NcpInv, TaskInv
<1>2. CASE UNCHANGED ncpAllVars
  <2>1. /\ UNCHANGED connVars /\ UNCHANGED corrVars /\ UNCHANGED taskVars /\ UNCHANGED hostVars
        /\ UNCHANGED ncpVars /\ UNCHANGED historyVars /\ UNCHANGED boundVars
    BY <1>2 DEF ncpAllVars
  <2>2. ConnInv' /\ CorrInv' /\ PayloadsOK' /\ LineOK'
    BY <2>1, NextConnInv, NextCorrInv, SameConnection, SameLine DEF NcpInv
  <2>3. TaskInv'
    BY <2>1, SameTask DEF NcpInv, TaskInv, connVars, corrVars, taskVars, hostVars
  <2>4. QueuesOK' /\ NoCallbackLost'
    BY <2>1, CallbacksStay DEF NcpInv, connVars, taskVars, hostVars, historyVars, boundVars
  <2>5. CountersOK'
    BY <2>1 DEF NcpInv, CountersOK, taskVars, boundVars
  <2> QED BY <2>2, <2>3, <2>4, <2>5 DEF NcpInv, TaskInv
<1> QED BY <1>1, <1>2

\* The inductive invariant holds whatever the application, the NCP and the transport do.
THEOREM NcpInvHolds == NcpSpec => []NcpInv
BY InitNcpInv, NextNcpInv, PTL DEF NcpSpec

\* The task is always at a point of some method, and every attempt of reset is counted.
THEOREM NcpAlwaysTyped == NcpSpec => []NcpTypeOK
<1>1. NcpInv => NcpTypeOK
  <2> SUFFICES ASSUME NcpInv PROVE NcpTypeOK
    OBVIOUS
  <2>1. pending \in {<<>>} \cup {<<p>> : p \in Pending}
    BY DEF NcpInv, CorrInv, CorrTypeOK
  <2>2. \A i \in 1 .. Len(in_flight) : in_flight[i].payload.kind = "Command"
    BY DEF NcpInv, PayloadsOK, CommandFrames
  <2> QED BY <2>1, <2>2 DEF NcpInv, TaskOK, NcpTypeOK
<1> QED BY <1>1, NcpInvHolds, PTL

\* The runtime uses its Connection through the connection's methods alone, with frames those
\* methods expect: what AshConnectionProofs shows of every such use holds of this one.
THEOREM NcpDrivesConnection == NcpSpec => Spec
<1>1. NcpInit => Init
  BY DEF NcpInit
<1>2. NcpInv /\ [NcpNext]_ncpAllVars => [Next]_connVars
  BY NcpNextCalls DEF Calls, ncpAllVars
<1> QED BY <1>1, <1>2, NcpInvHolds, PTL DEF NcpSpec, Spec

\* Nor does it reach into its Correlator, which it replaces when a reset completes.
THEOREM NcpDrivesCorrelator == NcpSpec => CorrSpec
<1>1. NcpInit => CorrInit
  BY DEF NcpInit
<1>2. NcpInv /\ [NcpNext]_ncpAllVars => [CorrNext]_corrVars
  BY NcpNextCalls DEF Calls, ncpAllVars
<1> QED BY <1>1, <1>2, NcpInvHolds, PTL DEF NcpSpec, CorrSpec

\* Through timeouts, resets, late answers and dropped calls, the outstanding command is the last
\* one numbered.
THEOREM NcpPendingIsLatest == NcpSpec => []PendingIsLatest
BY NcpDrivesCorrelator, PendingAlwaysLatest, PTL

\* A command that fails because the link went down never returns Timeout: command asks the
\* connection before the correlator, and the correlator still holds the command when it does.
THEOREM LostLinkNeverATimeout == NcpSpec => []LostLinkIsNotATimeout
<1>1. NcpInv => LostLinkIsNotATimeout
  BY DEF NcpInv
<1> QED BY <1>1, NcpInvHolds, PTL

\* As long as no read and no write fails and no call is dropped, every callback ASH acknowledged
\* is handed over or queued, once and in order, however the reads cut the line.
THEOREM CallbacksAlwaysKept == NcpSpec => []CallbacksAreKeptUnlessFault
<1>1. NcpInv => CallbacksAreKeptUnlessFault
  <2> SUFFICES ASSUME NcpInv, faults = 0, pc # "reply"
               PROVE  Tokens(taken \o callbacks) = Tokens(accepted)
    BY DEF CallbacksAreKeptUnlessFault, CallbacksAreKept, Tokens
  <2>1. Undispatched = <<>>
    BY DEF Undispatched
  <2>2. (taken \o callbacks) \o <<>> = taken \o callbacks
    BY DEF NcpInv, QueuesOK
  <2> QED BY <2>1, <2>2 DEF NcpInv, NoCallbackLost
<1> QED BY <1>1, NcpInvHolds, PTL
=============================================================================
