------------------------ MODULE AshConnectionProofs ------------------------
(***************************************************************************)
(* Proofs about AshConnection, for every modulus, window below the         *)
(* modulus, retransmit limit, reset limit and set of payloads.             *)
(*                                                                         *)
(* The inductive invariant is ConnInv.  Its heart is WindowIsConsecutive:  *)
(* AcknowledgedPrefix is a CHOOSE, and it denotes the position the code    *)
(* finds only because no number occurs twice in the queue, which in turn   *)
(* follows from the numbers being consecutive and fewer than the modulus.  *)
(***************************************************************************)
EXTENDS AshConnection, SequenceTheorems, TLAPS

ConnInv ==
    /\ TypeOK
    /\ WindowIsConsecutive
    /\ OnlyOldestIsResent
    /\ NothingOutstandingBeforeConnect
    /\ AckNamesNextExpected

-----------------------------------------------------------------------------
(* The sequence circle *)

\* next_sequence stays on the circle: one more, or zero after the last number.
LEMMA NextSequence ==
    ASSUME NEW n \in SeqNum
    PROVE  /\ next_sequence(n) \in SeqNum
           /\ next_sequence(n) = IF n + 1 < SEQUENCE_MODULUS THEN n + 1 ELSE 0
BY ModulusAssumption DEF SeqNum, next_sequence

\* A queue numbered consecutively up to tx and shorter than the modulus holds no number twice,
\* and does not hold tx.
LEMMA ConsecutiveIsUnambiguous ==
    ASSUME NEW queue \in Seq(InFlight), NEW tx \in SeqNum,
           Len(queue) <= MAX_WINDOW, ConsecutiveUpTo(queue, tx)
    PROVE  /\ \A i, j \in 1 .. Len(queue) : queue[i].frame_num = queue[j].frame_num => i = j
           /\ \A i \in 1 .. Len(queue) : queue[i].frame_num # tx
BY ModulusAssumption, WindowAssumption, SMTT(30) DEF ConsecutiveUpTo, Before, SeqNum

-----------------------------------------------------------------------------
(* What retire_acknowledged leaves *)

\* AcknowledgedPrefix is the position the code finds, in any numbered queue.
LEMMA PrefixIsAPosition ==
    ASSUME TypeOK, WindowIsConsecutive, NEW ack_num \in SeqNum
    PROVE  /\ AcknowledgedPrefix(ack_num) \in 0 .. Len(in_flight)
           /\ \A j \in 1 .. AcknowledgedPrefix(ack_num) : in_flight[j].frame_num # ack_num
           /\ AcknowledgedPrefix(ack_num) < Len(in_flight)
                 => in_flight[AcknowledgedPrefix(ack_num) + 1].frame_num = ack_num
<1> DEFINE Position(n) == /\ \A j \in 1 .. n : in_flight[j].frame_num # ack_num
                          /\ n < Len(in_flight) => in_flight[n + 1].frame_num = ack_num
<1>1. Len(in_flight) \in Nat
  BY DEF TypeOK
<1>2. \E n \in 0 .. Len(in_flight) : Position(n)
  <2>1. CASE \E i \in 1 .. Len(in_flight) : in_flight[i].frame_num = ack_num
    <3>1. PICK i \in 1 .. Len(in_flight) : in_flight[i].frame_num = ack_num
      BY <2>1
    <3>2. \A j \in 1 .. Len(in_flight) : in_flight[j].frame_num = ack_num => j = i
      BY <3>1, ConsecutiveIsUnambiguous DEF TypeOK, WindowIsConsecutive
    <3>3. i - 1 \in 0 .. Len(in_flight) /\ Position(i - 1)
      BY <1>1, <3>1, <3>2
    <3> QED BY <3>3
  <2>2. CASE \A i \in 1 .. Len(in_flight) : in_flight[i].frame_num # ack_num
    <3>1. Position(Len(in_flight))
      BY <1>1, <2>2
    <3> QED BY <1>1, <3>1
  <2> QED BY <2>1, <2>2
<1>3. AcknowledgedPrefix(ack_num) = CHOOSE n \in 0 .. Len(in_flight) : Position(n)
  BY DEF AcknowledgedPrefix
<1> HIDE DEF Position
<1>4. AcknowledgedPrefix(ack_num) \in 0 .. Len(in_flight) /\ Position(AcknowledgedPrefix(ack_num))
  BY <1>2, <1>3
<1> QED BY <1>4 DEF Position

\* What is left is a suffix of the queue: still typed, consecutive and sent once behind its head.
LEMMA RetireKeepsQueue ==
    ASSUME TypeOK, WindowIsConsecutive, OnlyOldestIsResent, NEW ack_num \in SeqNum
    PROVE  /\ retire_acknowledged(ack_num) \in Seq(InFlight)
           /\ Len(retire_acknowledged(ack_num)) <= MAX_WINDOW
           /\ ConsecutiveUpTo(retire_acknowledged(ack_num), next_tx_frame)
           /\ SentOnceBehindOldest(retire_acknowledged(ack_num))
           /\ in_flight = <<>> => retire_acknowledged(ack_num) = <<>>
<1> DEFINE n == AcknowledgedPrefix(ack_num)
           left == retire_acknowledged(ack_num)
<1>1. n \in 0 .. Len(in_flight)
  BY PrefixIsAPosition
<1>2. in_flight \in Seq(InFlight) /\ Len(in_flight) \in Nat /\ MAX_WINDOW \in Nat
  BY WindowAssumption DEF TypeOK
<1>3. left = SubSeq(in_flight, n + 1, Len(in_flight))
  BY DEF retire_acknowledged
<1> HIDE DEF n, left
<1>4. /\ left \in Seq(InFlight)
      /\ Len(left) = Len(in_flight) - n
      /\ \A i \in 1 .. Len(left) : left[i] = in_flight[i + n]
  BY <1>1, <1>2, <1>3
<1>5. Len(left) <= MAX_WINDOW
  BY <1>1, <1>2, <1>4 DEF WindowIsConsecutive
<1>6. ConsecutiveUpTo(left, next_tx_frame)
  <2> SUFFICES ASSUME NEW i \in 1 .. Len(left)
               PROVE  left[i].frame_num = Before(next_tx_frame, Len(left) + 1 - i)
    BY DEF ConsecutiveUpTo
  <2>1. i + n \in 1 .. Len(in_flight) /\ left[i] = in_flight[i + n]
    BY <1>1, <1>2, <1>4
  <2>2. in_flight[i + n].frame_num = Before(next_tx_frame, Len(in_flight) + 1 - (i + n))
    BY <2>1 DEF WindowIsConsecutive, ConsecutiveUpTo
  <2>3. Len(in_flight) + 1 - (i + n) = Len(left) + 1 - i
    BY <1>1, <1>2, <1>4
  <2> QED BY <2>1, <2>2, <2>3
<1>7. SentOnceBehindOldest(left)
  BY <1>1, <1>2, <1>4 DEF OnlyOldestIsResent, SentOnceBehindOldest
<1>8. in_flight = <<>> => left = <<>>
  BY <1>1, <1>2, <1>4
<1> QED BY <1>4, <1>5, <1>6, <1>7, <1>8 DEF left

-----------------------------------------------------------------------------
(* The invariant *)

\* A new Connection satisfies the invariant.
LEMMA InitConnInv == Init => ConnInv
<1> SUFFICES ASSUME Init PROVE ConnInv
  OBVIOUS
<1> USE DEF Init
<1>1. TypeOK
  BY ModulusAssumption, ResetAttemptsAssumption
  DEF TypeOK, Phases, SeqNum, Outbound, Nothing
<1>2. WindowIsConsecutive /\ OnlyOldestIsResent
  BY WindowAssumption
  DEF WindowIsConsecutive, ConsecutiveUpTo, OnlyOldestIsResent, SentOnceBehindOldest
<1>3. NothingOutstandingBeforeConnect /\ AckNamesNextExpected
  BY DEF NothingOutstandingBeforeConnect, AckNamesNextExpected, Nothing
<1> QED BY <1>1, <1>2, <1>3 DEF ConnInv

\* A step that empties the queue and restarts the numbering, or leaves both alone.
LEMMA FreshQueue ==
    ASSUME in_flight' = <<>>
    PROVE  /\ in_flight' \in Seq(InFlight)
           /\ WindowIsConsecutive'
           /\ OnlyOldestIsResent'
BY WindowAssumption
DEF WindowIsConsecutive, ConsecutiveUpTo, OnlyOldestIsResent, SentOnceBehindOldest

\* begin_reset starts over, or gives up and leaves queue and numbers alone.
LEMMA BeginResetStep == ConnInv /\ begin_reset => ConnInv'
<1> SUFFICES ASSUME ConnInv, begin_reset PROVE ConnInv'
  OBVIOUS
<1> USE DEF ConnInv
<1>1. CASE in_flight' = <<>> /\ phase' = "Resetting"
  <2>1. /\ attempts' \in 0 .. MAX_RESET_ATTEMPTS /\ next_tx_frame' = 0 /\ next_rx_frame' = 0
        /\ outbound' = Rst /\ received' = <<>>
    BY <1>1, ResetAttemptsAssumption DEF begin_reset, TypeOK
  <2>2. TypeOK'
    BY <1>1, <2>1, FreshQueue, ModulusAssumption DEF TypeOK, Phases, SeqNum, Outbound
  <2>3. NothingOutstandingBeforeConnect' /\ AckNamesNextExpected'
    BY <1>1, <2>1 DEF NothingOutstandingBeforeConnect, AckNamesNextExpected, Rst
  <2> QED BY <1>1, <2>2, <2>3, FreshQueue
<1>2. CASE /\ phase' = "Failed" /\ attempts' = 0 /\ outbound' = Nothing
           /\ UNCHANGED <<next_tx_frame, next_rx_frame, in_flight>>
  <2>1. received' = <<>>
    BY DEF begin_reset
  <2>2. TypeOK'
    BY <1>2, <2>1, ResetAttemptsAssumption DEF TypeOK, Phases, Outbound
  <2>3. WindowIsConsecutive' /\ OnlyOldestIsResent'
    BY <1>2 DEF WindowIsConsecutive, OnlyOldestIsResent
  <2>4. NothingOutstandingBeforeConnect' /\ AckNamesNextExpected'
    BY <1>2 DEF NothingOutstandingBeforeConnect, AckNamesNextExpected, Nothing
  <2> QED BY <2>2, <2>3, <2>4
<1> QED BY <1>1, <1>2 DEF begin_reset

\* send_data appends the frame numbered next_tx_frame, or changes nothing.
LEMMA SendDataStep == ConnInv /\ (\E p \in Payload : send_data(p)) => ConnInv'
<1> SUFFICES ASSUME ConnInv, NEW p \in Payload, send_data(p) PROVE ConnInv'
  OBVIOUS
<1> USE DEF ConnInv
<1>1. ASSUME NEW error \in {NotConnected, WindowFull}, SendDataRefused(error) PROVE ConnInv'
  <2>1. TypeOK'
    BY <1>1 DEF SendDataRefused, TypeOK, Outbound
  <2>2. WindowIsConsecutive' /\ OnlyOldestIsResent' /\ NothingOutstandingBeforeConnect'
    BY <1>1
    DEF SendDataRefused, WindowIsConsecutive, OnlyOldestIsResent, NothingOutstandingBeforeConnect
  <2>3. AckNamesNextExpected'
    BY <1>1 DEF SendDataRefused, AckNamesNextExpected, NotConnected, WindowFull
  <2> QED BY <2>1, <2>2, <2>3
<1>2. CASE is_connected /\ Len(in_flight) < MAX_WINDOW /\ SendDataAccepted(p)
  <2> DEFINE new == [frame_num |-> next_tx_frame, payload |-> p, sends |-> 1]
  <2>1. in_flight' = Append(in_flight, new)
    BY <1>2 DEF SendDataAccepted
  <2>2. new \in InFlight
    BY RetransmitsAssumption DEF TypeOK, InFlight
  <2>3. /\ new.frame_num = next_tx_frame /\ new.sends = 1
    OBVIOUS
  <2> HIDE DEF new
  <2>4. /\ in_flight' \in Seq(InFlight)
        /\ Len(in_flight') = Len(in_flight) + 1
        /\ \A i \in 1 .. Len(in_flight) : in_flight'[i] = in_flight[i]
        /\ in_flight'[Len(in_flight) + 1] = new
    BY <2>1, <2>2 DEF TypeOK
  <2>5. /\ next_tx_frame \in SeqNum
        /\ next_tx_frame' \in SeqNum
        /\ next_tx_frame' = IF next_tx_frame + 1 < SEQUENCE_MODULUS THEN next_tx_frame + 1 ELSE 0
    BY <1>2, NextSequence DEF SendDataAccepted, TypeOK
  <2>6. TypeOK'
    BY <1>2, <2>4, <2>5 DEF SendDataAccepted, TypeOK, Outbound, Data, DataFrames
  <2>7. WindowIsConsecutive'
    <3>1. Len(in_flight)' <= MAX_WINDOW
      BY <1>2, <2>4, WindowAssumption DEF TypeOK
    <3>2. ASSUME NEW i \in 1 .. Len(in_flight)'
          PROVE  in_flight'[i].frame_num = Before(next_tx_frame', Len(in_flight)' + 1 - i)
      <4>1. CASE i = Len(in_flight) + 1
        <5>1. in_flight'[i].frame_num = next_tx_frame
          BY <2>3, <2>4, <4>1
        <5>2. Len(in_flight)' + 1 - i = 1
          BY <2>4, <4>1 DEF TypeOK
        <5>3. Before(next_tx_frame', 1) = next_tx_frame
          BY <2>5, ModulusAssumption DEF Before, SeqNum
        <5> QED BY <5>1, <5>2, <5>3
      <4>2. CASE i \in 1 .. Len(in_flight)
        <5>1. in_flight'[i].frame_num = Before(next_tx_frame, Len(in_flight) + 1 - i)
          BY <2>4, <4>2 DEF WindowIsConsecutive, ConsecutiveUpTo
        <5>2. Len(in_flight) \in Nat /\ Len(in_flight) + 1 - i < SEQUENCE_MODULUS
          BY <1>2, <4>2, WindowAssumption, ModulusAssumption DEF TypeOK
        <5> QED BY <2>4, <2>5, <4>2, <5>1, <5>2, ModulusAssumption DEF Before, SeqNum
      <4> QED BY <2>4, <3>2, <4>1, <4>2 DEF TypeOK
    <3> QED BY <3>1, <3>2 DEF WindowIsConsecutive, ConsecutiveUpTo
  <2>8. OnlyOldestIsResent'
    BY <2>3, <2>4 DEF OnlyOldestIsResent, SentOnceBehindOldest, TypeOK
  <2>9. NothingOutstandingBeforeConnect' /\ AckNamesNextExpected'
    BY <1>2
    DEF SendDataAccepted, is_connected, NothingOutstandingBeforeConnect, AckNamesNextExpected, Data
  <2> QED BY <2>6, <2>7, <2>8, <2>9
<1> QED BY <1>1, <1>2 DEF send_data

\* A step that only retires: on an ACK, and on the ack_num every DATA frame carries.
LEMMA RetireStep ==
    ASSUME ConnInv, NEW ack_num \in SeqNum,
           in_flight' = retire_acknowledged(ack_num), UNCHANGED <<phase, attempts, next_tx_frame>>
    PROVE  /\ in_flight' \in Seq(InFlight)
           /\ WindowIsConsecutive'
           /\ OnlyOldestIsResent'
           /\ NothingOutstandingBeforeConnect'
<1>1. /\ in_flight' \in Seq(InFlight)
      /\ Len(in_flight') <= MAX_WINDOW
      /\ ConsecutiveUpTo(in_flight', next_tx_frame)
      /\ SentOnceBehindOldest(in_flight')
      /\ in_flight = <<>> => in_flight' = <<>>
  BY RetireKeepsQueue DEF ConnInv
<1> QED BY <1>1
  DEF ConnInv, WindowIsConsecutive, ConsecutiveUpTo, OnlyOldestIsResent, SentOnceBehindOldest,
      NothingOutstandingBeforeConnect

\* retransmit_oldest on a queue that is already in order: what on_frame leaves after a NAK, or
\* the queue as it stands.
LEMMA RetransmitStep ==
    ASSUME ConnInv, NEW queue \in Seq(InFlight), RetransmitOldest(queue),
           Len(queue) <= MAX_WINDOW, ConsecutiveUpTo(queue, next_tx_frame),
           SentOnceBehindOldest(queue), in_flight = <<>> => queue = <<>>,
           received' = <<>>, UNCHANGED <<next_tx_frame, next_rx_frame>>
    PROVE  ConnInv'
<1>1. CASE in_flight' = queue /\ outbound' = Nothing /\ phase' \in {phase, "Failed"}
           /\ attempts' \in 0 .. MAX_RESET_ATTEMPTS /\ (phase' # "Resetting" => attempts' = 0)
  <2>1. TypeOK'
    BY <1>1 DEF ConnInv, TypeOK, Phases, Outbound
  <2>2. WindowIsConsecutive' /\ OnlyOldestIsResent'
    BY <1>1 DEF WindowIsConsecutive, ConsecutiveUpTo, OnlyOldestIsResent, SentOnceBehindOldest
  <2>3. NothingOutstandingBeforeConnect' /\ AckNamesNextExpected'
    BY <1>1 DEF ConnInv, NothingOutstandingBeforeConnect, AckNamesNextExpected, Nothing
  <2> QED BY <2>1, <2>2, <2>3 DEF ConnInv
<1>2. CASE /\ queue # <<>>
           /\ queue[1].sends < MAX_RETRANSMITS
           /\ in_flight' = [queue EXCEPT ![1].sends = @ + 1]
           /\ outbound' = Data(queue[1].frame_num, next_rx_frame, TRUE, queue[1].payload)
           /\ UNCHANGED <<phase, attempts>>
  <2>1. 1 \in 1 .. Len(queue) /\ queue[1] \in InFlight /\ Len(queue) \in Nat
    BY <1>2
  <2> DEFINE resent == [queue[1] EXCEPT !.sends = @ + 1]
  <2>2. /\ resent \in InFlight
        /\ resent.frame_num = queue[1].frame_num
    BY <1>2, <2>1, RetransmitsAssumption DEF InFlight
  <2>3. in_flight' = [queue EXCEPT ![1] = resent]
    BY <1>2
  <2> HIDE DEF resent
  <2>4. /\ in_flight' \in Seq(InFlight)
        /\ Len(in_flight') = Len(queue)
        /\ in_flight'[1] = resent
        /\ \A i \in 2 .. Len(queue) : in_flight'[i] = queue[i]
    BY <2>1, <2>2, <2>3
  <2>5. \A i \in 1 .. Len(queue) : in_flight'[i].frame_num = queue[i].frame_num
    BY <2>1, <2>2, <2>4
  <2>6. outbound' \in DataFrames
    BY <1>2, <2>1 DEF ConnInv, TypeOK, InFlight, Data, DataFrames
  <2>7. TypeOK'
    BY <1>2, <2>4, <2>6 DEF ConnInv, TypeOK, Outbound
  <2>8. WindowIsConsecutive'
    BY <2>4, <2>5 DEF WindowIsConsecutive, ConsecutiveUpTo
  <2>9. OnlyOldestIsResent'
    BY <2>4 DEF OnlyOldestIsResent, SentOnceBehindOldest
  <2>10. NothingOutstandingBeforeConnect' /\ AckNamesNextExpected'
    BY <1>2 DEF ConnInv, NothingOutstandingBeforeConnect, AckNamesNextExpected, Data
  <2> QED BY <2>7, <2>8, <2>9, <2>10 DEF ConnInv
<1>3. attempts \in 0 .. MAX_RESET_ATTEMPTS /\ (phase # "Resetting" => attempts = 0)
      /\ 0 \in 0 .. MAX_RESET_ATTEMPTS
  BY ResetAttemptsAssumption DEF ConnInv, TypeOK
<1> QED BY <1>1, <1>2, <1>3 DEF RetransmitOldest

\* on_frame, one step per kind of frame, in whatever state it arrives.
LEMMA OnFrameStep == ConnInv /\ (\E f \in AshFrame : on_frame(f)) => ConnInv'
<1> SUFFICES ASSUME ConnInv, NEW f \in AshFrame, on_frame(f) PROVE ConnInv'
  OBVIOUS
<1>1. CASE OnRstAck
  <2>1. TypeOK'
    BY <1>1, FreshQueue, ModulusAssumption, ResetAttemptsAssumption
    DEF OnRstAck, TypeOK, Phases, SeqNum, Outbound
  <2>2. NothingOutstandingBeforeConnect' /\ AckNamesNextExpected'
    BY <1>1 DEF OnRstAck, NothingOutstandingBeforeConnect, AckNamesNextExpected, Nothing
  <2> QED BY <1>1, <2>1, <2>2, FreshQueue DEF OnRstAck, ConnInv
<1>2. CASE OnError
  <2>1. TypeOK'
    BY <1>2, FreshQueue, ResetAttemptsAssumption DEF OnError, ConnInv, TypeOK, Phases, Outbound
  <2>2. NothingOutstandingBeforeConnect' /\ AckNamesNextExpected'
    BY <1>2 DEF OnError, NothingOutstandingBeforeConnect, AckNamesNextExpected, Nothing
  <2> QED BY <1>2, <2>1, <2>2, FreshQueue DEF OnError, ConnInv
<1>3. CASE f.kind = "Ack" /\ OnAck(f.ack_num)
  <2>1. f.ack_num \in SeqNum
    BY <1>3 DEF AshFrame, DataFrames, AckFrames, NakFrames, Rst, RstAck, ErrorFrame
  <2>2. /\ in_flight' \in Seq(InFlight)
        /\ WindowIsConsecutive' /\ OnlyOldestIsResent' /\ NothingOutstandingBeforeConnect'
    BY <1>3, <2>1, RetireStep DEF OnAck
  <2>3. TypeOK'
    BY <1>3, <2>2 DEF OnAck, ConnInv, TypeOK, Outbound
  <2>4. AckNamesNextExpected'
    BY <1>3 DEF OnAck, AckNamesNextExpected, Nothing
  <2> QED BY <2>2, <2>3, <2>4 DEF ConnInv
<1>4. CASE f.kind = "Nak" /\ OnNak(f.ack_num)
  <2>1. f.ack_num \in SeqNum
    BY <1>4 DEF AshFrame, DataFrames, AckFrames, NakFrames, Rst, RstAck, ErrorFrame
  <2> QED BY <1>4, <2>1, RetireKeepsQueue, RetransmitStep DEF OnNak, ConnInv
<1>5. CASE OnRst
  <2>1. TypeOK'
    BY <1>5 DEF OnRst, ConnInv, TypeOK, Outbound
  <2>2. WindowIsConsecutive' /\ OnlyOldestIsResent' /\ NothingOutstandingBeforeConnect'
    BY <1>5
    DEF OnRst, ConnInv, WindowIsConsecutive, OnlyOldestIsResent, NothingOutstandingBeforeConnect
  <2>3. AckNamesNextExpected'
    BY <1>5 DEF OnRst, AckNamesNextExpected, Nothing
  <2> QED BY <2>1, <2>2, <2>3 DEF ConnInv
<1>6. CASE f.kind = "Data" /\ OnData(f.frame_num, f.ack_num, f.payload)
  <2>1. f.frame_num \in SeqNum /\ f.ack_num \in SeqNum /\ f.payload \in Payload
    BY <1>6 DEF AshFrame, DataFrames, AckFrames, NakFrames, Rst, RstAck, ErrorFrame
  <2>2. /\ in_flight' \in Seq(InFlight)
        /\ WindowIsConsecutive' /\ OnlyOldestIsResent' /\ NothingOutstandingBeforeConnect'
    BY <1>6, <2>1, RetireStep DEF OnData
  <2>3. next_rx_frame' \in SeqNum
    BY <1>6, <2>1, NextSequence DEF OnData, ConnInv, TypeOK
  <2>4. received' \in {<<>>} \cup {<<p>> : p \in Payload}
    BY <1>6, <2>1 DEF OnData
  <2>5. outbound' \in Outbound /\ AckNamesNextExpected'
    BY <1>6, <2>3 DEF OnData, Outbound, AckFrames, Ack, AckNamesNextExpected
  <2>6. TypeOK'
    BY <1>6, <2>2, <2>3, <2>4, <2>5 DEF OnData, ConnInv, TypeOK
  <2> QED BY <2>2, <2>5, <2>6 DEF ConnInv
<1> QED BY <1>1, <1>2, <1>3, <1>4, <1>5, <1>6 DEF on_frame

\* on_decode_failure changes no field.
LEMMA DecodeFailureStep ==
    ConnInv /\ (\E recoverable \in BOOLEAN : on_decode_failure(recoverable)) => ConnInv'
<1> SUFFICES ASSUME ConnInv, NEW recoverable \in BOOLEAN, on_decode_failure(recoverable)
             PROVE  ConnInv'
  OBVIOUS
<1>1. TypeOK'
  BY DEF on_decode_failure, ConnInv, TypeOK, Outbound, Nak, NakFrames
<1>2. WindowIsConsecutive' /\ OnlyOldestIsResent' /\ NothingOutstandingBeforeConnect'
  BY DEF on_decode_failure, ConnInv, WindowIsConsecutive, OnlyOldestIsResent,
         NothingOutstandingBeforeConnect
<1>3. AckNamesNextExpected'
  BY DEF on_decode_failure, AckNamesNextExpected, Nak, Nothing
<1> QED BY <1>1, <1>2, <1>3 DEF ConnInv

\* Every call preserves the invariant.
LEMMA NextConnInv == ConnInv /\ [Next]_connVars => ConnInv'
<1> SUFFICES ASSUME ConnInv, [Next]_connVars PROVE ConnInv'
  OBVIOUS
<1>1. CASE retransmit_oldest
  BY <1>1, RetransmitStep
  DEF retransmit_oldest, ConnInv, TypeOK, WindowIsConsecutive, OnlyOldestIsResent
<1>2. CASE UNCHANGED connVars
  BY <1>2
  DEF connVars, ConnInv, TypeOK, WindowIsConsecutive, OnlyOldestIsResent,
      NothingOutstandingBeforeConnect, AckNamesNextExpected
<1> QED
  BY <1>1, <1>2, BeginResetStep, SendDataStep, OnFrameStep, DecodeFailureStep DEF Next

\* The inductive invariant holds in every reachable state.
THEOREM ConnInvHolds == Spec => []ConnInv
BY InitConnInv, NextConnInv, PTL DEF Spec

\* Every field of Connection keeps its type under any sequence of calls and frames.
THEOREM ConnectionTypeOK == Spec => []TypeOK
<1>1. ConnInv => TypeOK
  BY DEF ConnInv
<1> QED BY <1>1, ConnInvHolds, PTL

\* The outstanding frames are always a run of consecutive numbers ending before next_tx_frame.
THEOREM WindowAlwaysConsecutive == Spec => []WindowIsConsecutive
<1>1. ConnInv => WindowIsConsecutive
  BY DEF ConnInv
<1> QED BY <1>1, ConnInvHolds, PTL

\* No ack_num is ever ambiguous: what MAX_WINDOW < SEQUENCE_MODULUS is there for.
THEOREM AckNeverAmbiguous == Spec => []AckIsUnambiguous
<1>1. ConnInv => AckIsUnambiguous
  BY ConsecutiveIsUnambiguous DEF ConnInv, TypeOK, WindowIsConsecutive, AckIsUnambiguous
<1> QED BY <1>1, ConnInvHolds, PTL

\* Every ack_num the host sends names the frame it will accept next.
THEOREM AckAlwaysCurrent == Spec => []AckNamesNextExpected
<1>1. ConnInv => AckNamesNextExpected
  BY DEF ConnInv
<1> QED BY <1>1, ConnInvHolds, PTL

\* Nothing is outstanding, and numbering starts at zero, until a handshake completes.
THEOREM NothingOutstandingEarly == Spec => []NothingOutstandingBeforeConnect
<1>1. ConnInv => NothingOutstandingBeforeConnect
  BY DEF ConnInv
<1> QED BY <1>1, ConnInvHolds, PTL

\* A frame behind the oldest outstanding one has been sent exactly once.
THEOREM OnlyOldestEverResent == Spec => []OnlyOldestIsResent
<1>1. ConnInv => OnlyOldestIsResent
  BY DEF ConnInv
<1> QED BY <1>1, ConnInvHolds, PTL

-----------------------------------------------------------------------------
(* The queue is first in, first out *)

\* A call that leaves a suffix of the queue, the frames' numbers and payloads with it.
LEMMA SuffixIsFifo ==
    ASSUME in_flight \in Seq(InFlight), in_flight' \in Seq(InFlight),
           NEW k \in 0 .. Len(in_flight), Len(in_flight') = Len(in_flight) - k,
           \A i \in 1 .. Len(in_flight') :
               /\ in_flight'[i].frame_num = in_flight[i + k].frame_num
               /\ in_flight'[i].payload = in_flight[i + k].payload
    PROVE  QueueIsFifo
<1> DEFINE Content(q) == [i \in 1 .. Len(q) |-> <<q[i].frame_num, q[i].payload>>]
           before == Content(in_flight)
           after == Content(in_flight')
<1>1. ASSUME NEW q \in Seq(InFlight)
      PROVE  Content(q) \in Seq(SeqNum \X Payload) /\ Len(Content(q)) = Len(q)
  <2>1. Len(q) \in Nat /\ \A i \in 1 .. Len(q) : q[i] \in InFlight
    OBVIOUS
  <2>2. \A i \in 1 .. Len(q) : <<q[i].frame_num, q[i].payload>> \in SeqNum \X Payload
    BY <2>1 DEF InFlight
  <2> QED BY <2>1, <2>2
<1>2. /\ before \in Seq(SeqNum \X Payload) /\ Len(before) = Len(in_flight)
      /\ after \in Seq(SeqNum \X Payload) /\ Len(after) = Len(in_flight')
      /\ Len(in_flight) \in Nat
  BY <1>1
<1>3. \A i \in 1 .. Len(in_flight) : before[i] = <<in_flight[i].frame_num, in_flight[i].payload>>
  OBVIOUS
<1>4. \A i \in 1 .. Len(in_flight') : after[i] = <<in_flight'[i].frame_num, in_flight'[i].payload>>
  OBVIOUS
<1>5. (\E n \in 0 .. Len(in_flight) : after = SubSeq(before, n + 1, Len(in_flight))) => QueueIsFifo
  BY DEF QueueIsFifo
<1> HIDE DEF before, after
<1>6. after = SubSeq(before, k + 1, Len(in_flight))
  <2> DEFINE suffix == SubSeq(before, k + 1, Len(in_flight))
  <2>1. /\ suffix \in Seq(SeqNum \X Payload)
        /\ Len(suffix) = Len(in_flight) - k
        /\ \A i \in 1 .. (Len(in_flight) - k) : suffix[i] = before[i + k]
    BY <1>2
  <2> HIDE DEF suffix
  <2>2. ASSUME NEW i \in 1 .. Len(after) PROVE after[i] = suffix[i]
    <3>1. /\ i \in 1 .. Len(in_flight') /\ i + k \in 1 .. Len(in_flight)
          /\ i \in 1 .. (Len(in_flight) - k)
      BY <1>2
    <3> QED BY <1>3, <1>4, <2>1, <3>1
  <2>3. Len(after) = Len(suffix)
    BY <1>2, <2>1
  <2>4. after = suffix
    BY <1>2, <2>1, <2>2, <2>3, SeqEqual
  <2> QED BY <2>4 DEF suffix
<1> QED BY <1>5, <1>6

\* A call that adds a frame numbered next_tx_frame behind the others.
LEMMA AppendIsFifo ==
    ASSUME in_flight \in Seq(InFlight), NEW f \in InFlight, f.frame_num = next_tx_frame,
           in_flight' = Append(in_flight, f)
    PROVE  QueueIsFifo
<1> DEFINE Content(q) == [i \in 1 .. Len(q) |-> <<q[i].frame_num, q[i].payload>>]
           before == Content(in_flight)
           after == Content(in_flight')
           new == <<f.frame_num, f.payload>>
<1>1. ASSUME NEW q \in Seq(InFlight)
      PROVE  Content(q) \in Seq(SeqNum \X Payload) /\ Len(Content(q)) = Len(q)
  <2>1. Len(q) \in Nat /\ \A i \in 1 .. Len(q) : q[i] \in InFlight
    OBVIOUS
  <2>2. \A i \in 1 .. Len(q) : <<q[i].frame_num, q[i].payload>> \in SeqNum \X Payload
    BY <2>1 DEF InFlight
  <2> QED BY <2>1, <2>2
<1>2. /\ in_flight' \in Seq(InFlight) /\ Len(in_flight) \in Nat
      /\ Len(in_flight') = Len(in_flight) + 1
      /\ \A i \in 1 .. Len(in_flight) : in_flight'[i] = in_flight[i]
      /\ in_flight'[Len(in_flight) + 1] = f
  OBVIOUS
<1>3. /\ before \in Seq(SeqNum \X Payload) /\ Len(before) = Len(in_flight)
      /\ after \in Seq(SeqNum \X Payload) /\ Len(after) = Len(in_flight')
  BY <1>1, <1>2
<1>4. \A i \in 1 .. Len(in_flight) : before[i] = <<in_flight[i].frame_num, in_flight[i].payload>>
  OBVIOUS
<1>5. \A i \in 1 .. Len(in_flight') : after[i] = <<in_flight'[i].frame_num, in_flight'[i].payload>>
  OBVIOUS
<1>6. (\E n \in 0 .. Len(in_flight) : \E p \in Payload : after = Append(before, <<next_tx_frame, p>>))
        => QueueIsFifo
  BY DEF QueueIsFifo
<1>7. new \in SeqNum \X Payload /\ f.payload \in Payload /\ new = <<next_tx_frame, f.payload>>
  BY DEF InFlight
<1> HIDE DEF before, after, new
<1>8. after = Append(before, new)
  <2> DEFINE longer == Append(before, new)
  <2>1. /\ longer \in Seq(SeqNum \X Payload)
        /\ Len(longer) = Len(in_flight) + 1
        /\ \A i \in 1 .. Len(in_flight) : longer[i] = before[i]
        /\ longer[Len(in_flight) + 1] = new
    BY <1>2, <1>3, <1>7
  <2> HIDE DEF longer
  <2>2. ASSUME NEW i \in 1 .. Len(after) PROVE after[i] = longer[i]
    <3>1. CASE i \in 1 .. Len(in_flight)
      BY <1>2, <1>3, <1>4, <1>5, <2>1, <3>1
    <3>2. CASE i = Len(in_flight) + 1
      BY <1>2, <1>3, <1>5, <2>1, <3>2 DEF new
    <3> QED BY <1>2, <1>3, <3>1, <3>2
  <2>3. Len(after) = Len(longer)
    BY <1>2, <1>3, <2>1
  <2>4. after = longer
    BY <1>3, <2>1, <2>2, <2>3, SeqEqual
  <2> QED BY <2>4 DEF longer
<1>9. 0 \in 0 .. Len(in_flight)
  BY <1>2
<1> QED BY <1>6, <1>7, <1>8, <1>9

\* A call that leaves the queue alone, or empties it.
LEMMA SameOrEmptyIsFifo ==
    ASSUME in_flight \in Seq(InFlight), in_flight' = in_flight \/ in_flight' = <<>>
    PROVE  QueueIsFifo
<1>1. CASE in_flight' = in_flight
  BY <1>1, SuffixIsFifo
<1>2. CASE in_flight' = <<>>
  <2>1. /\ Len(in_flight) \in Nat /\ in_flight' \in Seq(InFlight) /\ Len(in_flight') = 0
        /\ \A i \in 1 .. Len(in_flight') : FALSE
    BY <1>2
  <2>2. Len(in_flight) \in 0 .. Len(in_flight) /\ Len(in_flight') = Len(in_flight) - Len(in_flight)
    BY <2>1
  <2> QED BY <2>1, <2>2, SuffixIsFifo
<1> QED BY <1>1, <1>2

\* What retire_acknowledged leaves is a suffix, and a resend changes neither number nor payload.
LEMMA RetireIsFifo ==
    ASSUME ConnInv, NEW ack_num \in SeqNum, in_flight' \in Seq(InFlight),
           LET left == retire_acknowledged(ack_num) IN
               /\ Len(in_flight') = Len(left)
               /\ \A i \in 1 .. Len(left) :
                     /\ in_flight'[i].frame_num = left[i].frame_num
                     /\ in_flight'[i].payload = left[i].payload
    PROVE  QueueIsFifo
<1> DEFINE k == AcknowledgedPrefix(ack_num)
           left == retire_acknowledged(ack_num)
<1>1. /\ in_flight \in Seq(InFlight) /\ Len(in_flight) \in Nat
      /\ k \in 0 .. Len(in_flight)
      /\ left = SubSeq(in_flight, k + 1, Len(in_flight))
  BY PrefixIsAPosition DEF ConnInv, TypeOK, retire_acknowledged
<1>2. /\ Len(in_flight') = Len(left)
      /\ \A i \in 1 .. Len(left) :
            /\ in_flight'[i].frame_num = left[i].frame_num
            /\ in_flight'[i].payload = left[i].payload
  OBVIOUS
<1> HIDE DEF k, left
<1>3. /\ Len(left) = Len(in_flight) - k
      /\ \A i \in 1 .. Len(left) : left[i] = in_flight[i + k]
  BY <1>1
<1> QED BY <1>1, <1>2, <1>3, SuffixIsFifo

\* A resend touches neither the number nor the payload of a frame, and no frame but the first.
LEMMA RetransmitKeepsContent ==
    ASSUME NEW queue \in Seq(InFlight), RetransmitOldest(queue)
    PROVE  /\ Len(in_flight') = Len(queue)
           /\ \A i \in 1 .. Len(queue) :
                 /\ in_flight'[i].frame_num = queue[i].frame_num
                 /\ in_flight'[i].payload = queue[i].payload
<1>1. CASE in_flight' = queue
  BY <1>1
<1>2. CASE queue # <<>> /\ in_flight' = [queue EXCEPT ![1].sends = @ + 1]
  <2>1. Len(queue) \in Nat /\ 1 \in 1 .. Len(queue) /\ Len(in_flight') = Len(queue)
    BY <1>2
  <2>2. \A i \in 1 .. Len(queue) :
           /\ in_flight'[i].frame_num = queue[i].frame_num
           /\ in_flight'[i].payload = queue[i].payload
    BY <1>2, <2>1 DEF InFlight
  <2> QED BY <2>1, <2>2
<1> QED BY <1>1, <1>2 DEF RetransmitOldest

\* Every call keeps the queue first in, first out.
LEMMA NextIsFifo == ConnInv /\ ConnInv' /\ [Next]_connVars => [QueueIsFifo]_connVars
<1> SUFFICES ASSUME ConnInv, ConnInv', Next PROVE QueueIsFifo
  OBVIOUS
<1>1. in_flight \in Seq(InFlight) /\ in_flight' \in Seq(InFlight)
  BY DEF ConnInv, TypeOK
<1>2. CASE begin_reset
  BY <1>1, <1>2, SameOrEmptyIsFifo DEF begin_reset
<1>3. ASSUME NEW p \in Payload, send_data(p) PROVE QueueIsFifo
  <2> DEFINE new == [frame_num |-> next_tx_frame, payload |-> p, sends |-> 1]
  <2>1. in_flight' = in_flight \/ in_flight' = Append(in_flight, new)
    BY <1>3 DEF send_data, SendDataRefused, SendDataAccepted
  <2>2. new \in InFlight /\ new.frame_num = next_tx_frame
    BY RetransmitsAssumption DEF ConnInv, TypeOK, InFlight
  <2> HIDE DEF new
  <2> QED BY <1>1, <2>1, <2>2, SameOrEmptyIsFifo, AppendIsFifo
<1>4. ASSUME NEW f \in AshFrame, on_frame(f) PROVE QueueIsFifo
  <2>1. CASE OnRstAck \/ OnError \/ OnRst
    BY <1>1, <2>1, SameOrEmptyIsFifo DEF OnRstAck, OnError, OnRst
  <2>2. CASE f.kind \in {"Ack", "Nak", "Data"}
    <3>1. f.ack_num \in SeqNum
      BY <2>2 DEF AshFrame, DataFrames, AckFrames, NakFrames, Rst, RstAck, ErrorFrame
    <3>2. retire_acknowledged(f.ack_num) \in Seq(InFlight)
      BY <3>1, RetireKeepsQueue DEF ConnInv
    <3>3. CASE in_flight' = retire_acknowledged(f.ack_num)
      BY <1>1, <3>1, <3>3, RetireIsFifo
    <3>4. CASE RetransmitOldest(retire_acknowledged(f.ack_num))
      BY <1>1, <3>1, <3>2, <3>4, RetireIsFifo, RetransmitKeepsContent
    <3> QED BY <1>4, <2>2, <3>3, <3>4 DEF on_frame, OnAck, OnNak, OnData
  <2> QED BY <1>4, <2>1, <2>2 DEF on_frame
<1>5. ASSUME NEW recoverable \in BOOLEAN, on_decode_failure(recoverable) PROVE QueueIsFifo
  BY <1>1, <1>5, SameOrEmptyIsFifo DEF on_decode_failure
<1>6. CASE retransmit_oldest
  <2>1. /\ Len(in_flight') = Len(in_flight) /\ Len(in_flight) \in Nat
        /\ \A i \in 1 .. Len(in_flight) :
              /\ in_flight'[i].frame_num = in_flight[i].frame_num
              /\ in_flight'[i].payload = in_flight[i].payload
    BY <1>1, <1>6, RetransmitKeepsContent DEF retransmit_oldest
  <2>2. /\ 0 \in 0 .. Len(in_flight) /\ Len(in_flight') = Len(in_flight) - 0
        /\ \A i \in 1 .. Len(in_flight') : i + 0 = i
    BY <2>1
  <2> QED BY <1>1, <2>1, <2>2, SuffixIsFifo
<1> QED BY <1>2, <1>3, <1>4, <1>5, <1>6 DEF Next

\* Whatever the calls and frames, the queue only loses frames at its front and gains them at its
\* end, and a frame keeps its number and payload while it is in it.
THEOREM QueueAlwaysFifo == Spec => QueueStaysFifo
BY ConnInvHolds, NextIsFifo, PTL DEF Spec, QueueStaysFifo
=============================================================================
