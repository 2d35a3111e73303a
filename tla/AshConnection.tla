--------------------------- MODULE AshConnection ---------------------------
(***************************************************************************)
(* The host's half of an ASH connection: `Connection` of ash/state.rs.     *)
(*                                                                         *)
(* The type is sans-I/O: every method is one call that changes the fields  *)
(* and hands the caller something to write.  Here each method is one       *)
(* action, the fields are the variables, and what the call returns is kept *)
(* in two more variables until the next call:                              *)
(*                                                                         *)
(*   outbound   the frame to write, Nothing, or the error returned         *)
(*   received   the payload on_frame delivers, an Option: <<>> or <<p>>    *)
(*                                                                         *)
(* The fields ack_pending and nak_pending are left out: the code assigns   *)
(* them and never reads them.  version, reset_code, error_code and         *)
(* not_ready are left out of the frames for the same reason.               *)
(***************************************************************************)
EXTENDS Integers, Sequences

CONSTANTS
    Payload,             \* what a DATA frame may carry
    SEQUENCE_MODULUS,    \* 8 in the code: three bits of sequence number
    MAX_WINDOW,          \* 7 in the code: unacknowledged frames at once
    MAX_RETRANSMITS,     \* 3 in the code
    MAX_RESET_ATTEMPTS   \* 5 in the code

ASSUME ModulusAssumption == SEQUENCE_MODULUS \in Nat \ {0}
ASSUME WindowAssumption == MAX_WINDOW \in Nat \ {0} /\ MAX_WINDOW < SEQUENCE_MODULUS
ASSUME RetransmitsAssumption == MAX_RETRANSMITS \in Nat \ {0}
ASSUME ResetAttemptsAssumption == MAX_RESET_ATTEMPTS \in Nat \ {0}

VARIABLES
    phase,           \* ConnectionState, without its payload
    attempts,        \* the payload of Resetting, 0 in every other state
    next_tx_frame,   \* number the next DATA frame sent will carry
    next_rx_frame,   \* number of the next DATA frame expected
    in_flight,       \* sent and not yet acknowledged, oldest first
    outbound,        \* returned by the last call
    received         \* payload returned by the last call

connVars == <<phase, attempts, next_tx_frame, next_rx_frame, in_flight, outbound, received>>

-----------------------------------------------------------------------------
(* Frames *)

SeqNum == 0 .. (SEQUENCE_MODULUS - 1)

Phases == {"Disconnected", "Resetting", "Connected", "Failed"}

Data(num, ack, retransmit, p) ==
    [kind |-> "Data", frame_num |-> num, ack_num |-> ack,
     retransmit |-> retransmit, payload |-> p]
Ack(ack) == [kind |-> "Ack", ack_num |-> ack]
Nak(ack) == [kind |-> "Nak", ack_num |-> ack]
Rst == [kind |-> "Rst"]
RstAck == [kind |-> "RstAck"]
ErrorFrame == [kind |-> "Error"]

DataFrames == [kind : {"Data"}, frame_num : SeqNum, ack_num : SeqNum,
               retransmit : BOOLEAN, payload : Payload]
AckFrames == [kind : {"Ack"}, ack_num : SeqNum]
NakFrames == [kind : {"Nak"}, ack_num : SeqNum]
AshFrame == DataFrames \cup AckFrames \cup NakFrames \cup {Rst, RstAck, ErrorFrame}

\* Outbound::Nothing and the two errors of send_data.
Nothing == [kind |-> "Nothing"]
NotConnected == [kind |-> "NotConnected"]
WindowFull == [kind |-> "WindowFull"]

Outbound == DataFrames \cup AckFrames \cup NakFrames
              \cup {Rst, Nothing, NotConnected, WindowFull}

InFlight == [frame_num : SeqNum, payload : Payload, sends : 1 .. MAX_RETRANSMITS]

-----------------------------------------------------------------------------
(* Helpers *)

next_sequence(n) == (n + 1) % SEQUENCE_MODULUS

is_connected == phase = "Connected"

\* `.position(..).unwrap_or(len)`: how many frames stand ahead of the first one numbered
\* ack_num, all of them when there is none.
AcknowledgedPrefix(ack_num) ==
    CHOOSE n \in 0 .. Len(in_flight) :
        /\ \A j \in 1 .. n : in_flight[j].frame_num # ack_num
        /\ n < Len(in_flight) => in_flight[n + 1].frame_num = ack_num

\* Mutant: acknowledges the frame named by ack_num too.
RetireThroughAckNum(ack_num) ==
    LET n == AcknowledgedPrefix(ack_num)
    IN  SubSeq(in_flight, n + 2, Len(in_flight))

\* Mutant: retires only the frame just before ack_num, wherever it is.
RetireOnlyPredecessor(ack_num) ==
    LET n == AcknowledgedPrefix(ack_num)
    IN  IF n = 0 THEN in_flight
        ELSE SubSeq(in_flight, 1, n - 1) \o SubSeq(in_flight, n + 1, Len(in_flight))

\* What retire_acknowledged leaves in the queue.
retire_acknowledged(ack_num) ==
    SubSeq(in_flight, AcknowledgedPrefix(ack_num) + 1, Len(in_flight))

\* Mutant: resends without looking at how often the frame went out already.
RetransmitForever(queue) ==
    /\ UNCHANGED <<phase, attempts>>
    /\ IF queue = <<>>
       THEN in_flight' = queue /\ outbound' = Nothing
       ELSE /\ in_flight' = [queue EXCEPT ![1].sends = @ + 1]
            /\ outbound' = Data(queue[1].frame_num, next_rx_frame, TRUE, queue[1].payload)

\* Mutant: resends the newest frame instead of the oldest.
RetransmitNewest(queue) ==
    LET last == Len(queue) IN
    \/ /\ queue = <<>>
       /\ in_flight' = queue
       /\ outbound' = Nothing
       /\ UNCHANGED <<phase, attempts>>
    \/ /\ queue # <<>>
       /\ queue[last].sends >= MAX_RETRANSMITS
       /\ phase' = "Failed"
       /\ attempts' = 0
       /\ in_flight' = queue
       /\ outbound' = Nothing
    \/ /\ queue # <<>>
       /\ queue[last].sends < MAX_RETRANSMITS
       /\ in_flight' = [queue EXCEPT ![last].sends = @ + 1]
       /\ outbound' = Data(queue[last].frame_num, next_rx_frame, TRUE, queue[last].payload)
       /\ UNCHANGED <<phase, attempts>>

\* retransmit_oldest on a queue: nothing to resend, resent too often, or resent.
RetransmitOldest(queue) ==
    \/ /\ queue = <<>>
       /\ in_flight' = queue
       /\ outbound' = Nothing
       /\ UNCHANGED <<phase, attempts>>
    \/ /\ queue # <<>>
       /\ queue[1].sends >= MAX_RETRANSMITS
       /\ phase' = "Failed"
       /\ attempts' = 0
       /\ in_flight' = queue
       /\ outbound' = Nothing
    \/ /\ queue # <<>>
       /\ queue[1].sends < MAX_RETRANSMITS
       /\ in_flight' = [queue EXCEPT ![1].sends = @ + 1]
       /\ outbound' = Data(queue[1].frame_num, next_rx_frame, TRUE, queue[1].payload)
       /\ UNCHANGED <<phase, attempts>>

-----------------------------------------------------------------------------
(* Operations *)

Init ==
    /\ phase = "Disconnected"
    /\ attempts = 0
    /\ next_tx_frame = 0
    /\ next_rx_frame = 0
    /\ in_flight = <<>>
    /\ outbound = Nothing
    /\ received = <<>>

\* Mutant: a reset that keeps the old transmit number and the old queue.
BeginResetKeepsQueue ==
    LET so_far == IF phase = "Resetting" THEN attempts ELSE 0 IN
    /\ so_far < MAX_RESET_ATTEMPTS
    /\ phase' = "Resetting"
    /\ attempts' = so_far + 1
    /\ next_rx_frame' = 0
    /\ outbound' = Rst
    /\ received' = <<>>
    /\ UNCHANGED <<next_tx_frame, in_flight>>

begin_reset ==
    LET so_far == IF phase = "Resetting" THEN attempts ELSE 0 IN
    /\ received' = <<>>
    /\ \/ /\ so_far >= MAX_RESET_ATTEMPTS
          /\ phase' = "Failed"
          /\ attempts' = 0
          /\ outbound' = Nothing
          /\ UNCHANGED <<next_tx_frame, next_rx_frame, in_flight>>
       \/ /\ so_far < MAX_RESET_ATTEMPTS
          /\ phase' = "Resetting"
          /\ attempts' = so_far + 1
          /\ next_tx_frame' = 0
          /\ next_rx_frame' = 0
          /\ in_flight' = <<>>
          /\ outbound' = Rst

\* send_data when the frame is accepted: numbered, queued and handed back.
SendDataAccepted(p) ==
    /\ in_flight' = Append(in_flight, [frame_num |-> next_tx_frame, payload |-> p, sends |-> 1])
    /\ next_tx_frame' = next_sequence(next_tx_frame)
    /\ outbound' = Data(next_tx_frame, next_rx_frame, FALSE, p)
    /\ received' = <<>>
    /\ UNCHANGED <<phase, attempts, next_rx_frame>>

SendDataRefused(error) ==
    /\ outbound' = error
    /\ received' = <<>>
    /\ UNCHANGED <<phase, attempts, next_tx_frame, next_rx_frame, in_flight>>

\* Mutant: the window check lets one frame too many out.
SendDataOneTooMany(p) ==
    \/ ~is_connected /\ SendDataRefused(NotConnected)
    \/ is_connected /\ Len(in_flight) > MAX_WINDOW /\ SendDataRefused(WindowFull)
    \/ is_connected /\ Len(in_flight) <= MAX_WINDOW /\ SendDataAccepted(p)

send_data(p) ==
    \/ ~is_connected /\ SendDataRefused(NotConnected)
    \/ is_connected /\ Len(in_flight) >= MAX_WINDOW /\ SendDataRefused(WindowFull)
    \/ is_connected /\ Len(in_flight) < MAX_WINDOW /\ SendDataAccepted(p)

\* RSTACK is accepted from any state.
OnRstAck ==
    /\ phase' = "Connected"
    /\ attempts' = 0
    /\ next_tx_frame' = 0
    /\ next_rx_frame' = 0
    /\ in_flight' = <<>>
    /\ outbound' = Nothing
    /\ received' = <<>>

OnError ==
    /\ phase' = "Failed"
    /\ attempts' = 0
    /\ in_flight' = <<>>
    /\ outbound' = Nothing
    /\ received' = <<>>
    /\ UNCHANGED <<next_tx_frame, next_rx_frame>>

OnAck(ack_num) ==
    /\ in_flight' = retire_acknowledged(ack_num)
    /\ outbound' = Nothing
    /\ received' = <<>>
    /\ UNCHANGED <<phase, attempts, next_tx_frame, next_rx_frame>>

OnNak(ack_num) ==
    /\ RetransmitOldest(retire_acknowledged(ack_num))
    /\ received' = <<>>
    /\ UNCHANGED <<next_tx_frame, next_rx_frame>>

\* RST is the host's own frame; an echo of it means nothing.
OnRst ==
    /\ outbound' = Nothing
    /\ received' = <<>>
    /\ UNCHANGED <<phase, attempts, next_tx_frame, next_rx_frame, in_flight>>

\* Mutant: acknowledges with the number as it was before the frame was taken.
OnDataAckBeforeAdvance(frame_num, ack_num, p) ==
    /\ in_flight' = retire_acknowledged(ack_num)
    /\ outbound' = Ack(next_rx_frame)
    /\ \/ /\ frame_num = next_rx_frame
          /\ next_rx_frame' = next_sequence(frame_num)
          /\ received' = <<p>>
       \/ /\ frame_num # next_rx_frame
          /\ received' = <<>>
          /\ UNCHANGED next_rx_frame
    /\ UNCHANGED <<phase, attempts, next_tx_frame>>

\* Mutant: delivers whatever number arrives.
OnDataAnyNumber(frame_num, ack_num, p) ==
    /\ in_flight' = retire_acknowledged(ack_num)
    /\ next_rx_frame' = next_sequence(frame_num)
    /\ received' = <<p>>
    /\ outbound' = Ack(next_rx_frame')
    /\ UNCHANGED <<phase, attempts, next_tx_frame>>

\* Mutant: says nothing when a frame is not the one expected.
OnDataSilentOnDuplicate(frame_num, ack_num, p) ==
    /\ in_flight' = retire_acknowledged(ack_num)
    /\ \/ /\ frame_num = next_rx_frame
          /\ next_rx_frame' = next_sequence(frame_num)
          /\ received' = <<p>>
          /\ outbound' = Ack(next_rx_frame')
       \/ /\ frame_num # next_rx_frame
          /\ received' = <<>>
          /\ outbound' = Nothing
          /\ UNCHANGED next_rx_frame
    /\ UNCHANGED <<phase, attempts, next_tx_frame>>

\* In sequence: delivered.  Anything else: re-acknowledged, not delivered.
OnData(frame_num, ack_num, p) ==
    /\ in_flight' = retire_acknowledged(ack_num)
    /\ \/ /\ frame_num = next_rx_frame
          /\ next_rx_frame' = next_sequence(frame_num)
          /\ received' = <<p>>
       \/ /\ frame_num # next_rx_frame
          /\ received' = <<>>
          /\ UNCHANGED next_rx_frame
    /\ outbound' = Ack(next_rx_frame')
    /\ UNCHANGED <<phase, attempts, next_tx_frame>>

on_frame(f) ==
    \/ f.kind = "RstAck" /\ OnRstAck
    \/ f.kind = "Error" /\ OnError
    \/ f.kind = "Ack" /\ OnAck(f.ack_num)
    \/ f.kind = "Nak" /\ OnNak(f.ack_num)
    \/ f.kind = "Rst" /\ OnRst
    \/ f.kind = "Data" /\ OnData(f.frame_num, f.ack_num, f.payload)

\* Mutant: asks for the frame after the bad one, as if the bad one had been taken.
DecodeFailureSkipsFrame(recoverable) ==
    /\ outbound' = IF recoverable THEN Nak(next_sequence(next_rx_frame)) ELSE Nothing
    /\ received' = <<>>
    /\ UNCHANGED <<phase, attempts, next_tx_frame, next_rx_frame, in_flight>>

\* recoverable is AshError::is_recoverable_by_nak: a bad CRC or a substitute byte.
on_decode_failure(recoverable) ==
    /\ outbound' = IF recoverable THEN Nak(next_rx_frame) ELSE Nothing
    /\ received' = <<>>
    /\ UNCHANGED <<phase, attempts, next_tx_frame, next_rx_frame, in_flight>>

\* The public method; on a NAK it runs inside on_frame instead.
retransmit_oldest ==
    /\ RetransmitOldest(in_flight)
    /\ received' = <<>>
    /\ UNCHANGED <<next_tx_frame, next_rx_frame>>

Next ==
    \/ begin_reset
    \/ \E p \in Payload : send_data(p)
    \/ \E f \in AshFrame : on_frame(f)
    \/ \E recoverable \in BOOLEAN : on_decode_failure(recoverable)
    \/ retransmit_oldest

Spec == Init /\ [][Next]_connVars

-----------------------------------------------------------------------------
(* Correctness *)

\* Every field keeps its type; `sends` never exceeds MAX_RETRANSMITS, and only Resetting
\* counts attempts.
TypeOK ==
    /\ phase \in Phases
    /\ attempts \in 0 .. MAX_RESET_ATTEMPTS
    /\ phase # "Resetting" => attempts = 0
    /\ next_tx_frame \in SeqNum
    /\ next_rx_frame \in SeqNum
    /\ in_flight \in Seq(InFlight)
    /\ outbound \in Outbound
    /\ received \in {<<>>} \cup {<<p>> : p \in Payload}

\* The number k places before n on the sequence circle.
Before(n, k) == IF k <= n THEN n - k ELSE n - k + SEQUENCE_MODULUS

\* The frames of queue carry consecutive numbers, the last of them the one before n.
ConsecutiveUpTo(queue, n) ==
    \A i \in 1 .. Len(queue) : queue[i].frame_num = Before(n, Len(queue) + 1 - i)

\* The queue is a run of consecutive numbers that ends just before next_tx_frame, no longer
\* than the window: whatever the NCP acknowledges, in whatever state (state.rs send_data,
\* retire_acknowledged, begin_reset, on_frame).
WindowIsConsecutive ==
    /\ Len(in_flight) <= MAX_WINDOW
    /\ ConsecutiveUpTo(in_flight, next_tx_frame)

\* An ack_num names at most one outstanding frame, and "all acknowledged" (next_tx_frame)
\* names none: the state MAX_WINDOW is there to make unreachable (state.rs:25-32).
AckIsUnambiguous ==
    /\ \A i, j \in 1 .. Len(in_flight) :
          in_flight[i].frame_num = in_flight[j].frame_num => i = j
    /\ \A i \in 1 .. Len(in_flight) : in_flight[i].frame_num # next_tx_frame

SentOnceBehindOldest(queue) == \A i \in 2 .. Len(queue) : queue[i].sends = 1

\* Only the oldest outstanding frame has ever been resent: a frame behind it went out once.
OnlyOldestIsResent == SentOnceBehindOldest(in_flight)

\* Before a handshake completes nothing is outstanding and numbering starts from zero, so a
\* queue from an old session never meets an NCP that was reset.
NothingOutstandingBeforeConnect ==
    phase \in {"Disconnected", "Resetting"} => in_flight = <<>> /\ next_tx_frame = 0

\* Every number the host tells the NCP to send next is the one it will accept next: it never
\* acknowledges a frame it has not taken, nor withholds one it has.
AckNamesNextExpected ==
    outbound.kind \in {"Data", "Ack", "Nak"} => outbound.ack_num = next_rx_frame

\* A call removes frames from the front of the queue only, or adds one at its end; the frames
\* that stay keep their number and payload.
QueueIsFifo ==
    LET Content(q) == [i \in 1 .. Len(q) |-> <<q[i].frame_num, q[i].payload>>] IN
    \E k \in 0 .. Len(in_flight) :
        \/ Content(in_flight') = SubSeq(Content(in_flight), k + 1, Len(in_flight))
        \/ \E p \in Payload :
              Content(in_flight') = Append(Content(in_flight), <<next_tx_frame, p>>)
QueueStaysFifo == [][QueueIsFifo]_connVars
=============================================================================
