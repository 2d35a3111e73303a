------------------------------ MODULE AshCodec ------------------------------
(***************************************************************************)
(* ASH frames as bytes: the control byte and body of ash/frame.rs, and the *)
(* CRC, the randomisation, the stuffing and encode of ash/codec.rs.  Bytes *)
(* are the numbers 0 .. 255.                                               *)
(***************************************************************************)
EXTENDS Integers, Sequences, SequencesExt

CONSTANTS
    MAX_FRAME_WITH_CRC,   \* 133 in the code: control, body and CRC, before stuffing
    MAX_DATA_FIELD_LEN    \* 128 in the code

ASSUME LengthAssumption ==
    /\ MAX_DATA_FIELD_LEN \in Nat
    /\ MAX_FRAME_WITH_CRC \in Nat /\ MAX_FRAME_WITH_CRC >= 5

FLAG == 126
ESCAPE == 125
CANCEL == 26
SUBSTITUTE == 24
XON == 17
XOFF == 19
FLIP == 32
MIN_FRAME_WITH_CRC == 3

\* Exclusive or of 16-bit numbers.
Xor(x, y) ==
    LET low[n \in 0 .. 16] ==
          IF n = 0 THEN 0
          ELSE low[n - 1] + 2 ^ (n - 1) * (((x \div 2 ^ (n - 1)) + (y \div 2 ^ (n - 1))) % 2)
    IN  low[16]

\* Mutant: a cancel byte goes out as it is.
ReservedWithoutCancel(byte) == byte \in {FLAG, ESCAPE, XON, XOFF, SUBSTITUTE}

is_reserved(byte) == byte \in {FLAG, ESCAPE, XON, XOFF, SUBSTITUTE, CANCEL}

crc16(seed, byte) ==
    LET after[bit \in 0 .. 8] ==
          IF bit = 0 THEN Xor(seed, byte * 256)
          ELSE LET crc == after[bit - 1]
               IN  IF crc < 32768 THEN crc * 2 ELSE Xor((crc * 2) % 65536, 4129)
    IN  after[8]

crc16_all(bytes) == FoldLeft(crc16, 65535, bytes)

\* The data field against the pseudo-random sequence; its own inverse.
randomise(data) ==
    LET seed[i \in 1 .. Len(data)] ==
          IF i = 1 THEN 66
          ELSE LET s == seed[i - 1] IN IF s % 2 = 0 THEN s \div 2 ELSE Xor(s \div 2, 184)
    IN  [i \in 1 .. Len(data) |-> Xor(data[i], seed[i])]

-----------------------------------------------------------------------------
(* Frames *)

Data(frame_num, ack_num, retransmit, payload) ==
    [kind |-> "Data", frame_num |-> frame_num, ack_num |-> ack_num,
     retransmit |-> retransmit, payload |-> payload]
Ack(ack_num, not_ready) == [kind |-> "Ack", ack_num |-> ack_num, not_ready |-> not_ready]
Nak(ack_num, not_ready) == [kind |-> "Nak", ack_num |-> ack_num, not_ready |-> not_ready]
Rst == [kind |-> "Rst"]
RstAck(version, code) == [kind |-> "RstAck", version |-> version, code |-> code]
ErrorFrame(version, code) == [kind |-> "Error", version |-> version, code |-> code]

\* The bit that is retransmit in DATA and not_ready in ACK and NAK.
Flagged(flag) == IF flag THEN 8 ELSE 0

control(f) ==
    CASE f.kind = "Data"   -> (f.frame_num % 8) * 16 + Flagged(f.retransmit) + (f.ack_num % 8)
      [] f.kind = "Ack"    -> 128 + Flagged(f.not_ready) + (f.ack_num % 8)
      [] f.kind = "Nak"    -> 160 + Flagged(f.not_ready) + (f.ack_num % 8)
      [] f.kind = "Rst"    -> 192
      [] f.kind = "RstAck" -> 193
      [] f.kind = "Error"  -> 194

body(f) ==
    CASE f.kind = "Data"                -> f.payload
      [] f.kind \in {"RstAck", "Error"} -> <<f.version, f.code>>
      [] OTHER                          -> <<>>

Frame(f) == [kind |-> "Frame", frame |-> f]
Rejected(error) == [kind |-> "Rejected", error |-> error]

\* A control byte and a body as a frame, or the reason they are none.  The three fixed control bytes
\* come before the masked ones.
from_parts(c, b) ==
    LET ack_num == c % 8
        flag == (c \div 8) % 2 = 1
        fits == IF c \in {193, 194} THEN Len(b) = 2 ELSE b = <<>>
    IN  CASE c < 128 /\ Len(b) > MAX_DATA_FIELD_LEN -> Rejected("TooLong")
          [] c < 128 /\ Len(b) <= MAX_DATA_FIELD_LEN -> Frame(Data(c \div 16, ack_num, flag, b))
          [] c >= 128 /\ ~fits -> Rejected("InvalidControl")
          [] c = 192 /\ fits -> Frame(Rst)
          [] c = 193 /\ fits -> Frame(RstAck(b[1], b[2]))
          [] c = 194 /\ fits -> Frame(ErrorFrame(b[1], b[2]))
          [] c \div 32 = 4 /\ fits -> Frame(Ack(ack_num, flag))
          [] c \div 32 = 5 /\ fits -> Frame(Nak(ack_num, flag))
          [] OTHER -> Rejected("InvalidControl")

-----------------------------------------------------------------------------
(* Encoding *)

stuff(bytes) ==
    FlattenSeq([i \in 1 .. Len(bytes) |->
        IF is_reserved(bytes[i]) THEN <<ESCAPE, Xor(bytes[i], FLIP)>> ELSE <<bytes[i]>>])

\* The bytes of a control byte and a body on the wire: randomised, with their CRC, stuffed and
\* delimited.
wire(c, b) ==
    LET covered == <<c>> \o (IF c < 128 THEN randomise(b) ELSE b)
        crc == crc16_all(covered)
    IN  stuff(covered \o <<crc \div 256, crc % 256>>) \o <<FLAG>>

\* Result<Vec<u8>, AshError>: <<bytes>>, or <<>> for TooLong.
encode(f) ==
    IF 1 + Len(body(f)) + 2 > MAX_FRAME_WITH_CRC THEN <<>> ELSE <<wire(control(f), body(f))>>
=============================================================================
