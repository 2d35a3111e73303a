----------------------------- MODULE AshDecoder -----------------------------
(***************************************************************************)
(* `Decoder` of ash/codec.rs, fed by a serial line.                        *)
(*                                                                         *)
(* feed is push on each byte of a read.  A read ends anywhere, and nothing *)
(* but Decoder::reset happens between two bytes, so one action per byte is *)
(* every way of cutting the stream into reads.                             *)
(*                                                                         *)
(* `stream` holds the bytes still to be read, each with the frame it       *)
(* belongs to.  The line may lose a byte, alter one or insert one.  sent,  *)
(* decoded, hit and noised are history: what the NCP wrote, what came out, *)
(* and which frames the line or a reset touched.                           *)
(***************************************************************************)
EXTENDS AshCodec

CONSTANTS
    Items,       \* <<control, body>> pairs the NCP may write
    FrameCount,  \* how many of them it writes
    Noise,       \* bytes the line may put in place of another, or between two
    MaxFaults    \* bytes lost, altered or inserted, and resets of the decoder

ASSUME DecoderAssumption == FrameCount \in Nat /\ MaxFaults \in Nat /\ Noise \subseteq 0 .. 255

VARIABLES
    partial,     \* bytes of the frame in progress, unstuffed
    escaped,     \* the previous byte was an escape
    dropping,    \* Option<AshError>: "None", or why the frame in progress is unusable
    decoded,     \* everything feed has returned
    stream, sent, hit, noised, faults

decoderVars == <<partial, escaped, dropping>>
streamVars == <<stream, sent, hit, noised, faults>>
vars == <<decoderVars, decoded, streamVars>>

\* The bytes of the k-th item, marked with k; last marks the delimiter.
Marked(k, bytes) ==
    [i \in 1 .. Len(bytes) |-> [byte |-> bytes[i], of |-> k, last |-> i = Len(bytes)]]

\* The DATA frames on the line are ones encode would let out.
Encodable == {item \in Items : item[1] < 128 => encode(Data(0, 0, FALSE, item[2])) # <<>>}

DecoderInit ==
    /\ partial = <<>> /\ escaped = FALSE /\ dropping = "None"
    /\ decoded = <<>>
    /\ sent \in [1 .. FrameCount -> Encodable]
    /\ stream = FlattenSeq([k \in 1 .. FrameCount |-> Marked(k, wire(sent[k][1], sent[k][2]))])
    /\ hit = {} /\ noised = {} /\ faults = 0

-----------------------------------------------------------------------------
(* Decoder *)

is_recoverable_by_nak(error) == error \in {"BadCrc", "Substituted"}

reset == partial' = <<>> /\ escaped' = FALSE /\ dropping' = "None"

\* Mutant: takes the frame without comparing the CRC.
FinishWithoutCrc ==
    LET covered == SubSeq(partial, 1, Len(partial) - 2) IN
    IF dropping # "None" THEN <<Rejected(dropping)>>
    ELSE IF partial = <<>> THEN <<>>
    ELSE IF Len(partial) < MIN_FRAME_WITH_CRC THEN <<Rejected("TooShort")>>
    ELSE <<from_parts(covered[1],
                      IF covered[1] < 128 THEN randomise(Tail(covered)) ELSE Tail(covered))>>

\* What the delimiter completes: nothing, a frame or a rejection.
finish ==
    LET n == Len(partial)
        covered == SubSeq(partial, 1, n - 2)
        carried == partial[n - 1] * 256 + partial[n]
    IN  CASE dropping # "None" -> <<Rejected(dropping)>>
          [] dropping = "None" /\ n = 0 -> <<>>
          [] dropping = "None" /\ n \in 1 .. (MIN_FRAME_WITH_CRC - 1) -> <<Rejected("TooShort")>>
          [] dropping = "None" /\ n >= MIN_FRAME_WITH_CRC ->
                IF crc16_all(covered) # carried THEN <<Rejected("BadCrc")>>
                ELSE <<from_parts(covered[1],
                                  IF covered[1] < 128 THEN randomise(Tail(covered))
                                  ELSE Tail(covered))>>

\* Mutant: buffers whatever comes.
PushContentUnbounded(byte) ==
    /\ partial' = Append(partial, IF escaped THEN Xor(byte, FLIP) ELSE byte)
    /\ escaped' = FALSE
    /\ UNCHANGED dropping

\* A byte that means nothing special: unescaped and buffered, or one too many.
PushContent(byte) ==
    /\ escaped' = FALSE
    /\ \/ /\ Len(partial) >= MAX_FRAME_WITH_CRC
          /\ dropping' = "TooLong"
          /\ UNCHANGED partial
       \/ /\ Len(partial) < MAX_FRAME_WITH_CRC
          /\ partial' = Append(partial, IF escaped THEN Xor(byte, FLIP) ELSE byte)
          /\ UNCHANGED dropping

\* Mutant: takes a substitute for a cancel.
PushSubstituteCancels == reset

PushSubstitute == dropping' = "Substituted" /\ UNCHANGED <<partial, escaped>>

push(byte) ==
    \/ byte \in {XON, XOFF} /\ UNCHANGED <<decoderVars, decoded>>
    \/ byte = CANCEL /\ reset /\ UNCHANGED decoded
    \/ byte = SUBSTITUTE /\ PushSubstitute /\ UNCHANGED decoded
    \/ byte = ESCAPE /\ escaped' = TRUE /\ UNCHANGED <<partial, dropping, decoded>>
    \/ byte = FLAG /\ decoded' = decoded \o finish /\ reset
    \/ ~is_reserved(byte) /\ PushContent(byte) /\ UNCHANGED decoded

feed ==
    /\ stream # <<>>
    /\ push(Head(stream).byte)
    /\ stream' = Tail(stream)
    /\ UNCHANGED <<sent, hit, noised, faults>>

\* Nothing of a frame is buffered.
Fresh == partial = <<>> /\ ~escaped /\ dropping = "None"

\* Ncp::reset, between two reads.
HostReset ==
    /\ faults < MaxFaults /\ stream # <<>>
    /\ faults' = faults + 1
    /\ hit' = IF Fresh THEN hit ELSE hit \cup {Head(stream).of}
    /\ reset
    /\ UNCHANGED <<decoded, stream, sent, noised>>

-----------------------------------------------------------------------------
(* The line, external *)

\* A delimiter that goes missing runs two frames into one.
Touched(b) == IF b.last THEN {b.of, b.of + 1} ELSE {b.of}

LineLoses ==
    /\ stream' = Tail(stream)
    /\ hit' = hit \cup Touched(Head(stream))
    /\ UNCHANGED noised

LineAlters(byte) ==
    /\ byte # Head(stream).byte
    /\ stream' = <<[Head(stream) EXCEPT !.byte = byte]>> \o Tail(stream)
    /\ hit' = hit \cup Touched(Head(stream))
    /\ noised' = IF byte = SUBSTITUTE \/ ~is_reserved(byte)
                 THEN noised \cup {k \in {Head(stream).of} : ~Head(stream).last} ELSE noised

LineInserts(byte) ==
    LET harmless == byte \in {XON, XOFF} \/ (byte \in {FLAG, CANCEL} /\ Fresh) IN
    /\ stream' = <<[byte |-> byte, of |-> Head(stream).of, last |-> FALSE]>> \o stream
    /\ hit' = IF harmless THEN hit ELSE hit \cup {Head(stream).of}
    /\ noised' = IF byte = SUBSTITUTE THEN noised \cup {Head(stream).of} ELSE noised

LineFault ==
    /\ faults < MaxFaults /\ stream # <<>>
    /\ faults' = faults + 1
    /\ LineLoses \/ \E byte \in Noise : LineAlters(byte) \/ LineInserts(byte)
    /\ UNCHANGED <<decoderVars, decoded, sent>>

DecoderNext == feed \/ HostReset \/ LineFault

DecoderSpec == DecoderInit /\ [][DecoderNext]_vars

-----------------------------------------------------------------------------
(* Correctness *)

Errors == {"Substituted", "TooLong", "TooShort", "BadCrc", "InvalidControl"}

\* The buffer never grows beyond the largest frame, however long the line goes without a delimiter.
DecoderTypeOK ==
    /\ Len(partial) <= MAX_FRAME_WITH_CRC
    /\ \A i \in 1 .. Len(partial) : partial[i] \in 0 .. 255
    /\ escaped \in BOOLEAN
    /\ dropping \in {"None", "Substituted", "TooLong"}
    /\ \A i \in 1 .. Len(decoded) : decoded[i].kind = "Rejected" => decoded[i].error \in Errors

Expected(k) == from_parts(sent[k][1], sent[k][2])

\* Decoding undoes encoding: what encode's transformations put on the line comes back byte for byte,
\* in order, one result for each frame, wherever the reads end and whatever flow control bytes come
\* in between; a data field encode let out although it is longer than ASH permits is refused for
\* its length and disturbs nothing else (codec.rs:3-9, 105).
DecodesWhatWasSent ==
    stream = <<>> /\ hit = {} => decoded = [k \in 1 .. FrameCount |-> Expected(k)]

FramesOf(results) == SelectSeq(results, LAMBDA r : r.kind = "Frame")

\* "One corrupt frame must not cost the ones that arrived in the same read" (codec.rs:175-179): every
\* frame the line and a reset left alone is decoded, in order, and nothing is decoded that was not
\* sent.
UndamagedFramesSurvive ==
    stream = <<>> =>
        \E survivors \in SUBSET (1 .. FrameCount) :
            /\ (1 .. FrameCount) \ hit \subseteq survivors
            /\ FramesOf(decoded) =
                 FramesOf(FlattenSeq([k \in 1 .. FrameCount |->
                     IF k \in survivors THEN <<Expected(k)>> ELSE <<>>]))

\* A frame in which one byte was altered, or that a substitute byte marks, is answered with a NAK, so
\* that the NCP sends it again at once (codec.rs:202-207, error.rs:115-122).
NoisyFrameIsNaked ==
    stream = <<>> /\ noised # {} /\ faults = 1 =>
        \E i \in 1 .. Len(decoded) :
            decoded[i].kind = "Rejected" /\ is_recoverable_by_nak(decoded[i].error)
=============================================================================
