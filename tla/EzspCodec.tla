----------------------------- MODULE EzspCodec ------------------------------
(***************************************************************************)
(* The EZSP byte layouts: Reader and Writer of ezsp/codec.rs, the version  *)
(* predicates of ezsp/version.rs, the fields of types/*.rs and the frame   *)
(* header of ezsp/frame.rs.                                                *)
(*                                                                         *)
(* What a command, response or callback consists of is a sequence of field *)
(* kinds, its layout; a message is the sequence of its fields' values.     *)
(* Bytes are 0 .. 255.  A u32 is the pair of its 16-bit halves, the upper  *)
(* one first.  Every Result is a record whose error is "none" for Ok.      *)
(***************************************************************************)
EXTENDS Integers, Sequences, SequencesExt

CONSTANTS
    MAX_FRAME_LENGTH,  \* 218 in the code: the largest EZSP frame
    U8_MAX             \* 255: the largest length that fits its one byte

ASSUME FrameLengthAssumption == MAX_FRAME_LENGTH \in Nat /\ U8_MAX \in 0 .. 255

-----------------------------------------------------------------------------
(* Versions *)

MIN_SUPPORTED == 13
MAX_SUPPORTED == 19
PREFERRED == MAX_SUPPORTED
WIDER_STATUS == 14

is_supported(version) == MIN_SUPPORTED <= version /\ version <= MAX_SUPPORTED

has_wide_status(version) == version >= WIDER_STATUS

has_wide_message_tag(version) == version >= WIDER_STATUS

\* Mutant: the flags are sent at every version.
FlagsAlways(version) == TRUE

has_transient_key_flags(version) == version < WIDER_STATUS

-----------------------------------------------------------------------------
(* Reader *)

Reader(bytes, version) == [bytes |-> bytes, position |-> 0, version |-> version]

remaining(r) == Len(r.bytes) - r.position

\* The next n bytes; a read that fails does not move.
take(r, n) ==
    IF r.position + n <= Len(r.bytes)
    THEN [error |-> "none", value |-> SubSeq(r.bytes, r.position + 1, r.position + n),
          reader |-> [r EXCEPT !.position = r.position + n]]
    ELSE [error |-> "TruncatedFrame", value |-> <<>>, reader |-> r]

\* Mutant: the length byte is skipped and everything that follows is taken.
LengthIgnored(r) ==
    LET length == take(r, 1) IN
    IF length.error # "none" THEN length ELSE take(length.reader, remaining(length.reader))

\* A length byte and that many bytes.
read_length_prefixed(r) ==
    LET length == take(r, 1) IN
    IF length.error # "none" THEN length ELSE take(length.reader, length.value[1])

\* Little-endian numbers.
u16_of(b) == b[1] + 256 * b[2]
u32_of(b) == <<u16_of(SubSeq(b, 3, 4)), u16_of(b)>>
u16_bytes(n) == <<n % 256, n \div 256>>
u32_bytes(halves) == u16_bytes(halves[2]) \o u16_bytes(halves[1])

-----------------------------------------------------------------------------
(* Fields *)

\* "status" is SlStatus at the version's width, "tag" a message tag, "flags" those of
\* importTransientKey, "bytes" a length-prefixed array and "clusters" AddEndpoint's two lists.
Width(kind, version) ==
    CASE kind \in {"u8", "i8", "bool"} -> 1
      [] kind = "u16"    -> 2
      [] kind = "u32"    -> 4
      [] kind = "eui64"  -> 8
      [] kind = "pan"    -> 8
      [] kind = "key"    -> 16
      [] kind = "status" -> IF has_wide_status(version) THEN 4 ELSE 1
      [] kind = "tag"    -> IF has_wide_message_tag(version) THEN 2 ELSE 1
      [] kind = "flags"  -> IF has_transient_key_flags(version) THEN 1 ELSE 0

\* An IEEE address is kept in print order and travels least significant byte first.
from_wire(bytes) == Reverse(bytes)
to_wire(eui64) == Reverse(eui64)

\* The narrow status is carried through as it is.
status_of(b) == IF Len(b) = 4 THEN u32_of(b) ELSE <<0, b[1]>>

Value(kind, b) ==
    CASE kind \in {"u8", "flags"} -> b[1]
      [] kind = "i8"     -> IF b[1] < 128 THEN b[1] ELSE b[1] - 256
      [] kind = "bool"   -> b[1] # 0
      [] kind = "u16"    -> u16_of(b)
      [] kind = "u32"    -> u32_of(b)
      [] kind = "eui64"  -> from_wire(b)
      [] kind \in {"pan", "key"} -> b
      [] kind = "status" -> status_of(b)
      [] kind = "tag"    -> IF Len(b) = 2 THEN u16_of(b) ELSE b[1]

decode_field(r, kind) ==
    IF kind = "bytes" THEN read_length_prefixed(r)
    ELSE LET raw == take(r, Width(kind, r.version)) IN
         IF raw.error # "none" THEN raw ELSE [raw EXCEPT !.value = Value(kind, @)]

\* The fields of a layout one after the other, up to the first that is not there.
decode(layout, bytes, version) ==
    LET Next(sofar, kind) ==
          IF sofar.error # "none" THEN sofar
          ELSE LET field == decode_field(sofar.reader, kind) IN
               [error |-> field.error, values |-> Append(sofar.values, field.value),
                reader |-> field.reader]
    IN  FoldLeft(Next, [error |-> "none", values |-> <<>>, reader |-> Reader(bytes, version)], layout)

-----------------------------------------------------------------------------
(* Writer *)

\* The bytes of a fixed-width field; a tag that does not fit loses its upper byte.
FieldBytes(kind, value, version) ==
    CASE kind = "u8"     -> <<value>>
      [] kind = "i8"     -> <<value % 256>>
      [] kind = "u16"    -> u16_bytes(value)
      [] kind = "u32"    -> u32_bytes(value)
      [] kind = "eui64"  -> to_wire(value)
      [] kind \in {"pan", "key"} -> value
      [] kind = "tag"    -> SubSeq(u16_bytes(value), 1, Width("tag", version))
      [] kind = "flags"  -> SubSeq(<<value>>, 1, Width("flags", version))

\* Lists longer than their length byte are refused, never cut.
TooLong(kind, value) ==
    \/ kind = "bytes" /\ Len(value) > U8_MAX
    \/ kind = "clusters" /\ (Len(value[1]) > U8_MAX \/ Len(value[2]) > U8_MAX)

\* Both counts, then both lists.
cluster_bytes(value) ==
    LET List(clusters) == FlattenSeq([i \in 1 .. Len(clusters) |-> u16_bytes(clusters[i])]) IN
    <<Len(value[1]), Len(value[2])>> \o List(value[1]) \o List(value[2])

encode(layout, values, version) ==
    LET Bytes(i) == CASE layout[i] = "bytes" -> <<Len(values[i])>> \o values[i]
                      [] layout[i] = "clusters" -> cluster_bytes(values[i])
                      [] OTHER -> FieldBytes(layout[i], values[i], version)
    IN  IF \E i \in 1 .. Len(layout) : TooLong(layout[i], values[i])
        THEN [error |-> "PayloadTooLong", bytes |-> <<>>]
        ELSE [error |-> "none", bytes |-> FlattenSeq([i \in 1 .. Len(layout) |-> Bytes(i)])]

-----------------------------------------------------------------------------
(* Frame header *)

byte_len(format) == IF format = "Legacy" THEN 3 ELSE 5

fits_legacy(frame_id) == frame_id <= 255

EXTENDED_FRAME_FORMAT_VERSION == 1

write_header(sequence, frame_id, format) ==
    IF format = "Legacy"
    THEN IF fits_legacy(frame_id)
         THEN [error |-> "none", bytes |-> <<sequence, 0, frame_id>>]
         ELSE [error |-> "MalformedHeader", bytes |-> <<>>]
    ELSE [error |-> "none",
          bytes |-> <<sequence, 0, EXTENDED_FRAME_FORMAT_VERSION>> \o u16_bytes(frame_id)]

\* FrameControl: bit 7 is the direction, bit 4 marks an asynchronous callback.  The other bits are
\* parsed and decide nothing.
from_low_byte(low) ==
    IF (low \div 16) % 2 = 1 THEN "Callback"
    ELSE IF low >= 128 THEN "Response" ELSE "Command"

\* The high control byte of an extended header is not looked at.
parse(bytes, format) ==
    IF Len(bytes) > MAX_FRAME_LENGTH THEN [error |-> "FrameTooLong"]
    ELSE IF Len(bytes) < byte_len(format) THEN [error |-> "TruncatedFrame"]
    ELSE [error |-> "none", sequence |-> bytes[1], kind |-> from_low_byte(bytes[2]),
          frame_id |-> IF format = "Legacy" THEN bytes[3] ELSE u16_of(SubSeq(bytes, 4, 5)),
          parameters |-> SubSeq(bytes, byte_len(format) + 1, Len(bytes))]
=============================================================================
