----------------------------- MODULE Correlator -----------------------------
(***************************************************************************)
(* `Correlator` of ezsp/correlation.rs: which received EZSP frame answers  *)
(* the one outstanding command.                                            *)
(*                                                                         *)
(* An EZSP frame is a record with at least the fields kind, sequence and   *)
(* frame_id; kind is "Callback" when the callback bit is set, otherwise    *)
(* the direction bit.  The stale_frames counter is left out: it is         *)
(* reported and never decides anything.                                    *)
(***************************************************************************)
EXTENDS Integers, Sequences

CONSTANTS
    FrameIds,        \* the frame ids in play
    SEQUENCE_SPACE   \* 256 in the code: `sequence` is a wrapping u8

ASSUME SequenceSpaceAssumption == SEQUENCE_SPACE \in Nat \ {0}

VARIABLES
    pending,         \* Option<Pending>: <<>> or <<[sequence, frame_id]>>
    next_sequence_number

corrVars == <<pending, next_sequence_number>>

Sequence == 0 .. (SEQUENCE_SPACE - 1)
Pending == [sequence : Sequence, frame_id : FrameIds]
Kinds == {"Callback", "Response", "Command"}

CorrInit == pending = <<>> /\ next_sequence_number = 0

\* Correlator::new, put in place of the old one when a reset completes.
new_correlator == pending' = <<>> /\ next_sequence_number' = 0

\* A second command is refused while one is outstanding.
begin_refused == pending # <<>>

\* Mutant: numbers the command after advancing the counter.
BeginAfterAdvance(frame_id) ==
    /\ ~begin_refused
    /\ next_sequence_number' = (next_sequence_number + 1) % SEQUENCE_SPACE
    /\ pending' = <<[sequence |-> next_sequence_number', frame_id |-> frame_id]>>

\* Mutant: the counter does not wrap.
BeginNeverWraps(frame_id) ==
    /\ ~begin_refused
    /\ pending' = <<[sequence |-> next_sequence_number, frame_id |-> frame_id]>>
    /\ next_sequence_number' = next_sequence_number + 1

begin(frame_id) ==
    /\ ~begin_refused
    /\ pending' = <<[sequence |-> next_sequence_number, frame_id |-> frame_id]>>
    /\ next_sequence_number' = (next_sequence_number + 1) % SEQUENCE_SPACE

\* Mutant: any response resolves the outstanding command.
ClassifyAnyResponse(frame) ==
    IF frame.kind = "Callback" THEN "Callback"
    ELSE IF frame.kind = "Response" /\ pending # <<>> THEN "Response"
    ELSE "Stale"

\* What classify answers.  The callback bit is looked at before anything else; a frame that is not
\* a response, or answers nothing outstanding, is stale.
Classified(frame) ==
    IF frame.kind = "Callback" THEN "Callback"
    ELSE IF /\ frame.kind = "Response"
            /\ pending = <<[sequence |-> frame.sequence, frame_id |-> frame.frame_id]>>
         THEN "Response"
    ELSE "Stale"

\* classify's effect: the answer clears the outstanding command, so a duplicate is stale.
classify(frame) ==
    /\ pending' = IF Classified(frame) = "Response" THEN <<>> ELSE pending
    /\ UNCHANGED next_sequence_number

\* Mutant: the command given up stays outstanding.
TimeOutKeepsPending == UNCHANGED corrVars

time_out == pending' = <<>> /\ UNCHANGED next_sequence_number

on_ncp_reset == pending' = <<>> /\ next_sequence_number' = 0

CorrNext ==
    \/ new_correlator
    \/ \E frame_id \in FrameIds : begin(frame_id)
    \/ \E kind \in Kinds, sequence \in Sequence, frame_id \in FrameIds :
          classify([kind |-> kind, sequence |-> sequence, frame_id |-> frame_id])
    \/ time_out
    \/ on_ncp_reset

CorrSpec == CorrInit /\ [][CorrNext]_corrVars

-----------------------------------------------------------------------------

\* The outstanding command is always the last one numbered: every other sequence number on the
\* line belongs to a command that was already given up or answered, so a frame carrying one is
\* recognised as stale until the counter has gone all the way round.
PendingIsLatest ==
    pending # <<>> =>
        next_sequence_number = (pending[1].sequence + 1) % SEQUENCE_SPACE
=============================================================================
