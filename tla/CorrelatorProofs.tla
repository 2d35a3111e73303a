-------------------------- MODULE CorrelatorProofs --------------------------
(***************************************************************************)
(* Proofs about Correlator, for every sequence space and set of frame ids. *)
(***************************************************************************)
EXTENDS Correlator, TLAPS

\* What begin, classify, time_out and on_ncp_reset keep of the correlator's fields.
CorrTypeOK ==
    /\ next_sequence_number \in Sequence
    /\ pending = <<>> \/ \E p \in Pending : pending = <<p>>

CorrInv == CorrTypeOK /\ PendingIsLatest

\* The counter stays in the sequence space.
LEMMA NextNumber ==
    ASSUME NEW n \in Sequence
    PROVE  (n + 1) % SEQUENCE_SPACE \in Sequence
BY SequenceSpaceAssumption DEF Sequence

\* A new Correlator satisfies the invariant.
LEMMA InitCorrInv == CorrInit => CorrInv
BY SequenceSpaceAssumption DEF CorrInit, CorrInv, CorrTypeOK, PendingIsLatest, Sequence

\* Every call on the correlator preserves it.
LEMMA NextCorrInv == CorrInv /\ [CorrNext]_corrVars => CorrInv'
<1> SUFFICES ASSUME CorrInv, [CorrNext]_corrVars PROVE CorrInv'
  OBVIOUS
<1>1. 0 \in Sequence
  BY SequenceSpaceAssumption DEF Sequence
<1>2. CASE pending' = <<>> /\ next_sequence_number' \in {0, next_sequence_number}
  BY <1>1, <1>2 DEF CorrInv, CorrTypeOK, PendingIsLatest
<1>3. ASSUME NEW frame_id \in FrameIds, begin(frame_id) PROVE CorrInv'
  <2> DEFINE p == [sequence |-> next_sequence_number, frame_id |-> frame_id]
  <2>1. p \in Pending /\ pending' = <<p>> /\ p.sequence = next_sequence_number
    BY <1>3 DEF begin, CorrInv, CorrTypeOK, Pending
  <2>2. next_sequence_number' \in Sequence
    BY <1>3, NextNumber DEF begin, CorrInv, CorrTypeOK
  <2>3. next_sequence_number' = (next_sequence_number + 1) % SEQUENCE_SPACE
    BY <1>3 DEF begin
  <2> HIDE DEF p
  <2>4. pending'[1] = p
    BY <2>1
  <2> QED BY <2>1, <2>2, <2>3, <2>4 DEF CorrInv, CorrTypeOK, PendingIsLatest
<1>4. CASE UNCHANGED corrVars
  BY <1>4 DEF corrVars, CorrInv, CorrTypeOK, PendingIsLatest
<1>5. ASSUME NEW frame, classify(frame) PROVE CorrInv'
  BY <1>2, <1>4, <1>5 DEF classify, corrVars
<1>6. CASE new_correlator \/ time_out \/ on_ncp_reset
  BY <1>2, <1>6 DEF new_correlator, time_out, on_ncp_reset
<1> QED BY <1>3, <1>4, <1>5, <1>6 DEF CorrNext

\* The one outstanding command is always the last one numbered, whatever arrives and however often
\* commands time out or the NCP resets.
THEOREM PendingAlwaysLatest == CorrSpec => []PendingIsLatest
<1>1. CorrInv => PendingIsLatest
  BY DEF CorrInv
<1> QED BY <1>1, InitCorrInv, NextCorrInv, PTL DEF CorrSpec
=============================================================================
