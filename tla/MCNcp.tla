------------------------------- MODULE MCNcp -------------------------------
(* Ncp for a few calls of each method. *)
EXTENDS Ncp

MCFrameIds == {"version", "short", "long", "huge", "event", "invalid", "misread"}

MCPayload == EzspFrames
=============================================================================
