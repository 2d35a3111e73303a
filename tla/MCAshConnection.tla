-------------------------- MODULE MCAshConnection --------------------------
(* AshConnection with the code's own constants and one payload. *)
EXTENDS AshConnection
=============================================================================
