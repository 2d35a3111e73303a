----------------------------- MODULE MCAshLink -----------------------------
(* AshLink on a circle of three numbers, so that numbers are reused. *)
EXTENDS AshLink

MCPayload == 1 .. (HostData + NcpData)
=============================================================================
