----------------------------- MODULE MCStartup -----------------------------
(* Startup with waits of a few polls. *)
EXTENDS Startup
=============================================================================
