-------------------------- MODULE ReliableChannel --------------------------
(***************************************************************************)
(* What ASH promises in one direction: within a session the receiver is    *)
(* given the payloads the sender was given, in order, none twice and none  *)
(* skipped.  A new session starts with nothing delivered.                  *)
(***************************************************************************)
EXTENDS Integers, Sequences

CONSTANT Payload

VARIABLES sent, got

Init == sent = <<>> /\ got = <<>>

Send == \E p \in Payload : sent' = Append(sent, p) /\ UNCHANGED got

Deliver ==
    /\ Len(got) < Len(sent)
    /\ got' = Append(got, sent[Len(got) + 1])
    /\ UNCHANGED sent

NewSession == sent' \in Seq(Payload) /\ got' = <<>>

Next == Send \/ Deliver \/ NewSession

Spec == Init /\ [][Next]_<<sent, got>>
=============================================================================
