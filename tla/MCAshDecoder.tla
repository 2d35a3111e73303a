---------------------------- MODULE MCAshDecoder ----------------------------
(* Two frames of every kind, control bytes and data that need escaping, two malformed frames, and *)
(* data fields longer than MAX_DATA_FIELD_LEN: one encode lets out and one it refuses.             *)
EXTENDS AshDecoder

Part(f) == <<control(f), body(f)>>

MCItems ==
    {Part(f) : f \in {Data(1, 1, FALSE, <<0>>), Data(7, 6, TRUE, <<60, 92, 178>>),
                      Ack(2, FALSE), Nak(7, TRUE), Rst, RstAck(2, 24), ErrorFrame(2, 81)}}
      \cup {<<193, <<>>>>, <<224, <<>>>>}
      \cup {Part(Data(2, 3, FALSE, [i \in 1 .. n |-> i])) : n \in {4, 6}}
=============================================================================
