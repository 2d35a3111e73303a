--------------------------- MODULE MCEzspSession ---------------------------
(* EzspSession with every command and callback, at versions around the change of widths. *)
EXTENDS EzspSession

Bytes(n, first) == [i \in 1 .. n |-> (first + i) % 256]
aEui64 == Bytes(8, 0)
aKey == Bytes(16, 100)
aGroup == <<260, 6, 1, 255, 4096, 513, 9>>
aNetwork == <<Bytes(8, 50), 6754, -8, 11, 0, 3, 1, <<2047, 63488>>>>
aContext == <<1, 0, 0, aEui64, 0, 0, <<0, 0>>>>

MCRequest(command, values) == [command |-> command, values |-> values]

\* A payload of 27 bytes makes a frame of 48 bytes with a one-byte tag and of 49 with a wide one.
MCRequests ==
    {MCRequest(GetEui64, <<>>), MCRequest(NetworkInit, <<3>>),
     MCRequest(PermitJoining, <<254>>), MCRequest(SetConfigurationValue, <<12, 258>>),
     MCRequest(SetPolicy, <<0, 3>>),
     MCRequest(AddEndpoint, <<1, 260, 5, 0, <<<<0, 1026>>, <<6>>>>>>),
     MCRequest(AddEndpoint, <<1, 260, 5, 0, <<<<0>>, [i \in 1 .. 31 |-> i]>>>>),
     MCRequest(SendUnicast, <<0, 4660>> \o aGroup \o <<257, <<1, 2>>>>),
     MCRequest(SendUnicast, <<0, 4660>> \o aGroup \o <<1, Bytes(27, 0)>>),
     MCRequest(SendUnicast, <<0, 4660>> \o aGroup \o <<1, Bytes(31, 0)>>),
     MCRequest(ImportTransientKey, <<aEui64, aKey, 5>>),
     MCRequest(GetConfigurationValue, <<12>>), MCRequest(GetValue, <<17>>),
     MCRequest(SetManufacturerCode, <<4098>>), MCRequest(ClearTransientLinkKeys, <<>>),
     MCRequest(GetNetworkParameters, <<>>),
     MCRequest(SetInitialSecurityState, <<1796, aKey, aKey, 0, aEui64>>),
     MCRequest(FormNetwork, aNetwork), MCRequest(ExportKey, aContext),
     MCRequest(SendBroadcast, <<65533>> \o aGroup \o <<30, 258, <<1>>>>),
     MCRequest(NetworkState, <<>>),
     MCRequest(SendMulticast, aGroup \o <<0, 3, 258, <<1>>>>),
     MCRequest(GetNetworkKeyInfo, <<>>)}

\* Two commands with different answers, and one more to come between them.
MCLateRequests ==
    {MCRequest(GetEui64, <<>>), MCRequest(NetworkState, <<>>),
     MCRequest(SendUnicast, <<0, 4660>> \o aGroup \o <<257, <<1, 2>>>>)}

Ok == <<0, 0>>
Failed == <<0, 112>>

MCReplies ==
    [c \in AllCommands |->
        CASE c = Version -> {}
          [] c = GetEui64 -> {<<aEui64>>}
          [] c \in {SendUnicast, SendBroadcast, SendMulticast} -> {<<Failed, 77>>}
          [] c = ImportTransientKey -> {<<<<1, 2>>>>}
          [] c = GetConfigurationValue -> {<<Ok, 513>>}
          [] c = GetValue -> {<<Ok, <<1, 2, 0>>>>, <<Failed, <<>>>>}
          [] c \in {SetManufacturerCode, ClearTransientLinkKeys} -> {<<>>}
          [] c = GetNetworkParameters -> {<<Ok, 1>> \o aNetwork}
          [] c = ExportKey -> {<<aKey, <<0, 0>>>>}
          [] c = NetworkState -> {<<2>>}
          [] c = GetNetworkKeyInfo -> {<<<<0, 0>>, TRUE, FALSE, 3, 0, <<1, 2>>>>}
          [] OTHER -> {<<Failed>>}]

MCEvents ==
    {[frame_id |-> STACK_STATUS_HANDLER, values |-> <<<<0, 144>>>>],
     [frame_id |-> TRUST_CENTER_JOIN_HANDLER, values |-> <<4660, aEui64, 2, 0, 65535>>],
     [frame_id |-> MESSAGE_SENT_HANDLER,
      values |-> <<0, 4660>> \o aGroup \o <<258, Ok, <<1, 2>>>>],
     [frame_id |-> INCOMING_MESSAGE_HANDLER,
      values |-> <<0>> \o aGroup \o <<255, -60, 4660, 255, 255, <<1, 2, 3>>>>],
     [frame_id |-> 89, values |-> <<3, 4>>]}

MCFrameIds == {c.id : c \in AllCommands}
=============================================================================
