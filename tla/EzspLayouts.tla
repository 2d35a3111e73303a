---------------------------- MODULE EzspLayouts -----------------------------
(***************************************************************************)
(* The commands of ezsp/command.rs and the callbacks of ezsp/callback.rs:  *)
(* for each its frame id and the fields of its parameters, in wire order.  *)
(***************************************************************************)
EXTENDS EzspCodec

\* What a command's encode writes and what its Response's decode reads.
Command(id, request, response) == [id |-> id, request |-> request, response |-> response]

-----------------------------------------------------------------------------
(* Structures that are part of several messages *)

ApsFrame == <<"u16", "u16", "u8", "u8", "u16", "u16", "u8">>
NetworkParameters == <<"pan", "u16", "i8", "u8", "u8", "u16", "u8", "u32">>
SecurityManContext == <<"u8", "u8", "u8", "eui64", "u8", "u8", "u32">>
InitialSecurityState == <<"u16", "key", "key", "u8", "eui64">>

-----------------------------------------------------------------------------
(* Commands *)

Version == Command(0, <<"u8">>, <<"u8", "u8", "u16">>)
GetEui64 == Command(38, <<>>, <<"eui64">>)
NetworkInit == Command(23, <<"u16">>, <<"status">>)
PermitJoining == Command(34, <<"u8">>, <<"status">>)
SetConfigurationValue == Command(83, <<"u8", "u16">>, <<"status">>)
SetPolicy == Command(85, <<"u8", "u8">>, <<"status">>)
AddEndpoint == Command(2, <<"u8", "u16", "u16", "u8", "clusters">>, <<"status">>)

SendUnicast ==
    Command(52, <<"u8", "u16">> \o ApsFrame \o <<"tag", "bytes">>, <<"status", "u8">>)

\* The security manager's statuses are four bytes at every version.
ImportTransientKey == Command(273, <<"eui64", "key", "flags">>, <<"u32">>)
GetConfigurationValue == Command(82, <<"u8">>, <<"status", "u16">>)
GetValue == Command(170, <<"u8">>, <<"status", "bytes">>)
SetManufacturerCode == Command(21, <<"u16">>, <<>>)
ClearTransientLinkKeys == Command(107, <<>>, <<>>)
GetNetworkParameters == Command(40, <<>>, <<"status", "u8">> \o NetworkParameters)
SetInitialSecurityState == Command(104, InitialSecurityState, <<"status">>)
FormNetwork == Command(30, NetworkParameters, <<"status">>)

\* The key comes before the status.
ExportKey == Command(276, SecurityManContext, <<"key", "u32">>)
SendBroadcast ==
    Command(54, <<"u16">> \o ApsFrame \o <<"u8", "tag", "bytes">>, <<"status", "u8">>)
NetworkState == Command(24, <<>>, <<"u8">>)

\* The group is in the APS frame; hops and the non-member radius follow it.
SendMulticast ==
    Command(56, ApsFrame \o <<"u8", "u8", "tag", "bytes">>, <<"status", "u8">>)
GetNetworkKeyInfo == Command(278, <<>>, <<"u32", "bool", "bool", "u8", "u8", "u32">>)

AllCommands ==
    {Version, GetEui64, NetworkInit, PermitJoining, SetConfigurationValue, SetPolicy, AddEndpoint,
     SendUnicast, ImportTransientKey, GetConfigurationValue, GetValue, SetManufacturerCode,
     ClearTransientLinkKeys, GetNetworkParameters, SetInitialSecurityState, FormNetwork, ExportKey,
     SendBroadcast, NetworkState, SendMulticast, GetNetworkKeyInfo}

is_available(command, version) == command = Version \/ is_supported(version)

\* Mutant: what follows the last field is not looked at.
ResponseMayTrail(command, parameters, version) == decode(command.response, parameters, version)

\* The tail of Ncp::command: the response must end where its layout does.
decode_response(command, parameters, version) ==
    LET decoded == decode(command.response, parameters, version) IN
    IF decoded.error = "none" /\ remaining(decoded.reader) > 0
    THEN [decoded EXCEPT !.error = "TrailingBytes"] ELSE decoded

-----------------------------------------------------------------------------
(* Callbacks *)

STACK_STATUS_HANDLER == 25
TRUST_CENTER_JOIN_HANDLER == 36
MESSAGE_SENT_HANDLER == 63
INCOMING_MESSAGE_HANDLER == 69

KnownCallbacks ==
    {STACK_STATUS_HANDLER, TRUST_CENTER_JOIN_HANDLER, MESSAGE_SENT_HANDLER,
     INCOMING_MESSAGE_HANDLER}

CallbackLayout(frame_id) ==
    CASE frame_id = STACK_STATUS_HANDLER -> <<"status">>
      [] frame_id = TRUST_CENTER_JOIN_HANDLER -> <<"u16", "eui64", "u8", "u8", "u16">>
      [] frame_id = MESSAGE_SENT_HANDLER -> <<"u8", "u16">> \o ApsFrame \o <<"tag", "status", "bytes">>
      [] frame_id = INCOMING_MESSAGE_HANDLER ->
            <<"u8">> \o ApsFrame \o <<"u8", "i8", "u16", "u8", "u8", "bytes">>

\* Callback::decode: bytes after the last field are left alone, and an id this build does not know
\* is carried with its bytes.
decode_callback(frame_id, parameters, version) ==
    IF frame_id \in KnownCallbacks
    THEN LET decoded == decode(CallbackLayout(frame_id), parameters, version) IN
         [error |-> decoded.error, frame_id |-> frame_id, values |-> decoded.values]
    ELSE [error |-> "none", frame_id |-> frame_id, values |-> parameters]
=============================================================================
