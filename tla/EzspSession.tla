---------------------------- MODULE EzspSession -----------------------------
(***************************************************************************)
(* An EZSP session in bytes: connect's negotiation, command, poll and      *)
(* dispatch of ncp.rs with the headers and layouts of EzspLayouts, over a  *)
(* link that loses nothing (losses are the subject of AshLink, transport   *)
(* failures and resets that of Ncp).                                       *)
(*                                                                         *)
(* The NCP is external.  It has its own idea of the field widths, answers  *)
(* late, truncates a frame or appends bytes to it.  An item on the line is *)
(* the frame's bytes and, as history, where they come from: the command or *)
(* callback, the values the NCP put in and the shape it gave them.         *)
(***************************************************************************)
EXTENDS EzspLayouts, Correlator

CONSTANTS
    NcpVersions,    \* EZSP versions the NCP may run
    StackTypes,     \* stack types it may report; 2 is the mesh stack
    Requests,       \* [command, values] the application may send
    LateRequests,   \* those of them it may still send after two happenings
    Replies,        \* for each command the values the NCP may answer with
    Events,         \* [frame_id, values] of the callbacks it may send
    MaxHappenings,  \* application commands, callbacks and misshapen frames, together
    MaxChunk        \* frames one read returns at most

\* A value for each field, byte arrays where the field is one.
Fits(layout, values) ==
    /\ Len(values) = Len(layout)
    /\ \A i \in 1 .. Len(layout) :
          layout[i] \in {"eui64", "pan", "key", "bytes"} => values[i] \in Seq(0 .. 255)

ASSUME SessionAssumption ==
    /\ MaxHappenings \in Nat /\ MaxChunk \in Nat \ {0}
    /\ LateRequests \subseteq Requests
    /\ \A r \in Requests : r.command \in AllCommands /\ Fits(r.command.request, r.values)
    /\ \A c \in AllCommands : \A v \in Replies[c] : Fits(c.response, v)
    /\ \A e \in Events : IF e.frame_id \in KnownCallbacks
                         THEN Fits(CallbackLayout(e.frame_id), e.values)
                         ELSE e.values \in Seq(0 .. 255)

VARIABLES
    connecting, version,             \* connect, and Ncp::version
    pc, op, chunk, asked, result,    \* the task: the method running, where it waits, what it returned
    response, callbacks, initial_version_sent, pending_format,
    line, owed, ncp_version, ncp_stack_type, ncp_widths,
    taken, dispatched,               \* history: callbacks handed over; callbacks dispatched since connect
    received,                        \* history: the last command as it reached the NCP
    refused,                         \* history: a command failed after begin and before it was sent
    happenings, issued

taskVars == <<pc, op, chunk, asked, result>>
hostVars == <<response, callbacks, initial_version_sent, pending_format>>
ncpVars == <<line, owed, ncp_version, ncp_stack_type, ncp_widths>>
historyVars == <<taken, dispatched, received, refused>>
boundVars == <<happenings, issued>>
sessionVars == <<corrVars, connecting, version, taskVars, hostVars, ncpVars, historyVars, boundVars>>

NoItem == [bytes |-> <<>>, of |-> 0, frame_id |-> 0, values |-> <<>>, shape |-> "whole"]
Returned(error) == [error |-> error, values |-> <<>>, from |-> NoItem]
NothingAsked == [command |-> Version, values |-> <<PREFERRED>>, token |-> 0]

-----------------------------------------------------------------------------
(* The NCP, external *)

NcpWidths(v) == IF v < 14 THEN [status |-> 1, tag |-> 1, flags |-> 1]
                ELSE [status |-> 4, tag |-> 2, flags |-> 0]

NcpField(kind, value) ==
    CASE kind = "status" -> SubSeq(u32_bytes(value), 1, ncp_widths.status)
      [] kind = "tag"    -> SubSeq(u16_bytes(value), 1, ncp_widths.tag)
      [] kind = "flags"  -> SubSeq(<<value>>, 1, ncp_widths.flags)
      [] kind = "bool"   -> <<IF value THEN 2 ELSE 0>>
      [] kind = "bytes"  -> <<Len(value)>> \o value
      [] kind = "clusters" ->
            <<Len(value[1]), Len(value[2])>>
              \o FlattenSeq([i \in 1 .. Len(value[1]) |-> u16_bytes(value[1][i])])
              \o FlattenSeq([i \in 1 .. Len(value[2]) |-> u16_bytes(value[2][i])])
      [] OTHER -> FieldBytes(kind, value, 0)

\* A message the way this NCP lays it out.
NcpParameters(layout, values) ==
    FlattenSeq([i \in 1 .. Len(layout) |-> NcpField(layout[i], values[i])])

NcpHeader(format, sequence, control, frame_id) ==
    IF format = "Legacy" THEN <<sequence, control, frame_id>>
    ELSE <<sequence, control, 1>> \o u16_bytes(frame_id)

\* The shapes of a frame: whole, truncated by the firmware with the bit that says so, or followed by
\* a byte this build knows nothing of.  Either misshapen form counts as a happening.
NcpShapes(of, format, sequence, control, frame_id, values, parameters) ==
    LET Item(shape, c, p) ==
          [bytes |-> NcpHeader(format, sequence, c, frame_id) \o p, of |-> of,
           frame_id |-> frame_id, values |-> values, shape |-> shape]
    IN  [whole |-> {Item("whole", control, parameters)},
         misshapen |-> {Item("extra", control, Append(parameters, 7))}
             \cup {Item("cut", control + 2, SubSeq(parameters, 1, n)) : n \in 0 .. (Len(parameters) - 1)}]

NcpSends(shapes, cost) ==
    \/ /\ happenings + cost <= MaxHappenings
       /\ happenings' = happenings + cost
       /\ \E item \in shapes.whole : line' = Append(line, item)
    \/ /\ happenings + cost + 1 <= MaxHappenings
       /\ happenings' = happenings + cost + 1
       /\ \E item \in shapes.misshapen : line' = Append(line, item)

\* What the NCP may answer: its own versions, or a reply to the command.
NcpValues(command) ==
    IF command = Version THEN {<<ncp_version, ncp_stack_type, 29760>>} ELSE Replies[command]

NcpAnswers ==
    /\ owed # <<>>
    /\ LET q == Head(owed) IN
         \E values \in NcpValues(q.command) :
            NcpSends(NcpShapes(q.token, q.format, q.sequence, 128, q.command.id, values,
                               NcpParameters(q.command.response, values)), 0)
    /\ owed' = Tail(owed)
    /\ UNCHANGED <<corrVars, connecting, version, taskVars, hostVars, ncp_version, ncp_stack_type,
                   ncp_widths, historyVars, issued>>

\* Callbacks come once the NCP has agreed on its version, behind the answer that says so; their
\* sequence is the NCP's own: here the worst one, that of the pending command.
NcpCallsBack ==
    /\ issued > 0 /\ (asked.command = Version => asked.values[1] = ncp_version)
    /\ ~\E i \in 1 .. Len(owed) : owed[i].command = Version
    /\ \E e \in Events :
          LET sequence == IF pending # <<>> THEN pending[1].sequence ELSE 0
              parameters == IF e.frame_id \in KnownCallbacks
                            THEN NcpParameters(CallbackLayout(e.frame_id), e.values) ELSE e.values
          IN  NcpSends(NcpShapes(0, "Extended", sequence, 144, e.frame_id, e.values, parameters), 1)
    /\ UNCHANGED <<corrVars, connecting, version, taskVars, hostVars, owed, ncp_version,
                   ncp_stack_type, ncp_widths, historyVars, issued>>

-----------------------------------------------------------------------------
(* command, up to its first await *)

Return(r) == pc' = "idle" /\ op' = "none" /\ result' = r

HeaderFormat(command) ==
    IF command = Version /\ ~initial_version_sent THEN "Legacy" ELSE "Extended"

\* The slot of the correlator is taken before the command is encoded, and stays taken when the
\* encoding is refused.
Send(command, values) ==
    LET format == HeaderFormat(command)
        header == write_header(next_sequence_number, command.id, format)
        body == encode(command.request, values, version)
        bytes == header.bytes \o body.bytes
        refusal == IF ~is_available(command, version) THEN "UnsupportedCommand"
                   ELSE IF begin_refused THEN "SequenceMismatch" ELSE "none"
        failure == IF header.error # "none" THEN header.error
                   ELSE IF body.error # "none" THEN body.error
                   ELSE IF Len(bytes) > MAX_FRAME_LENGTH THEN "FrameTooLong" ELSE "none"
    IN
    /\ pc = "idle"
    /\ issued' = issued + 1
    /\ asked' = [command |-> command, values |-> values, token |-> issued']
    /\ \/ /\ refusal # "none"
          /\ Return(Returned(refusal))
          /\ UNCHANGED <<corrVars, initial_version_sent, pending_format, owed, received, refused>>
       \/ /\ refusal = "none" /\ begin(command.id)
          /\ pending_format' = <<format>>
          /\ \/ /\ failure # "none"
                /\ Return(Returned(failure))
                /\ refused' = TRUE
                /\ UNCHANGED <<initial_version_sent, owed, received>>
             \/ /\ failure = "none"
                /\ initial_version_sent' = (initial_version_sent \/ format = "Legacy")
                /\ pc' = "pump" /\ op' = "command" /\ result' = Returned("Pending")
                /\ owed' = Append(owed, [command |-> command, token |-> issued', format |-> format,
                                         sequence |-> next_sequence_number])
                /\ received' = [command |-> command, values |-> values, bytes |-> bytes]
                /\ UNCHANGED refused
    /\ UNCHANGED <<version, chunk, response, callbacks, line, ncp_version, ncp_stack_type,
                   ncp_widths, taken, dispatched>>

-----------------------------------------------------------------------------
(* pump_until, consume and dispatch *)

PumpDone == IF op = "command" THEN response # <<>> ELSE callbacks # <<>>

Read ==
    /\ pc = "pump" /\ ~PumpDone /\ line # <<>>
    /\ \E n \in 1 .. MaxChunk :
          /\ n <= Len(line)
          /\ chunk' = SubSeq(line, 1, n)
          /\ line' = SubSeq(line, n + 1, Len(line))
    /\ pc' = "dispatch"
    /\ UNCHANGED <<corrVars, connecting, version, op, asked, result, hostVars, owed, ncp_version,
                   ncp_stack_type, ncp_widths, historyVars, boundVars>>

\* A callback is decoded for the version in use at that moment; one that does not decode is logged
\* and dropped.
FileCallback(frame, item) ==
    LET decoded == decode_callback(frame.frame_id, frame.parameters, version) IN
    /\ callbacks' = IF decoded.error # "none" THEN callbacks
                    ELSE Append(callbacks, [frame_id |-> decoded.frame_id, values |-> decoded.values,
                                            early |-> connecting # "up"])
    /\ dispatched' = IF connecting = "up" THEN Append(dispatched, item) ELSE dispatched
    /\ UNCHANGED <<response, pending_format>>

dispatch ==
    /\ pc = "dispatch"
    /\ LET item == Head(chunk)
           frame == parse(item.bytes, IF pending_format = <<>> THEN "Extended" ELSE pending_format[1])
       IN  \/ /\ frame.error # "none"
              /\ UNCHANGED <<corrVars, response, callbacks, pending_format, dispatched>>
           \/ /\ frame.error = "none" /\ Classified(frame) = "Response"
              /\ classify(frame)
              /\ response' = <<[parameters |-> frame.parameters, from |-> item]>>
              /\ pending_format' = <<>>
              /\ UNCHANGED <<callbacks, dispatched>>
           \/ /\ frame.error = "none" /\ Classified(frame) = "Callback"
              /\ classify(frame)
              /\ FileCallback(frame, item)
           \/ /\ frame.error = "none" /\ Classified(frame) = "Stale"
              /\ classify(frame)
              /\ UNCHANGED <<response, callbacks, pending_format, dispatched>>
    /\ chunk' = Tail(chunk)
    /\ pc' = IF chunk' = <<>> THEN "pump" ELSE "dispatch"
    /\ UNCHANGED <<connecting, version, op, asked, result, initial_version_sent, ncpVars, taken,
                   received, refused, boundVars>>

Answered ==
    /\ pc = "pump" /\ op = "command" /\ response # <<>>
    /\ LET decoded == decode_response(asked.command, response[1].parameters, version) IN
       Return(IF decoded.error # "none" THEN Returned(decoded.error)
              ELSE [error |-> "none", values |-> decoded.values, from |-> response[1].from])
    /\ response' = <<>>
    /\ UNCHANGED <<corrVars, connecting, version, chunk, asked, callbacks, initial_version_sent,
                   pending_format, ncpVars, historyVars, boundVars>>

PollDone ==
    /\ pc = "pump" /\ op = "poll" /\ callbacks # <<>>
    /\ taken' = taken \o callbacks /\ callbacks' = <<>>
    /\ Return(Returned("none"))
    /\ UNCHANGED <<corrVars, connecting, version, chunk, asked, response, initial_version_sent,
                   pending_format, ncpVars, dispatched, received, refused, boundVars>>

TimeOut ==
    /\ pc = "pump" /\ ~PumpDone
    /\ \/ op = "command" /\ time_out /\ Return(Returned("Timeout"))
       \/ op = "poll" /\ Return(Returned("none")) /\ UNCHANGED corrVars
    /\ UNCHANGED <<connecting, version, chunk, asked, hostVars, ncpVars, historyVars, boundVars>>

-----------------------------------------------------------------------------
(* connect, and the application *)

STACK_TYPE_MESH == 2

\* negotiate looks at the stack type first, and offers again what the NCP runs.
Offered == result.error = "none" /\ result.values[2] = STACK_TYPE_MESH /\ is_supported(result.values[1])

ConnectOffers ==
    /\ connecting = "start" /\ Send(Version, <<PREFERRED>>) /\ connecting' = "first"
    /\ UNCHANGED happenings

ConnectAgrees ==
    /\ connecting = "first" /\ Offered /\ result.values[1] # PREFERRED
    /\ Send(Version, <<result.values[1]>>) /\ connecting' = "second"
    /\ UNCHANGED happenings

ConnectReturns ==
    /\ pc = "idle"
    /\ LET agreed == \/ connecting = "first" /\ Offered /\ result.values[1] = PREFERRED
                     \/ connecting = "second" /\ result.error = "none"
                          /\ result.values[1] = asked.values[1]
       IN  \/ agreed /\ connecting' = "up" /\ version' = result.values[1]
           \/ /\ ~agreed /\ ((connecting = "first" /\ ~Offered) \/ connecting = "second")
              /\ connecting' = "failed" /\ UNCHANGED version
    /\ UNCHANGED <<corrVars, taskVars, hostVars, ncpVars, historyVars, boundVars>>

AppCommands ==
    /\ connecting = "up" /\ happenings < MaxHappenings
    /\ happenings' = happenings + 1
    /\ \E r \in IF happenings < 2 THEN Requests ELSE LateRequests : Send(r.command, r.values)
    /\ UNCHANGED connecting

\* A poll that has nothing to find times out and changes nothing, so it is left out.
AppPolls ==
    /\ connecting = "up" /\ pc = "idle" /\ (line # <<>> \/ callbacks # <<>>)
    /\ pc' = "pump" /\ op' = "poll"
    /\ UNCHANGED <<corrVars, connecting, version, chunk, asked, result, hostVars, ncpVars,
                   historyVars, boundVars>>

SessionInit ==
    /\ CorrInit
    /\ connecting = "start" /\ version = PREFERRED
    /\ pc = "idle" /\ op = "none" /\ chunk = <<>>
    /\ asked = NothingAsked /\ result = Returned("none")
    /\ response = <<>> /\ callbacks = <<>> /\ initial_version_sent = FALSE /\ pending_format = <<>>
    /\ line = <<>> /\ owed = <<>>
    /\ ncp_version \in NcpVersions /\ ncp_stack_type \in StackTypes
    /\ ncp_widths = NcpWidths(ncp_version)
    /\ taken = <<>> /\ dispatched = <<>>
    /\ received = [command |-> Version, values |-> <<PREFERRED>>, bytes |-> <<>>]
    /\ refused = FALSE
    /\ happenings = 0 /\ issued = 0

SessionNext ==
    \/ ConnectOffers \/ ConnectAgrees \/ ConnectReturns \/ AppCommands \/ AppPolls
    \/ Read \/ dispatch \/ Answered \/ PollDone \/ TimeOut
    \/ NcpAnswers \/ NcpCallsBack

SessionSpec == SessionInit /\ [][SessionNext]_sessionVars

-----------------------------------------------------------------------------
(* Correctness *)

\* A method is running exactly when the task is not idle, and what it keeps has its type.
SessionTypeOK ==
    /\ connecting \in {"start", "first", "second", "up", "failed"}
    /\ pc \in {"idle", "pump", "dispatch"} /\ op \in {"none", "command", "poll"}
    /\ pc = "idle" <=> op = "none"
    /\ pc = "dispatch" <=> chunk # <<>>
    /\ Len(response) <= 1 /\ Len(pending) <= 1
    /\ \A i \in 1 .. Len(pending) : pending[i].sequence \in 0 .. (SEQUENCE_SPACE - 1)

\* A command that returns Ok returns the very values the NCP answered with, at every version, and
\* an answer with a byte missing or one too many is refused instead of read as something plausible
\* (ncp.rs:323-336, version.rs:18-20); as long as no command has failed between begin and the write,
\* after which a late answer may be kept for the next command, whatever that is.
AnswersMeanWhatTheNcpSaid ==
    pc = "idle" /\ result.from.of # 0 /\ ~refused =>
        result.from.shape = "whole" /\ result.values = result.from.values

\* Whatever command goes out, the NCP reads from its bytes the values the caller gave: the widths of
\* tag and flags are those of the version the NCP runs, and a list is sent whole or not at all
\* (codec.rs:199-203, command.rs:498-501).
NcpReadsWhatWasMeant ==
    received.bytes # <<>> /\ connecting = "up" =>
        LET skip == IF received.bytes[3] = 0 THEN 3 ELSE 5 IN
        SubSeq(received.bytes, skip + 1, Len(received.bytes)) =
            NcpParameters(received.command.request, received.values)

\* What a callback dispatched with the negotiated version is to the application: the NCP's values,
\* whatever bytes follow them; nothing when it is truncated; its bytes when its id is unknown.
Meaning(item) ==
    IF item.frame_id \notin KnownCallbacks
    THEN <<[frame_id |-> item.frame_id, values |-> SubSeq(item.bytes, 6, Len(item.bytes))]>>
    ELSE IF item.shape = "cut" THEN <<>>
    ELSE <<[frame_id |-> item.frame_id,
            values |-> IF ncp_widths.tag = 1 /\ item.frame_id = MESSAGE_SENT_HANDLER
                       THEN [item.values EXCEPT ![10] = @ % 256] ELSE item.values]>>

\* Callbacks reach the application in order, each once, with the values the NCP sent, between
\* answers, stale answers and truncated frames (ncp.rs:17-23, callback.rs:114-121).
CallbacksMeanWhatTheNcpSaid ==
    LET handed == SelectSeq(taken \o callbacks, LAMBDA c : ~c.early) IN
    [i \in 1 .. Len(handed) |-> [frame_id |-> handed[i].frame_id, values |-> handed[i].values]]
        = FlattenSeq([i \in 1 .. Len(dispatched) |-> Meaning(dispatched[i])])

\* The sequence byte wraps.  A command is answered by its own answer, or else by one to the same
\* command a whole number of wraps ago (correlation.rs:156), as long as no command has failed between
\* begin and the write.
ForeignAnswersAreWholeWrapsOld ==
    pc = "idle" /\ result.from.of # 0 /\ ~refused =>
        /\ (asked.token - result.from.of) % SEQUENCE_SPACE = 0
        /\ result.from.frame_id = asked.command.id

\* Between commands the correlator is free, so that the next one is not refused, unless an earlier
\* command failed between begin and the write (ncp.rs:276-288).
SlotIsFreeUnlessRefused == pc = "idle" /\ pending # <<>> => refused
=============================================================================
