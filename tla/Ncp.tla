-------------------------------- MODULE Ncp --------------------------------
(***************************************************************************)
(* The runtime, ncp.rs: one task that owns the ASH connection and the      *)
(* correlator and runs connect, reset, command and poll one at a time.     *)
(*                                                                         *)
(* The task is split where the code awaits the transport: a write, or a    *)
(* read under a deadline.  pc names the await (or the point of the loop)   *)
(* the task is at, op the public method that is running:                   *)
(*                                                                         *)
(*   idle      no method is running                                        *)
(*   retry     reset, at the top of its loop                               *)
(*   write     begin_reset's or send_data's frame is being written         *)
(*   pump      pump_until: done check, then read until the deadline        *)
(*   consume   the frames of one read are being processed, in `chunk`      *)
(*   reply     consume awaits the write of what on_frame returned          *)
(*                                                                         *)
(* The frames a read returns are already decoded.  The NCP and the line    *)
(* are external: the line is in order and loses nothing (AshLink is about  *)
(* loss), but a read or a write may fail, the NCP may answer late, may     *)
(* report an ERROR and may restart on its own.                             *)
(***************************************************************************)
EXTENDS AshConnection, Correlator

CONSTANTS
    Commands,       \* the commands the application issues
    NcpVersions,    \* the EZSP versions the NCP may run
    MaxCommands,    \* calls of command, connect's own included
    MaxCalls,       \* calls of reset and poll together, connect's own reset included
    MaxCallbacks,   \* callbacks the NCP sends
    MaxMishaps,     \* transport reads and writes that fail, calls the application drops, and
                    \* ERROR frames, restarts and bursts of line noise from the NCP, together
    MaxChunk        \* frames one read returns at most

ASSUME NcpAssumption ==
    /\ {MaxCommands, MaxCalls, MaxCallbacks, MaxMishaps} \subseteq Nat
    /\ MaxChunk \in Nat \ {0}
    /\ Commands \subseteq {"version", "short", "long", "huge", "absent"}
    /\ NcpVersions \subseteq {"preferred", "older", "unsupported"}
    /\ FrameIds = {"version", "short", "long", "huge", "event", "invalid", "misread"}

VARIABLES
    pc, op, chunk, tries,   \* the task
    asked,                  \* the call of command in progress, or the last one
    result,                 \* what the last method returned
    connecting,             \* how far connect has come
    version,                \* Ncp::version
    callbacks, response, initial_version_sent, pending_format,
    line,                   \* frames on their way to the host
    ncp_tx, ncp_rx, owed, ncp_boot, ncp_version, ncp_failed,
    accepted, taken,        \* history: callbacks on_frame took, and those handed to the caller
    restart,                \* history: the NCP restarted during the current command, and said so
    issued, resets, polls, events, faults, surprises

taskVars == <<pc, op, chunk, tries, asked, result, connecting, version>>
hostVars == <<callbacks, response, initial_version_sent, pending_format>>
ncpVars == <<line, ncp_tx, ncp_rx, owed, ncp_boot, ncp_version, ncp_failed>>
historyVars == <<accepted, taken, restart>>
boundVars == <<issued, resets, polls, events, faults, surprises>>
ncpAllVars == <<connVars, corrVars, taskVars, hostVars, ncpVars, historyVars, boundVars>>

-----------------------------------------------------------------------------
(* EZSP frames *)

Formats == {"Legacy", "Extended"}
Versions == {"preferred", "older", "unsupported", "none"}

\* token says which call of command a frame belongs to, or which callback it is; v is the body of
\* a version command or of its answer.
Ezsp(kind, format, sequence, frame_id, token, v) ==
    [kind |-> kind, format |-> format, sequence |-> sequence, frame_id |-> frame_id,
     token |-> token, version |-> v]

EzspFrames ==
    [kind : Kinds, format : Formats, sequence : Sequence \cup (0 .. MaxCallbacks),
     frame_id : FrameIds, token : (0 .. MaxCommands) \cup (0 .. MaxCallbacks),
     version : Versions]

\* What ASH carries here.
ASSUME EzspPayloadAssumption == EzspFrames \subseteq Payload

\* A frame read with the wrong header layout keeps its sequence and control byte and yields
\* another frame id.
parse(frame, format) ==
    IF frame.format = format THEN frame ELSE [frame EXCEPT !.frame_id = "misread"]

\* ash::encode refuses the frame: a "long" command fits EZSP's 218 bytes and not ASH's 133.
Unencodable(out) == out.kind = "Data" /\ out.payload.frame_id = "long"

Rejected(recoverable) == [kind |-> "Rejected", recoverable |-> recoverable]

NothingAsked == [frame_id |-> "version", desired |-> "none", token |-> 0]
Returned(kind) == [kind |-> kind, answers |-> 0, version |-> "none"]

-----------------------------------------------------------------------------
(* The NCP taking what the host wrote, external *)

\* What the NCP says to a command, in the state of its version negotiation.
NcpReply(c) ==
    IF c.frame_id = "version" /\ (ncp_boot = "fresh" => c.format = "Legacy")
    THEN Ezsp("Response", c.format, c.sequence, "version", c.token, ncp_version)
    ELSE IF ncp_boot = "set" /\ c.format = "Extended"
    THEN Ezsp("Response", "Extended", c.sequence, c.frame_id, c.token, "none")
    ELSE Ezsp("Response", c.format, c.sequence, "invalid", c.token, "none")

NcpBoot(c) ==
    IF c.frame_id # "version" THEN ncp_boot
    ELSE IF c.format = "Legacy" /\ ncp_boot # "fresh" THEN "offered"
    ELSE IF c.format = "Extended" /\ ncp_boot = "fresh" THEN "fresh"
    ELSE IF c.version = ncp_version THEN "set" ELSE "offered"

NcpTakesRst ==
    /\ line' = Append(line, RstAck)
    /\ ncp_tx' = 0 /\ ncp_rx' = 0 /\ owed' = <<>>
    /\ ncp_boot' = "fresh" /\ ncp_failed' = FALSE
    /\ UNCHANGED ncp_version

NcpTakesData(f) ==
    \/ /\ ~ncp_failed /\ f.frame_num = ncp_rx
       /\ ncp_rx' = next_sequence(ncp_rx)
       /\ owed' = Append(owed, NcpReply(f.payload))
       /\ ncp_boot' = NcpBoot(f.payload)
       /\ line' = Append(line, Ack(ncp_rx'))
       /\ UNCHANGED <<ncp_tx, ncp_version, ncp_failed>>
    \/ /\ ~ncp_failed /\ f.frame_num # ncp_rx
       /\ line' = Append(line, IF f.retransmit THEN Ack(ncp_rx) ELSE Nak(ncp_rx))
       /\ UNCHANGED <<ncp_tx, ncp_rx, owed, ncp_boot, ncp_version, ncp_failed>>
    \/ ncp_failed /\ UNCHANGED ncpVars

NcpTakes(out) ==
    \/ out.kind = "Rst" /\ NcpTakesRst
    \/ out.kind = "Data" /\ NcpTakesData(out)
    \/ out.kind \in {"Ack", "Nak"} /\ UNCHANGED ncpVars

-----------------------------------------------------------------------------
(* Returning from a method *)

Return(res) ==
    /\ pc' = "idle" /\ op' = "none" /\ chunk' = <<>> /\ tries' = 0
    /\ result' = res

\* Mutant: a reset and a timeout are not told apart.
NoAnswerForgetsReset(outcome) ==
    \/ outcome # "Ok" /\ Return(Returned(outcome)) /\ UNCHANGED corrVars
    \/ outcome = "Ok" /\ time_out /\ Return(Returned("Timeout"))

\* The end of command when no response was taken; outcome is what pump_until returned.
NoAnswer(outcome) ==
    \/ /\ ~is_connected
       /\ on_ncp_reset
       /\ Return(Returned(IF pending # <<>> THEN "NcpReset"
                          ELSE IF outcome # "Ok" THEN outcome ELSE "Timeout"))
    \/ is_connected /\ outcome # "Ok" /\ Return(Returned(outcome)) /\ UNCHANGED corrVars
    \/ is_connected /\ outcome = "Ok" /\ time_out /\ Return(Returned("Timeout"))

\* pump_until ended without done: with an error, or with "Ok" at the deadline.  reset tries again
\* either way.
PumpEnds(outcome) ==
    /\ UNCHANGED <<connVars, hostVars, asked, connecting, version>>
    /\ \/ /\ op = "reset"
          /\ pc' = "retry" /\ tries' = tries + 1 /\ chunk' = <<>>
          /\ UNCHANGED <<corrVars, op, result>>
       \/ op = "command" /\ NoAnswer(outcome)
       \/ op = "poll" /\ Return(Returned(outcome)) /\ UNCHANGED corrVars

-----------------------------------------------------------------------------
(* reset *)

StartReset ==
    /\ pc = "idle" /\ resets + polls < MaxCalls
    /\ pc' = "retry" /\ op' = "reset" /\ tries' = 0
    /\ resets' = resets + 1
    /\ UNCHANGED <<connVars, corrVars, chunk, asked, result, version, hostVars, ncpVars,
                   historyVars, issued, polls, events, faults, surprises>>

ResetAttempt ==
    /\ pc = "retry"
    /\ \/ /\ tries = MAX_RESET_ATTEMPTS
          /\ Return(Returned("ResetFailed"))
          /\ UNCHANGED connVars
       \/ /\ tries < MAX_RESET_ATTEMPTS
          /\ begin_reset
          /\ \/ outbound' = Rst /\ pc' = "write" /\ UNCHANGED <<op, chunk, tries, result>>
             \/ outbound' = Nothing /\ Return(Returned("ResetFailed"))
    /\ UNCHANGED <<corrVars, asked, connecting, version, hostVars, ncpVars, historyVars, boundVars>>

-----------------------------------------------------------------------------
(* command, up to its first await *)

\* Mutant: every version command goes out legacy.
FormatAlwaysLegacy(frame_id) == IF frame_id = "version" THEN "Legacy" ELSE "Extended"

HeaderFormat(frame_id) ==
    IF frame_id = "version" /\ ~initial_version_sent THEN "Legacy" ELSE "Extended"

\* Mutant: a format left behind by an earlier command is kept.
RememberFirstFormat(format) ==
    pending_format' = IF pending_format = <<>> THEN <<format>> ELSE pending_format

RememberFormat(format) == pending_format' = <<format>>

\* "absent" is a command the negotiated version does not have, "huge" one whose encoding fails or
\* exceeds MAX_FRAME_LENGTH.
StartCommand(frame_id, desired) ==
    LET format == HeaderFormat(frame_id)
        token == issued + 1 IN
    /\ pc = "idle" /\ issued < MaxCommands
    /\ issued' = token
    /\ asked' = [frame_id |-> frame_id, desired |-> desired, token |-> token]
    /\ restart' = "none"
    /\ \/ /\ frame_id = "absent"
          /\ Return(Returned("UnsupportedCommand"))
          /\ UNCHANGED <<connVars, corrVars, initial_version_sent, pending_format>>
       \/ /\ frame_id # "absent" /\ begin_refused
          /\ Return(Returned("SequenceMismatch"))
          /\ UNCHANGED <<connVars, corrVars, initial_version_sent, pending_format>>
       \/ /\ frame_id # "absent" /\ begin(frame_id)
          /\ RememberFormat(format)
          /\ \/ /\ frame_id = "huge"
                /\ Return(Returned("FrameTooLong"))
                /\ UNCHANGED <<connVars, initial_version_sent>>
             \/ /\ frame_id # "huge"
                /\ initial_version_sent' = (initial_version_sent \/ format = "Legacy")
                /\ send_data(Ezsp("Command", format, next_sequence_number, frame_id,
                                  token, desired))
                /\ \/ /\ outbound'.kind = "Data"
                      /\ pc' = "write" /\ op' = "command"
                      /\ result' = Returned("Pending")
                      /\ UNCHANGED <<chunk, tries>>
                   \/ /\ outbound'.kind # "Data"
                      /\ Return(Returned(outbound'.kind))
    /\ UNCHANGED <<version, callbacks, response, ncpVars, accepted, taken,
                   resets, polls, events, faults, surprises>>

-----------------------------------------------------------------------------
(* write_frame of the RST or of the command *)

Write ==
    /\ pc = "write"
    /\ \/ /\ ~Unencodable(outbound)
          /\ NcpTakes(outbound)
          /\ pc' = "pump"
          /\ UNCHANGED <<op, chunk, tries, result, faults>>
       \/ /\ Unencodable(outbound)
          /\ Return(Returned("TooLong"))
          /\ UNCHANGED <<ncpVars, faults>>
       \/ /\ ~Unencodable(outbound) /\ faults + surprises < MaxMishaps
          /\ faults' = faults + 1
          /\ NcpTakes(outbound) \/ UNCHANGED ncpVars
          /\ Return(Returned("Transport"))
    /\ UNCHANGED <<connVars, corrVars, asked, connecting, version, hostVars, historyVars,
                   issued, resets, polls, events, surprises>>

-----------------------------------------------------------------------------
(* pump_until *)

PumpDone ==
    \/ op = "reset" /\ is_connected
    \/ op = "command" /\ (response # <<>> \/ ~is_connected)
    \/ op = "poll" /\ callbacks # <<>>

ResetDone ==
    /\ op = "reset"
    /\ new_correlator
    /\ initial_version_sent' = FALSE
    /\ Return(Returned("Ok"))
    /\ UNCHANGED <<callbacks, response, pending_format, taken>>

\* The response is decoded as the answer to the command in progress; one with another layout may
\* or may not decode.
Answered ==
    /\ op = "command" /\ response # <<>>
    /\ response' = <<>>
    /\ LET r == response[1] IN
         \/ Return([kind |-> "Ok", answers |-> r.token, version |-> r.version])
         \/ r.frame_id # asked.frame_id /\ Return(Returned("Malformed"))
    /\ UNCHANGED <<corrVars, callbacks, initial_version_sent, pending_format, taken>>

Disconnected ==
    /\ op = "command" /\ response = <<>>
    /\ NoAnswer("Ok")
    /\ UNCHANGED <<hostVars, taken>>

PollDone ==
    /\ op = "poll"
    /\ taken' = taken \o callbacks
    /\ callbacks' = <<>>
    /\ Return(Returned("Ok"))
    /\ UNCHANGED <<corrVars, response, initial_version_sent, pending_format>>

PumpReturns ==
    /\ pc = "pump" /\ PumpDone
    /\ ResetDone \/ Answered \/ Disconnected \/ PollDone
    /\ UNCHANGED <<connVars, asked, connecting, version, ncpVars, accepted, restart, boundVars>>

PumpRead ==
    /\ pc = "pump" /\ ~PumpDone /\ line # <<>>
    /\ \E n \in 1 .. MaxChunk :
          /\ n <= Len(line)
          /\ chunk' = SubSeq(line, 1, n)
          /\ line' = SubSeq(line, n + 1, Len(line))
    /\ pc' = "consume"
    /\ UNCHANGED <<connVars, corrVars, op, tries, asked, result, connecting, version, hostVars,
                   ncp_tx, ncp_rx, owed, ncp_boot, ncp_version, ncp_failed, historyVars, boundVars>>

\* Mutant: the deadline is looked at between reads only, and a read waits for as long as it takes.
PumpTimeoutBetweenReads ==
    /\ pc = "pump" /\ ~PumpDone /\ line # <<>>
    /\ PumpEnds("Ok")
    /\ UNCHANGED <<ncpVars, historyVars, boundVars>>

PumpTimeout ==
    /\ pc = "pump" /\ ~PumpDone
    /\ PumpEnds("Ok")
    /\ UNCHANGED <<ncpVars, historyVars, boundVars>>

PumpReadFails ==
    /\ pc = "pump" /\ ~PumpDone /\ faults + surprises < MaxMishaps
    /\ faults' = faults + 1
    /\ PumpEnds("Transport")
    /\ UNCHANGED <<ncpVars, historyVars, issued, resets, polls, events, surprises>>

-----------------------------------------------------------------------------
(* consume and dispatch *)

\* Mutant: goes on with the chunk without looking whether there is more of it.
AfterFrameGoesOn(rest) == "consume"

AfterFrame(rest) == IF rest = <<>> THEN "pump" ELSE "consume"

Consume ==
    /\ pc = "consume"
    /\ LET f == Head(chunk) IN
         /\ IF f.kind = "Rejected" THEN on_decode_failure(f.recoverable) ELSE on_frame(f)
         /\ restart' = IF restart = "unseen" /\ f.kind = "RstAck" THEN "seen" ELSE restart
    /\ chunk' = Tail(chunk)
    /\ accepted' = IF received' # <<>> /\ received'[1].kind = "Callback"
                   THEN accepted \o received' ELSE accepted
    /\ pc' = IF outbound'.kind = "Nothing" THEN AfterFrame(Tail(chunk)) ELSE "reply"
    /\ UNCHANGED <<corrVars, op, tries, asked, result, connecting, version, hostVars, ncpVars,
                   taken, boundVars>>

\* Mutant: a callback that arrives while a command is outstanding is dropped.
DispatchDropsWhileBusy(frame) ==
    /\ classify(frame)
    /\ \/ /\ Classified(frame) = "Response"
          /\ response' = <<frame>> /\ pending_format' = <<>>
          /\ UNCHANGED callbacks
       \/ /\ Classified(frame) = "Callback"
          /\ callbacks' = IF pending = <<>> THEN Append(callbacks, frame) ELSE callbacks
          /\ UNCHANGED <<response, pending_format>>
       \/ Classified(frame) = "Stale" /\ UNCHANGED <<response, pending_format, callbacks>>
    /\ UNCHANGED initial_version_sent

\* Mutant: the format outlives the command it belonged to.
FileKeepsFormat(frame) ==
    /\ classify(frame)
    /\ \/ /\ Classified(frame) = "Response"
          /\ response' = <<frame>>
          /\ UNCHANGED callbacks
       \/ /\ Classified(frame) = "Callback"
          /\ callbacks' = Append(callbacks, frame)
          /\ UNCHANGED response
       \/ Classified(frame) = "Stale" /\ UNCHANGED <<response, callbacks>>
    /\ UNCHANGED <<initial_version_sent, pending_format>>

\* Files one parsed frame.
File(frame) ==
    /\ classify(frame)
    /\ \/ /\ Classified(frame) = "Response"
          /\ response' = <<frame>> /\ pending_format' = <<>>
          /\ UNCHANGED callbacks
       \/ /\ Classified(frame) = "Callback"
          /\ callbacks' = Append(callbacks, frame)
          /\ UNCHANGED <<response, pending_format>>
       \/ Classified(frame) = "Stale" /\ UNCHANGED <<response, pending_format, callbacks>>
    /\ UNCHANGED initial_version_sent

dispatch(payload) ==
    File(parse(payload, IF pending_format = <<>> THEN "Extended" ELSE pending_format[1]))

\* The reply is written before the payload is dispatched: when the write fails, the payload and
\* the rest of the chunk are gone.
Reply ==
    /\ pc = "reply"
    /\ \/ /\ ~Unencodable(outbound)
          /\ NcpTakes(outbound)
          /\ \/ received = <<>> /\ UNCHANGED <<corrVars, hostVars>>
             \/ received # <<>> /\ dispatch(received[1])
          /\ pc' = AfterFrame(chunk)
          /\ UNCHANGED <<connVars, op, chunk, tries, asked, result, connecting, version, faults>>
       \/ /\ Unencodable(outbound)
          /\ PumpEnds("TooLong")
          /\ UNCHANGED <<ncpVars, faults>>
       \/ /\ ~Unencodable(outbound) /\ faults + surprises < MaxMishaps
          /\ faults' = faults + 1
          /\ PumpEnds("Transport")
          /\ UNCHANGED ncpVars
    /\ UNCHANGED <<historyVars, issued, resets, polls, events, surprises>>

-----------------------------------------------------------------------------
(* connect, and the application behind it *)

ConnectStarts == connecting = "start" /\ StartReset /\ connecting' = "reset"

\* negotiate: the offer, and the second exchange when the NCP runs another supported version.
ConnectOffers ==
    /\ connecting = "reset" /\ result.kind = "Ok"
    /\ StartCommand("version", "preferred")
    /\ connecting' = "first"

ConnectAgrees ==
    /\ connecting = "first" /\ result.kind = "Ok" /\ result.version = "older"
    /\ StartCommand("version", "older")
    /\ connecting' = "second"

Negotiated == \/ connecting = "first" /\ result.kind = "Ok" /\ result.version = "preferred"
              \/ connecting = "second" /\ result.kind = "Ok" /\ result.version = "older"

ConnectReturns ==
    /\ pc = "idle"
    /\ \/ Negotiated /\ connecting' = "up" /\ version' = result.version
       \/ /\ ~Negotiated
          /\ \/ connecting \in {"reset", "first"} /\ result.kind # "Ok"
             \/ connecting = "first" /\ result.version = "unsupported"
             \/ connecting = "second"
          /\ connecting' = "failed"
          /\ UNCHANGED version
    /\ UNCHANGED <<connVars, corrVars, pc, op, chunk, tries, asked, result, hostVars, ncpVars,
                   historyVars, boundVars>>

AppResets == connecting = "up" /\ StartReset /\ UNCHANGED connecting

AppCommands ==
    /\ connecting = "up"
    /\ \E frame_id \in Commands :
          StartCommand(frame_id, IF frame_id = "version" THEN version ELSE "none")
    /\ UNCHANGED connecting

AppPolls ==
    /\ connecting = "up" /\ pc = "idle" /\ resets + polls < MaxCalls
    /\ pc' = "pump" /\ op' = "poll"
    /\ polls' = polls + 1
    /\ UNCHANGED <<connVars, corrVars, chunk, tries, asked, result, connecting, version, hostVars,
                   ncpVars, historyVars, issued, resets, events, faults, surprises>>

AppTakesCallbacks ==
    /\ connecting = "up" /\ pc = "idle" /\ callbacks # <<>>
    /\ taken' = taken \o callbacks
    /\ callbacks' = <<>>
    /\ UNCHANGED <<connVars, corrVars, taskVars, response, initial_version_sent, pending_format,
                   ncpVars, accepted, restart, boundVars>>

\* The application drops the future of command or poll where it awaits, as a timeout of its own
\* would: a write under way may or may not get through, what was read and not yet dispatched is
\* gone, and nothing tells the correlator.
AppDrops ==
    /\ connecting = "up" /\ op \in {"command", "poll"} /\ faults + surprises < MaxMishaps
    /\ faults' = faults + 1
    /\ \/ pc \in {"write", "reply"} /\ ~Unencodable(outbound) /\ NcpTakes(outbound)
       \/ pc \in {"write", "reply"} /\ UNCHANGED ncpVars
       \/ pc = "pump" /\ ~PumpDone /\ UNCHANGED ncpVars
    /\ Return(Returned("Dropped"))
    /\ UNCHANGED <<connVars, corrVars, asked, connecting, version, hostVars, historyVars,
                   issued, resets, polls, events, surprises>>

-----------------------------------------------------------------------------
(* The NCP on its own, external *)

NcpSends(frame) ==
    /\ line' = Append(line, Data(ncp_tx, ncp_rx, FALSE, frame))
    /\ ncp_tx' = next_sequence(ncp_tx)

NcpAnswers ==
    /\ owed # <<>>
    /\ NcpSends(Head(owed))
    /\ owed' = Tail(owed)
    /\ UNCHANGED <<connVars, corrVars, taskVars, hostVars, ncp_rx, ncp_boot, ncp_version, ncp_failed,
                   historyVars, boundVars>>

\* Callbacks are numbered from the NCP's own counter, which may equal a pending sequence, and come
\* after the answer that completes the negotiation (ncp.rs:94-96).
NcpCallsBack ==
    /\ ncp_boot = "set" /\ ~ncp_failed /\ events < MaxCallbacks
    /\ ~\E i \in 1 .. Len(owed) : owed[i].frame_id = "version"
    /\ events' = events + 1
    /\ NcpSends(Ezsp("Callback", "Extended", events, "event", events', "none"))
    /\ UNCHANGED <<connVars, corrVars, taskVars, hostVars, ncp_rx, owed, ncp_boot, ncp_version,
                   ncp_failed, historyVars, issued, resets, polls, faults, surprises>>

NcpFails ==
    /\ ~ncp_failed
    /\ line' = Append(line, ErrorFrame)
    /\ ncp_failed' = TRUE /\ owed' = <<>>
    /\ UNCHANGED <<ncp_tx, ncp_rx, ncp_boot, ncp_version>>

Noise ==
    /\ \E recoverable \in BOOLEAN : line' = Append(line, Rejected(recoverable))
    /\ UNCHANGED <<ncp_tx, ncp_rx, owed, ncp_boot, ncp_version, ncp_failed>>

NcpSurprises ==
    /\ connecting = "up" /\ faults + surprises < MaxMishaps
    /\ surprises' = surprises + 1
    /\ \/ NcpFails /\ UNCHANGED restart
       \/ NcpTakesRst /\ restart' = IF op = "command" THEN "unseen" ELSE restart
       \/ Noise /\ UNCHANGED restart
    /\ UNCHANGED <<connVars, corrVars, taskVars, hostVars, accepted, taken,
                   issued, resets, polls, events, faults>>

-----------------------------------------------------------------------------

NcpInit ==
    /\ Init
    /\ CorrInit
    /\ pc = "idle" /\ op = "none" /\ chunk = <<>> /\ tries = 0
    /\ asked = NothingAsked /\ result = Returned("None")
    /\ connecting = "start" /\ version = "preferred"
    /\ callbacks = <<>> /\ response = <<>>
    /\ initial_version_sent = FALSE /\ pending_format = <<>>
    /\ line = <<>> /\ ncp_tx = 0 /\ ncp_rx = 0 /\ owed = <<>>
    /\ ncp_boot = "fresh" /\ ncp_version \in NcpVersions /\ ncp_failed = FALSE
    /\ accepted = <<>> /\ taken = <<>> /\ restart = "none"
    /\ issued = 0 /\ resets = 0 /\ polls = 0 /\ events = 0 /\ faults = 0 /\ surprises = 0

\* Steps of a method in progress.
TaskStep ==
    \/ ResetAttempt \/ Write
    \/ PumpReturns \/ PumpRead \/ PumpTimeout \/ PumpReadFails
    \/ Consume \/ Reply

NcpNext ==
    \/ TaskStep
    \/ ConnectStarts \/ ConnectOffers \/ ConnectAgrees \/ ConnectReturns
    \/ AppResets \/ AppCommands \/ AppPolls \/ AppTakesCallbacks \/ AppDrops
    \/ NcpAnswers \/ NcpCallsBack \/ NcpSurprises

\* What a deadline bounds: reading, and what follows a read.  write_frame has none.
WaitStep == pc \notin {"write", "reply"} /\ TaskStep

\* A method in progress keeps being polled and its deadline passes.  Nothing is assumed of a write,
\* which may block for good.
NcpSpec == NcpInit /\ [][NcpNext]_ncpAllVars /\ WF_ncpAllVars(WaitStep)

-----------------------------------------------------------------------------
(* Correctness *)

\* The task is at a point of some method, and what it keeps has its type.
NcpTypeOK ==
    /\ pc \in {"idle", "retry", "write", "pump", "consume", "reply"}
    /\ op \in {"none", "reset", "command", "poll"}
    /\ pc = "idle" <=> op = "none"
    /\ pc = "consume" => chunk # <<>>
    /\ tries \in 0 .. MAX_RESET_ATTEMPTS
    /\ pending \in {<<>>} \cup {<<p>> : p \in Pending}
    /\ pending_format \in {<<>>} \cup {<<f>> : f \in Formats}
    /\ Len(response) <= 1
    /\ \A i \in 1 .. Len(in_flight) : in_flight[i].payload.kind = "Command"

\* A command that returns a response returns its own: "certainty about which frame answers which
\* command" (ncp.rs:11-15), however late the NCP answers earlier commands.
AnswersOwnCommand == result.answers # 0 => result.answers = asked.token

\* The same until the application resets the link, whatever the NCP does meanwhile, as long as no
\* read and no write has failed, no call was dropped and the numbers have not come round.
AnswersOwnCommandUntilReset ==
    faults = 0 /\ resets <= 1 /\ issued <= SEQUENCE_SPACE => AnswersOwnCommand

\* The same when the application has reset the link once, of an NCP that does not restart on its own.
AnswersOwnCommandAfterReset ==
    faults = 0 /\ surprises = 0 /\ resets <= 2 /\ issued <= SEQUENCE_SPACE => AnswersOwnCommand

\* "Callbacks are queued, not dropped" (ncp.rs:17-23): between frames, every callback ASH has
\* acknowledged was handed over or is queued, in order.
CallbacksAreKept ==
    LET Tokens(frames) == [i \in 1 .. Len(frames) |-> frames[i].token]
    IN  pc # "reply" /\ connecting = "up" => Tokens(taken \o callbacks) = Tokens(accepted)

\* The same, as long as no read and no write has failed and no call was dropped.
CallbacksAreKeptUnlessFault == faults = 0 => CallbacksAreKept

\* Until the application resets the link, a callback is read with the extended header the NCP sent
\* it with, also behind the legacy answer of the bootstrap, after commands that failed or were
\* dropped and between answers: it "is not silently parsed with the legacy header" (ncp.rs:91-96).
CallbacksAreReadAsSent ==
    connecting = "up" /\ resets = 1 =>
        \A i \in 1 .. Len(callbacks) : callbacks[i].frame_id = "event"

\* As long as a command is outstanding, the answer the NCP owes it, has sent or has had read is in
\* the header layout it will be parsed with, whatever an earlier command left behind (ncp.rs
\* pending_format).
OwnAnswerIsReadable ==
    LET Payloads(frames) ==
          {frames[i].payload : i \in {j \in 1 .. Len(frames) : frames[j].kind = "Data"}}
        InTransit == {owed[i] : i \in 1 .. Len(owed)} \cup Payloads(line) \cup Payloads(chunk)
    IN  \A f \in InTransit :
          (pending # <<>> /\ f.token = asked.token /\ f.kind = "Response")
              => pending_format = <<f.format>>

\* connect returns only once the NCP has agreed on a version, so the commands after it are
\* answered: the second exchange, and the legacy header used once (ncp.rs:140-198).
ConnectAgreesOnVersion ==
    connecting = "up" /\ resets = 1 /\ surprises = 0 => ncp_boot = "set" /\ version = ncp_version

\* A command that failed because the link went down is not reported as one that merely went
\* unanswered (ncp.rs:337-346).
LostLinkIsNotATimeout == pc = "idle" /\ result.kind = "Timeout" => is_connected

\* Unless a write blocks for good, every method returns: the deadline of pump_until and the attempts
\* of reset bound everything else (ncp.rs:225-252, 385-409).  write_frame has no deadline of its own
\* (ncp.rs:375-382): with hardware flow control a write that blocks hangs the method.
MethodsReturn == []<>(pc \notin {"write", "reply"}) => (pc # "idle" ~> pc = "idle")

\* "EzspError::NcpReset if the NCP resets while it is in flight" (ncp.rs:260): a command during
\* which the NCP restarted, and told the host so, does not return Timeout.
NcpResetIsReported == result.kind = "Timeout" => restart # "seen"
=============================================================================
