# rsezsp: a TLA+ model of the host side of ASH and EZSP

`rsezsp` drives a Silicon Labs Ember network co-processor (NCP) over a serial
port. This directory holds TLA+ modules translated from its source, TLC
configurations that check them on small instances, and proofs TLAPS checks for
every value of the constants. `PROJECT.json` maps every definition to the lines
it models, and lists the runs, mutants, findings, hazards and theorems.

Run a check with `tlc -config MCNcp.cfg MCNcp`, a proof with
`tlapm AshConnectionProofs.tla`.

## 1. Inventory

| Component | State | Operations | Hard part | What makes it correct |
|---|---|---|---|---|
| ASH connection, `ash/state.rs` | phase and reset attempts, next number to send and to expect, retransmit queue | `begin_reset`, `send_data`, `on_frame`, `on_decode_failure`, `retransmit_oldest` | 3-bit numbers that wrap; acknowledgements that are late, repeated or absent from the queue; frames in any state | the queue is a gap-free window, an acknowledgement has one reading, nothing is delivered twice or out of order |
| ASH codec and decoder, `ash/codec.rs`, `ash/frame.rs` | partial frame, escape flag, dropping flag | `encode`, `feed`, `push`, `finish`, `reset` | reads end anywhere; cancel, substitute and over-long input | decoding what was encoded gives it back however it is cut; one bad frame costs only itself |
| EZSP frame header, `ezsp/frame.rs` | none | `write_header`, `parse` | two layouts, and the reader must know which | a frame is read with the layout it was written with |
| EZSP reader and writer, `ezsp/codec.rs` | position | typed reads and writes | lengths | no read beyond the frame, all bytes accounted for |
| Commands and callbacks, `ezsp/command.rs`, `ezsp/callback.rs`, `ezsp/version.rs` | none | `encode`, `decode`, `is_available` | field widths that differ by version | layouts agree with the version in use |
| Correlator, `ezsp/correlation.rs` | the one outstanding command, the sequence counter | `begin`, `classify`, `time_out`, `on_ncp_reset` | late answers, duplicates, callbacks that reuse a sequence number | a frame answers the outstanding command or nothing |
| Runtime, `ncp.rs` | the connection, the decoder and the correlator; callbacks, parked response, header format, negotiated version | `connect`, `negotiate`, `reset`, `command`, `poll`, `take_callbacks` | every await: a deadline, a failing read or write, an NCP that answers late, fails or restarts | the answer belongs to the command, callbacks are kept, the error says what happened, every method returns |
| Startup example, `examples/startup.rs` | the checklist, the deadline of a wait | `main` and its helpers, in a fixed order | refusals, timeouts and callbacks in between; the host and the dongle time the join window separately | a PASS line is true, the order suits the dongle, every wait ends |
| Transport, `transport/` | the port | `read`, `write` | may fail or stay silent | thin wrappers over the operating system |

The runtime is one task: it calls the connection and the correlator
synchronously, and gives up control only at a read (under a deadline) and at a
write. There are no threads. The concurrency is with the NCP, which sends
callbacks when it likes, answers late, and may reset; and with time.

`ack_pending` and `nak_pending` of `Connection` are assigned and never read.
`AshError::OutOfSequence`'s comment (`ash/error.rs:80-84`) speaks of a NAK on a
gap; the code sends an ACK and says so at `ash/state.rs:236-240`.
`MAX_RETRANSMITS` is documented as the number of resends; the code counts the
first transmission too, so a frame is resent twice. The models follow the code.

## 2. Modules

| Module | Models | Extends |
|---|---|---|
| `AshConnection` | `Connection` | |
| `AshConnectionProofs` | its theorems | `AshConnection` |
| `AshCodec` | control byte, CRC, randomisation, stuffing, `encode` | |
| `AshDecoder` | `Decoder`, fed by a line that damages bytes | `AshCodec` |
| `ReliableChannel` | what ASH promises in one direction | |
| `AshLink` | the connection as `ncp.rs` drives it, the line, the NCP | `AshConnection`; instantiates `ReliableChannel` twice |
| `AshLinkProofs` | its theorems | `AshLink`, `AshConnectionProofs` |
| `Correlator` | `Correlator` | |
| `CorrelatorProofs` | its theorem | `Correlator` |
| `Ncp` | `Ncp`, split at its awaits | `AshConnection`, `Correlator` |
| `NcpProofs` | its theorems | `Ncp`, `AshConnectionProofs`, `CorrelatorProofs` |
| `NcpConnectProofs` | theorems about the header layouts and `connect` | `NcpProofs` |
| `NcpAnswerProofs` | the theorem that `command` returns its own answer | `NcpConnectProofs` |
| `EzspCodec` | `Reader`, `Writer`, version predicates, wire form of the types, frame header | |
| `EzspLayouts` | every command and callback: its id and fields | `EzspCodec` |
| `EzspSession` | `connect`, `command`, `poll` and `dispatch` on bytes | `EzspLayouts`, `Correlator` |
| `EzspSessionProofs` | its theorems | `EzspSession` |
| `Startup` | `examples/startup.rs` over what `Ncp` promises | |
| `StartupProofs` | its theorems | `Startup` |
| `MCAshConnection`, `MCAshLink`, `MCAshDecoder`, `MCNcp`, `MCEzspSession`, `MCStartup` | constants for TLC | the module each names |

**AshConnection.** The fields are the variables; `ConnectionState` is `phase`
with `attempts` for the payload of `Resetting`. Each method is one action, since
none awaits. What a call returns is kept in `outbound` (a frame, `Nothing`, or
the error of `send_data`) and `received` (the payload, an option). `Next` lets
the caller make any call with any frame at any time, which is what the type
allows and what its own documentation sets out to withstand.

**AshLink.** The host writes what the connection returns; there is no host
timer, because `ncp.rs` never calls `retransmit_oldest`. The line loses or
garbles at most `MaxFaults` frames and keeps their order. The NCP is external
and minimal: it takes frames in sequence, answers a gap or a garbled frame with
a NAK, re-acknowledges a resent duplicate, and resends what is outstanding on a
NAK and when the line has gone quiet. `CleanReset = TRUE` says that a reset
begins on a silent line; `FALSE` lets frames of the old session cross the RST,
which is what the run `ash_crossed_reset` is about. In both cases a RST or its
RSTACK is gone before the host sends the next RST: `RESET_TIMEOUT` (5 s) outlasts
the round trip.

**AshCodec** and **AshDecoder.** The only modules about bytes, and the bytes are
real: the code's own CRC and LFSR, its reserved bytes and control masks. `push`
is one action per byte; since a read may end anywhere and only `Decoder::reset`
happens between reads, that is every way of cutting the stream. The NCP writes
frames of every kind, among them ones whose control byte, data and CRC need
escaping, two malformed ones (a RSTACK without its body, an unknown control
byte), and data fields longer than the limit, one of which `encode` lets out. The line loses, alters or inserts bytes; `hit` and `noised` record which
frames that touched. In `AshLink` and `Ncp` the outcome of all this is one value:
a frame, or a rejected frame that is recoverable by NAK or not. One kind of
damage is beyond any decoder with this CRC, which has no final exclusive-or: a
frame whose delimiter is lost in front of a frame that begins with the control
byte 0, with a delimiter inserted behind that byte, is a frame with a good CRC.
No frame of the instance begins with 0.

**Correlator.** One action per method. A frame's `kind` merges the callback bit,
which `classify` looks at first, with the direction bit.

**Ncp.** `pc` is the await, or the point of the loop, the task is at, and `op`
the public method that runs. `command` up to its first await is one action
(`StartCommand`, all early returns included); `Write` is `write_frame`;
`PumpReturns`, `PumpRead`, `PumpTimeout` and `PumpReadFails` are the ways out of
the loop of `pump_until`; `Consume` is `on_frame` or `on_decode_failure` on one
frame of the read, and `Reply` the write of what it returned followed by
`dispatch`. When `on_frame` returns nothing to write it delivers nothing either,
so `Consume` needs no dispatch of its own. Commands are told apart by what
`command` does with them: `version`, an ordinary `short` one, a `long` one that
EZSP allows (218 bytes) and ASH refuses, a `huge` one EZSP refuses, and an
`absent` one the version lacks. A frame read with the wrong header layout keeps
its sequence and control byte and gets another frame id, `misread`. A callback
is taken to decode. `AppDrops` is the caller dropping the future of `command` or
`poll` at an await, with the write then under way done or not; it counts as a
fault, like a failing read or write, because the correlator stays busy in the
same way. `accepted`, `taken` and `restart` are history variables.

The external NCP answers a command after any delay, numbers callbacks from its
own counter (so that a callback's sequence may equal the outstanding one), sends
them only once a version is agreed and the answer that says so is out (as
`ncp.rs:94-96` states), and may report an ERROR or restart. Its version
negotiation is the one `ncp.rs:75-83` and `ncp.rs:140-152` describe: a legacy
`version` after the first makes it forget the agreement.

**EzspCodec** and **EzspLayouts.** A message is a sequence of values and its
layout a sequence of field kinds, so that each command and callback of the code
is one line: its id, the fields `encode` writes and the fields `decode` reads.
A kind is read and written as the code does it, the version deciding for
`status`, `tag` and `flags`. Bytes are real; a `u32` is a pair of 16-bit halves
because TLC's integers have 32 bits with a sign.

**EzspSession.** The runtime again, as far as bytes pass through it, over a link
that loses nothing. The NCP is external and lays fields out by its own table of
widths (`NcpWidths`, `NcpField`), not by the operators under test. It answers
after any delay, truncates a frame with the bit that says so, or appends a byte.
`refused` records a command that failed between `begin` and the write, which
leaves the correlator's slot taken; the properties about answers speak of
sessions without one (see section 3). A callback read before `connect` has returned
is decoded for `PREFERRED`, the version it will only agree on (marked `early`);
the property about callbacks speaks of the later ones.

**Startup.** `pc` is the call `main` is about to make and `Steps` their order;
the command line leaves some out. A command is one action, since `Ncp::command`
returns before the program goes on, and its result is one of the six ways that
method can end: it is answered (`Answered`), refused because another is outstanding
(`Busy`), runs into its deadline (`TimesOut`), errors with its slot still taken
(`TransportFails`), errors after its answer was read (`LeavesAnswer`), or takes an
answer that was left behind for its own (`Misanswered`, what `ncp_wrong_answer`
shows of `Ncp`). So the runtime's memory between two calls is state here too:
`pending` is the correlator's slot, `parked` the answer left behind, `late` the
commands that errored on their way to the dongle, which takes them in order, later
or never (`NcpTakesLate`). A poll may park a late answer (`Absorbs`), and may error
with the port alive (`PollFails`), which ends a wait at once. An answer taken for
another's is read by that command's layout, which only answers of one shape survive
(`ReadAs`). The history variable `unsaid` records what the checklist does not tell:
that `networkInit` or a `permitJoining` was given another's answer, that
`networkInit` was refused for no reason the example knows of, that a wait was cut
short. The dongle, the devices and the port are external and do what the example's
comments say of them: configuration is refused once the network is up, a stored
network is not resumed without a stack profile, a reboot forgets all but the
tokens, the window runs down while the host polls. `MaxIncidents` bounds callbacks
and mishaps together.

## 3. Runs

Passing:

| Run | Instance | States | Shows |
|---|---|---|---|
| `ash_connection` | the code's own constants 8 / 7 / 3 / 5, one payload | 15,349 | safety of the queue against any frame at any time |
| `ash_link` | modulus 3, window 2, 4 payloads each way, 2 faults, 2 resets | 319,816 | both directions implement `ReliableChannel`; the NCP's data arrives |
| `ash_decoder` | lengths 8 and 3 for 133 and 128, two frames of eleven kinds, 2 faults from 6 noise bytes | 1,044,091 | decoding undoes encoding; a damaged frame costs only itself |
| `ncp` | 3 commands, 2 resets or polls, 1 callback, 1 mishap, reads of up to 2 frames, 3 NCP versions | 682,914 | answers, callbacks, errors and termination of the runtime |
| `ezsp_session` | all 21 commands, 5 callbacks, NCP versions 12, 13, 14 and 19, 3 happenings, sequence numbers 0 and 1, frames up to 48 bytes | 3,129,459 | what command and callback mean survives the bytes, on both sides of the EZSP 14 change |
| `startup` | every command line, a window of 10 s, a wait of 5 s, polls of 5 s, 2 commands on their way, 3 incidents | 2,677,695 | what the example's PASS lines say is so, with the exceptions stated, and it ends |

Why the bounds are enough. The connection's behaviour depends on a payload in no
way, so one is enough, and the numbers are the code's. In the link the modulus is
3 so that four payloads wrap it, with the window one short of it as in the code;
two faults lose a frame and the acknowledgement of its resend, and two resets
give an old and a new session. Two frames and two
faults in the decoder put damage on either side of a delimiter, and the scaled
lengths make two frames run together exceed the limit. In the runtime two of the three commands are
spent on the longest negotiation, or one on the short one and two by the
application: a command, its late answer, and the command that might take it. One
mishap at a time keeps the cause of a failure apart from its effect.

A session's layouts do not depend on what came before, so each command needs to
go out once per version; three happenings are a command, a second one and a
misshapen frame or a callback between them. Two sequence numbers let three
commands wrap them, so that an answer one wrap late does meet the same command.
The limits 48 and 30 put payloads on both sides of the frame's and the list's
bound; one payload fits at version 13 and not at version 14. Versions 12 and 13,
13 and 14 are the edges; 19 is agreed at once, the others in two rounds. In the
startup two polls make a window and one a wait, so that a callback may come in the
first, the last or none. Three incidents, callbacks and mishaps together, are an
errored command, a second mishap while its answer is on the way or already given
to another command, and a callback; or an errored command, a cut wait and a failed
command that was to undo the first. `StartupProofs` has no such bound.

Violations, each a line of the repository against what the code does (quoted in
`PROJECT.json`, `findings`):

| Run | Property | What happens |
|---|---|---|
| `ash_lost_frame` | `HostDataArrives` | a lost DATA frame is never resent: there is no timeout |
| `ash_crossed_reset` | `AcknowledgedWasReceived` | an old frame accepted while resetting is acknowledged into the new session |
| `ncp_wrong_answer` | `AnswersOwnCommand` | after a transport error, a parked response answers the wrong command |
| `ncp_lost_callback` | `CallbacksAreKept` | a failed write of the acknowledgement drops the callback |
| `ncp_reset_unreported` | `NcpResetIsReported` | a restart during a command is reported as a timeout |
| `startup_overstates` | `JoinIsAnArrival` | a device that leaves is reported as a passed device join |

The passing run `ncp` checks the same promises where they hold: as long as no
read and no write has failed and no call was dropped
(`CallbacksAreKeptUnlessFault`) and, for the answers, up to the first reset by the
application, whatever the NCP does (`AnswersOwnCommandUntilReset`), or up to the
second of an NCP that does not restart on its own (`AnswersOwnCommandAfterReset`);
both for at most as many commands as there are sequence numbers. Beyond that they
are false. A command that went unanswered SEQUENCE_SPACE commands ago
has the number of the present one; and a later reset may complete on what an
earlier one left on the line (below).

Other behaviours a reader of the code should know of. The models contain them,
and the properties that pass exclude them by name or are silent about them:

- A failed link still resends: a NAK after the failure takes the next frame of
  the queue (`ash/state.rs:209-212`).
- `encode` accepts data fields of 129 and 130 bytes, which a decoder refuses
  (`ash/codec.rs:105`).
- When a `version` times out and a reset follows, `pending_format` is still the
  legacy one and the next callback is read with it (`ncp.rs:345`);
  `CallbacksAreReadAsSent` holds up to the first reset by the application.
- A reset that had to repeat its RST returns at the first RSTACK and leaves the
  second on the line (`ncp.rs:239`). The next reset takes that for its own, returns
  before the NCP has seen its RST, and starts the correlator at 0 while old answers
  are still coming. With two such resets after `connect`'s, or one and an NCP that
  restarts on its own, a late `version` answer finds a command with its number and
  frame id, though no read fails and no call is dropped. TLC finds this when
  `resets` is left out of `AnswersOwnCommandAfterReset` and `MaxCalls` is 3.
- A command refused by its encoding or by ASH leaves the correlator busy
  (`ncp.rs:281`); every later command is refused until a reset, except after an
  answer that is late by whole wraps of the sequence counter: a poll takes it for
  the answer of the refused command, frees the slot and parks it, and the next
  command, whatever it is, returns it. `EzspSession` reaches this with four
  happenings; its run has three, and the properties exclude it by `refused`.
- A callback in the read that brings the last `version` answer is decoded for
  `PREFERRED` (`ncp.rs:130`).
- A write has no deadline (`ncp.rs:375-382`): while the port takes no bytes, with
  flow control for instance, a method stays in it and its own deadline is not
  looked at. `MethodsReturn` has as its premise that no write blocks for good.
- The example passes `networkInit` with "no network" on any failing status
  (`startup.rs:206-209`). If the stack profile was refused before, the dongle
  refuses to resume a network it has, and the line is wrong; `SummaryIsTrue`
  asserts it only when the configuration passed too, and of a dongle that has no
  further reason to refuse.
- A command that errored leaves its slot or its answer behind (`ncp.rs:344`,
  `401`, `412-423`), and a later one may be given that answer: `networkInit`, the
  `permitJoining` that opens and the one that closes can pass on it without the
  dongle having done anything yet. `SummaryIsTrue` and
  `WindowIsShutAfterTheWait` name these through `unsaid`; each of the exceptions is
  needed, TLC finds a violation without it. The other lines need none: the answers
  of `getEui64`, `clearTransientLinkKeys` and `sendUnicast` have a shape of their
  own, and an array passes only if all its commands did.
- Any error of `poll` ends the wait for a device (`startup.rs:351`). The window
  stays open, and the line says that no callback came within 240 s.
- Without `--close-join` the commissioning key stays on the dongle after the
  example has ended.

Deadlock is not checked in `ash_decoder` (the stream ends), `ash_link` (all payloads delivered and the line
silent), `ncp` and `ezsp_session` (`connect` may fail, and the bounded calls run
out) and `startup` (the program ends); a method that hangs other than in a write would violate
`MethodsReturn`, a program that does `StartupEnds`.

**Fairness.** `AshLink` assumes that the host reads what arrives (weak fairness
of `HostReceive`), that the NCP runs (`NcpReceive`) and that its timer expires
(`NcpTimeout`). Nothing is assumed of `HostSend`, `HostReset` or `LineFault`.
`Ncp` assumes that a method in progress that is not in a write is polled and its
deadline passes (weak fairness of `WaitStep`): tokio's timer guarantees it, and
the deadline is an exit of every wait for a read. Nothing is assumed of a write,
which has no deadline: a behaviour may stay in `Write` or `Reply` for ever, and
`MethodsReturn` says of those that leave every write that every method returns.
The NCP is not assumed to answer. `Startup` assumes that the program takes its
next step (weak fairness of `ProgramStep`), which is what `MethodsReturn` says of
the methods it calls, and beyond it that writes complete: the example opens the
port without flow control (`startup.rs:71-74`), so the system drains what is
written whatever the dongle does.

## 4. Proofs

Every theorem holds for every value of the constants that satisfies the named
assumptions of the module that declares them. In each module the argument is the
same: an inductive invariant, checked by TLC on the component's run before it was
proved; one lemma per action that the action keeps it; and the properties as its
consequences.

**AshConnectionProofs.** `Spec` implies `[]TypeOK`, `[]WindowIsConsecutive`,
`[]AckIsUnambiguous`, `[]AckNamesNextExpected`,
`[]NothingOutstandingBeforeConnect`, `[]OnlyOldestIsResent` and the action
property `QueueStaysFifo`. `MAX_WINDOW < SEQUENCE_MODULUS` is the assumption that
matters, and it is the remark at `ash/state.rs:25-32`. In the invariant,
`ConnInv`, none of the interesting parts is inductive alone: that the numbers
are consecutive follows for a cut of the queue at any place, and for an appended
frame only with the window's bound; that no acknowledgement is ambiguous follows
from consecutive numbers and the bound, and is not needed again. The lemmas are
about the operators: `AcknowledgedPrefix` exists and lies in the queue, a suffix
of a consecutive queue is consecutive, an appended frame keeps it so.

**AshLinkProofs.** Under `CleanReset`, `LinkSpec` implies `[]LinkTypeOK`,
`[]AcknowledgedWasDelivered`, `[]AcknowledgedWasReceived`, and that each
direction implements `ReliableChannel`: nothing is lost, repeated or reordered,
for any modulus, windows below it, number of payloads, faults and resets.
`CleanReset` is a hypothesis and not a convenience: the run `ash_crossed_reset`
shows `AcknowledgedWasReceived` violated without it.

Sequence numbers wrap, so an invariant about numbers alone says nothing. `LinkInv`
gives each DATA frame on the line its index in the session, recovered from the
payload, and ties it to its number: the frame with index k carries
k % modulus, and every index on the line lies within a window of what the other
side has received (`DataInOrder`). Acknowledgements name counts that do not
decrease along the line and lie between what the sender has released and what
the receiver has (`AcksInOrder`). Two numbers within one window that agree modulo
the modulus are equal, which is where the window's bound is used: it makes a
number stand for one index, so that a frame is accepted, and a frame of the queue
released, only when its index is the right one (`SessionInOrder`,
`HostDirection`, `NcpDirection`). Frames only leave the line at the front, join
at the back, or are lost or garbled in place, and the order predicates survive
each. A reset is two more parts: while a RST travels it is alone
(`RstTravelsAlone`), and a RSTACK is ahead of everything of the new session
(`RstAckLeads`). The refinements map each step of the link to a send, a delivery,
a reset or a stutter of the channel.

**CorrelatorProofs.** `CorrSpec => []PendingIsLatest` for any size of the
sequence space, with the type of the two fields as the strengthening.

**NcpProofs.** `NcpSpec` implies `Spec` of the connection and `CorrSpec` of the
correlator: the runtime uses both only through their methods, so that all that is
proved of them holds in the runtime (`NcpPendingIsLatest` is one instance).
Further `[]NcpTypeOK`, `[]LostLinkIsNotATimeout` and
`[]CallbacksAreKeptUnlessFault`. `NcpInv` adds to the two components' invariants
the types of what is queued and on the line (`PayloadsOK`, `LineOK`) and of the
task (`TaskOK`), and the two facts that carry the properties. `CommandAwaits`: a
running `command` has its slot taken or its response parked, so that the end of
`command` has an answer or reports the right one of the two failures
(`LostLinkIsNotATimeout`). `NoCallbackLost`:
the callbacks the connection accepted are those taken by the application,
followed by the queued ones and the one between `on_frame` and `dispatch`
(`Undispatched`), in this order. `EzspPayloadAssumption` says that the payloads
of the connection include the EZSP frames; without it the composition would not
type.

**NcpConnectProofs.** `NcpSpec` implies `[]OwnAnswerIsReadable`,
`[]CallbacksAreReadAsSent` and `[]ConnectAgreesOnVersion`. An EZSP frame does not
say which of the two header layouts it has, so all three are about frames still on
their way. For the first, `FormatInv` says of every frame between the two ends,
from the retransmit queue to the last read, that it belongs to a command already
issued and, if to the outstanding one, has the layout in `pending_format`; no other
fact about the order of frames is needed. The other two do need it.
`ConnectInv` follows the first exchange, the only legacy one: before the offer
nothing but RSTACKs is on the line (`BeforeOffer`); then the offer is written
(`Writing`), or the NCP has taken it and its answer is owed or is ahead of every
other payload (`Waiting`), or the answer is between `on_frame` and `dispatch`
(`Accepted`), or it is parked and only callbacks are on their way (`Got`). So no
callback is dispatched while the legacy layout is remembered, and nothing is
remembered as legacy later (`AfterFirst`). The NCP takes the offer at most once, since
the only entry of the queue that holds it is acknowledged by the frame that
answers it. After it, an NCP that is not set yet
owes nothing, hence `command` cannot return Ok before it is set, and the commands
it may see first are extended `version` commands for the version it runs
(`Agreeing`, `VersionsAreTrue`). `CallbacksAreReadAsSent` needs no assumption on
the transport; `ConnectAgreesOnVersion` excludes restarts of the NCP (`surprises`).

**NcpAnswerProofs.** `NcpSpec` implies `[]AnswersOwnCommandUntilReset`, for every
set of commands, window and size of the sequence space, with the NCP free to
restart at any time and to answer as late as it likes. `AnswerInv` says which numbers may be on
their way after the first exchange (`NoMixUp`), in one of three ways. `Counting`:
every command or answer around has a number below the outstanding one, or that
number and the outstanding command's token. `Renumbered`: the link failed,
`command` has told the correlator (`ncp.rs:342`), which counts from 0 again, while
everything around has a number of at least 1, because number 0 was the offer's and
that was answered; the next command takes number 0, is refused by ASH and keeps
the slot, so none follows. `Deaf`: the host has read a RSTACK, and all that comes
from then on is callbacks and `invalidCommand`, which no command takes for its
answer. To get to `Deaf` one needs that what the NCP said before it restarted is
read before its RSTACK (`RestartsLast`); to stay there, that no legacy `version`
is sent before a reset (`AsksExtended`). `LongBlocks` says that a command too long for ASH,
which is in the retransmit queue but never on the line, holds the correlator's
slot. The first exchange is covered by `ConnectInv` and
`FirstCounts`. The theorem uses only the assumptions of `Ncp` and of the modules
it extends.

**StartupProofs.** `StartupSpec` implies `[]StartupTypeOK`, `[]SummaryIsTrue`,
`[]CleanRunResumesTheNetwork`, `[]DeliveredMeansDelivered` and
`[]WindowIsShutAfterTheWait`, for every length of the window, wait and poll and
every number of callbacks and mishaps. The second and the last have exceptions,
spelled out in the formulas: a line that passed on another command's answer, a
refusal without a reason behind "no network", a wait that a poll's error cut short.
A line of the checklist is about the dongle as it was when the line was written
and must stay true of it. That needs the order of `main`: `LinesInOrder` says that
a line is there only once `pc` is past its call. It also needs what has errored and
may still be taken: `LinesAreTrue` says with "window closed" and "keys cleared"
that no `permitJoining` and no key import is left in `late`, which holds because
the command that passed was delivered behind them. Where a line is safe from a
borrowed answer, `StartupTypes` says why: before `register_endpoint` only
`getEui64`'s answer can be parked, which has another shape, and none is parked
while an array is sent without a failure. The rest is what is known in the middle
of a loop or a wait: `ArraysSoFar` (the part of the configuration and policy arrays
already sent is on the dongle, as long as `ok` holds and no command is outstanding;
after a borrowed answer one is, and the next entry errors), `DeliveryIsKnown` (an
outcome was reported by the dongle), `WindowIsWatched` (the window is shut until
it is asked for, and once its opening was confirmed watched at least as long as it
is open, and shut after a whole wait in vain) and `CleanSoFar` (no mishap yet, so
nothing errored, nothing is left behind, and no failing line). Per command, `CommandDoes`
reduces the six ways it can end to whether the answer was its own.

**EzspSessionProofs.** `SessionSpec` implies `[]SessionTypeOK`,
`[]SlotIsFreeUnlessRefused` and `[]ForeignAnswersAreWholeWrapsOld`, for every set of
requests, replies and callbacks that fits the layouts, every version an NCP may
run, every frame limit, and every size of the sequence byte, in which neither the
number of commands nor of delayed answers is bounded by the argument. `SessionInv` holds its
ordering part, `Orderly`, only while no command was refused between `begin` and
the write: after one, a poll can take an answer whole wraps late for the refused
command's (section 3), and `Orderly` fails. Its parts: the slot is
taken only by a command that waits (`SlotIsHeld`); command number k carries
(k - 1) modulo the space and the outstanding one is the last
(`CommandsAreNumbered`); the version in use is a supported one, so that no command
is refused before it is numbered (`VersionIsSupported`); the bytes of every
answer on the line, whole, cut or lengthened, have the number and the
frame id of the command it answers where `parse` will look for them, and those of
every callback the callback bit (`LineOK`). Where `parse` looks depends on the
header format, which is legacy for the first command only: `FirstAnswerLeads` says
that the one legacy answer is ahead of all else and gone by the time its format
is. An answer `classify` accepts is therefore one to a command with the same
number and id (`ResponseAnswers`, `AnswersMatch`). That an item's bytes are a sequence at
all needs `FlattenSeq` of any layout to be one (`FlattenIsSeq`), by a least
counterexample, since the induction theorems cannot be instantiated. The assumption
`SessionAssumption` asks that requests, replies and callbacks have a value for each
field of their layout, an array of bytes where the field is one, which the types of
the Rust structs guarantee.

Only model-checked:

- Liveness: `NcpDataArrives`, `MethodsReturn`, `StartupEnds`. Fairness is beyond
  the prover.
- `AnswersOwnCommandAfterReset` of `Ncp`. After a reset that completed on a stale
  RSTACK the host and the NCP count frames of two sessions, and `on_frame` accepts
  a DATA frame in every phase. That none of the old answers finds the number of a
  new command depends on which frame numbers the window lets through, and a NAK
  that exhausts a frame's attempts meanwhile renumbers the correlator once more;
  an invariant has to follow both windows across the reset. For commands in any
  number `EzspSession` states what holds (`ForeignAnswersAreWholeWrapsOld`, proved).
- `AshDecoder`: what stuffing, CRC and randomisation compute for every sequence
  of bytes needs induction over data, and that they compute bytes at all
  (`DecoderTypeOK`) needs powers of two, of which the provers know nothing.
- `AnswersMeanWhatTheNcpSaid`, `NcpReadsWhatWasMeant` and
  `CallbacksMeanWhatTheNcpSaid` of `EzspSession`: what the reader makes of the
  writer's bytes, for every layout, needs induction over the fields.

## 5. Not modelled

- The transport's own code: wrappers over the operating system's port and a test
  double. `Ncp` and `Startup` model what the trait may do.
- Logging and redaction, error messages, formatting, the named constants and bit
  unions of `types/`: no protocol state depends on them.
- The `not_ready` flag: the code parses it and ignores it, so a model has nothing
  to do with it; an NCP that drops frames while not ready is a line that loses
  them, which `AshLink` has.
- A RSTACK later than its attempt's deadline in `AshLink`.
- Damage below EZSP in `EzspSession` and bytes in `Ncp`: the two halves of the
  runtime meet in the records of `Correlator`, not in one module. Bytes, losses
  and deadlines together are beyond TLC.

## 6. What is left

The components are modelled and the properties of section 3 checked. Two proofs
would add to what is known: `AnswersOwnCommandAfterReset`, with the invariant
over both windows described above, and, with a prover that has induction over
sequences, the round trips of the two codecs (`DecodesWhatWasSent`,
`AnswersMeanWhatTheNcpSaid` and those beside them).
