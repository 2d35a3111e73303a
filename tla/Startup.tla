------------------------------- MODULE Startup ------------------------------
(***************************************************************************)
(* examples/startup.rs: bring a coordinator up, optionally open it for     *)
(* joining, close it again and command a device, and say at the end what   *)
(* passed.                                                                 *)
(*                                                                         *)
(* pc names the call main is about to make, item the entry of the array    *)
(* configure_stack or configure_policies has come to.  `Ncp` appears by    *)
(* what module Ncp says of it: a command answers ok, answers with a        *)
(* failing status or errors, and one that errors may reach the dongle at   *)
(* once, later or never.  After a transport error it stays outstanding, or *)
(* its answer is left behind, parked for the next command, whichever it    *)
(* is; a poll may park the late answer too.  poll errors whenever the      *)
(* transport does.                                                         *)
(*                                                                         *)
(* The NCP and the devices are external, modelled from what the example's  *)
(* comments say of them.  Time passes only while the host polls.           *)
(***************************************************************************)
EXTENDS Integers, Sequences, FiniteSetsExt

CONSTANTS
    JOIN_SECONDS,   \* 240: the join window asked for, and how long it is watched
    SENT_SECONDS,   \* 40: how long messageSent is waited for
    POLL_SECONDS,   \* 5: the timeout of one poll
    MAX_WINDOW,     \* of the connection: commands that may be on their way
    MaxIncidents    \* callbacks the NCP sends and mishaps (refusals, timeouts, transport errors,
                    \* reboots, the port's loss), together

ASSUME StartupAssumption ==
    /\ {JOIN_SECONDS, SENT_SECONDS, POLL_SECONDS, MAX_WINDOW} \subseteq Nat \ {0}
    /\ MaxIncidents \in Nat

VARIABLES
    args,                      \* the command line
    pc, item, ok,              \* where main is; the array entry; the functions' `ok`
    left, joined, outcome,     \* seconds to the deadline; what the waiting loops found
    lines,                     \* Checklist::lines
    callbacks,                 \* on the line or in the Ncp's buffer, oldest first
    pending, parked,           \* Ncp between calls: the command outstanding; the answer left behind
    late,                      \* commands that errored and the dongle has not taken, oldest first
    link,                      \* "up", "reset" (the NCP rebooted) or "gone" (the port failed)
    ncp, stored,               \* external: the dongle, and whether its tokens hold a network
    delivered,                 \* history: the device acknowledged the command sent to it
    unsaid,                    \* history, what the summary does not tell: which of init, permit and
                               \* close was given another's answer; "balked" (init refused for no
                               \* reason); "cut" (a poll's error ended the wait for a device)
    mishaps, events            \* bounds

progVars == <<args, pc, item, ok, left, joined, outcome, lines>>
callVars == <<pending, parked, late>>
startupVars ==
    <<progVars, callbacks, callVars, link, ncp, stored, delivered, unsaid, mishaps, events>>

Configurations == <<"STACK_PROFILE", "SECURITY_LEVEL", "INDIRECT_TRANSMISSION_TIMEOUT",
                    "END_DEVICE_POLL_TIMEOUT">>
Policies == <<"TRUST_CENTER", "TC_KEY_REQUEST", "APP_KEY_REQUEST">>
Elements(array) == {array[i] : i \in 1 .. Len(array)}

\* What is left of the dongle's volatile state by a reboot.
Rebooted == [endpoint |-> FALSE, config |-> {}, policies |-> {}, network |-> FALSE,
             window |-> 0, key |-> FALSE, sending |-> FALSE]

MAX_DURATION == 254

\* PermitJoining::for_seconds keeps away from 255, which is forever.
for_seconds(seconds) == Min({seconds, MAX_DURATION})

-----------------------------------------------------------------------------
(* Checklist: a line by a name for its wording *)

pass(name) == lines' = Append(lines, [name |-> name, passed |-> TRUE])
fail(name) == lines' = Append(lines, [name |-> name, passed |-> FALSE])

Passed(name) == \E i \in 1 .. Len(lines) : lines[i] = [name |-> name, passed |-> TRUE]

-----------------------------------------------------------------------------
(* The order of main *)

\* Mutant: the network is resumed before the stack is configured.
InitBeforeConfigure ==
    <<"open", "connect", "eui64", "endpoint", "init", "config", "policy", "import", "permit",
      "joining", "close", "clear", "send", "sent", "sleep", "done">>

\* Mutant: the window is closed before it is opened.
CloseBeforeOpen ==
    <<"open", "connect", "eui64", "endpoint", "config", "policy", "init", "close", "clear",
      "import", "permit", "joining", "send", "sent", "sleep", "done">>

Steps ==
    <<"open", "connect", "eui64", "endpoint", "config", "policy", "init", "import", "permit",
      "joining", "close", "clear", "send", "sent", "sleep", "done">>

\* What the command line leaves out.
Wanted(step) ==
    /\ step \in {"import", "permit", "joining"} => args.permit_join
    /\ step \in {"close", "clear"} => args.close_join
    /\ step \in {"send", "sent"} => args.onoff

\* The step after this one.
Following(step) ==
    LET here == CHOOSE i \in 1 .. Len(Steps) : Steps[i] = step IN
    Steps[Min({j \in (here + 1) .. Len(Steps) : Wanted(Steps[j])})]

\* Mutant: the array index is not started over.
MovesOnKeepsItem == pc' = Following(pc) /\ UNCHANGED <<item, ok>>

MovesOn == pc' = Following(pc) /\ item' = 1 /\ ok' = TRUE

-----------------------------------------------------------------------------
(* The dongle and a command, external: whether it accepts, and what it is afterwards *)

Accepts(dongle, step) ==
    CASE step \in {"endpoint", "config"} -> ~dongle.network
      [] step = "init" -> stored /\ "STACK_PROFILE" \in dongle.config
      [] step \in {"permit", "close", "send"} -> dongle.network
      [] OTHER -> TRUE

After(dongle, step, entry) ==
    CASE step = "endpoint" -> [dongle EXCEPT !.endpoint = TRUE]
      [] step = "config"   -> [dongle EXCEPT !.config = @ \cup {Configurations[entry]}]
      [] step = "policy"   -> [dongle EXCEPT !.policies = @ \cup {Policies[entry]}]
      [] step = "init"     -> [dongle EXCEPT !.network = TRUE]
      [] step = "import"   -> [dongle EXCEPT !.key = TRUE]
      [] step = "permit"   -> [dongle EXCEPT !.window = for_seconds(JOIN_SECONDS)]
      [] step = "close"    -> [dongle EXCEPT !.window = 0]
      [] step = "clear"    -> [dongle EXCEPT !.key = FALSE]
      [] step = "send"     -> [dongle EXCEPT !.sending = TRUE]
      [] OTHER             -> dongle

\* Responses without a status cannot refuse.
HasStatus(step) == step \notin {"eui64", "clear"}

\* The status of the answer to it.
Status(dongle, step) == IF Accepts(dongle, step) \/ ~HasStatus(step) THEN "ok" ELSE "refused"

\* ASH delivers in order: what errored is taken before anything sent after it, or never.  The command
\* outstanding, if it was sent, is the last.
NcpTakesLate ==
    /\ late # <<>> /\ late' = Tail(late)
    /\ LET c == Head(late) IN
       /\ ncp' = IF Accepts(ncp, c.step) THEN After(ncp, c.step, c.entry) ELSE ncp
       /\ pending' = IF late' = <<>> /\ pending # <<>> /\ pending[1].status = "none"
                     THEN <<[step |-> c.step, status |-> Status(ncp, c.step)]>>
                     ELSE pending
    /\ UNCHANGED <<progVars, callbacks, parked, link, stored, delivered, unsaid, mishaps, events>>

\* Something goes wrong.
Mishap == mishaps + events < MaxIncidents /\ mishaps' = mishaps + 1

-----------------------------------------------------------------------------
(* Ncp::command by its result: "ok", "refused" for a failing status or "error" *)

\* begin refuses while a command is outstanding.
Busy(result) ==
    /\ pending # <<>> /\ result = "error"
    /\ UNCHANGED <<ncp, callVars, callbacks, unsaid, mishaps>>

\* The dongle takes the command, and its answer comes in time.
Answered(result) ==
    /\ pending = <<>> /\ parked = <<>> /\ late = <<>> /\ link = "up"
    /\ \/ /\ result = "ok" /\ Accepts(ncp, pc)
          /\ ncp' = After(ncp, pc, item) /\ UNCHANGED <<unsaid, mishaps>>
       \/ /\ result = "refused" /\ HasStatus(pc) /\ ~Accepts(ncp, pc)
          /\ UNCHANGED <<ncp, unsaid, mishaps>>
       \/ /\ result = "refused" /\ HasStatus(pc) /\ Accepts(ncp, pc) /\ Mishap
          /\ unsaid' = unsaid \cup (IF pc = "init" THEN {"balked"} ELSE {})
          /\ UNCHANGED ncp
    /\ UNCHANGED <<callVars, callbacks>>

\* Its status: that of its answer, "none" before there is one, "unsent" if there will be none.
Outstanding(status) == pending' = <<[step |-> pc, status |-> status]>>

Queued == Len(late) < MAX_WINDOW /\ late' = Append(late, [step |-> pc, entry |-> item])

\* time_out and on_ncp_reset free the correlator.  Behind a command that has not got through, the
\* next ones do not either.
TimesOut(result) ==
    /\ pending = <<>> /\ parked = <<>> /\ result = "error"
    /\ \/ link = "up" /\ late = <<>> /\ Mishap /\ Queued
       \/ link = "up" /\ late # <<>> /\ UNCHANGED mishaps /\ Queued
       \/ link = "reset" /\ UNCHANGED <<mishaps, late>>
    /\ UNCHANGED <<ncp, pending, parked, callbacks, unsaid>>

\* A reply that cannot be written takes the callback it answers with it.
Mislaid ==
    \/ UNCHANGED callbacks
    \/ \E i \in 1 .. Len(callbacks) :
          callbacks' = SubSeq(callbacks, 1, i - 1) \o SubSeq(callbacks, i + 1, Len(callbacks))

\* Nothing frees it when the transport fails, or when ASH does not take the command: the link is
\* down, or the window full of what has not got through.
TransportFails(result) ==
    /\ pending = <<>> /\ result = "error"
    /\ \/ /\ link = "up" /\ Mishap
          /\ Outstanding("none") /\ Queued /\ Mislaid
       \/ /\ link # "up" \/ Len(late) >= MAX_WINDOW
          /\ Outstanding("unsent") /\ UNCHANGED <<mishaps, late, callbacks>>
    /\ UNCHANGED <<ncp, parked, unsaid>>

\* The answer is read, and then the reply to what came right behind it cannot be written.
LeavesAnswer(result) ==
    /\ pending = <<>> /\ parked = <<>> /\ late = <<>> /\ link = "up" /\ result = "error"
    /\ Mishap
    /\ \E status \in {Status(ncp, pc)} \cup (IF HasStatus(pc) THEN {"refused"} ELSE {}) :
          /\ ncp' = IF status = "ok" THEN After(ncp, pc, item) ELSE ncp
          /\ parked' = <<[step |-> pc, status |-> status]>>
    /\ Mislaid
    /\ UNCHANGED <<pending, late, unsaid>>

\* The parameters of a response by their length.
Shape(step) ==
    CASE step \in {"eui64", "clear", "send"} -> step
      [] step = "import" -> "u32"
      [] OTHER -> "status"

\* What decode makes of another command's answer: from version 14 on a status is a u32.
ReadAs(other, step) ==
    (IF {Shape(other.step), Shape(step)} \subseteq {"status", "u32"} THEN {other.status} ELSE {})
    \cup (IF Shape(other.step) = Shape(step) THEN {} ELSE {"error"})

\* The parked answer is taken for the command's own, which stays outstanding.
Misanswered(result) ==
    /\ pending = <<>> /\ parked # <<>> /\ link # "gone"
    /\ result \in ReadAs(parked[1], pc)
    /\ parked' = <<>>
    /\ IF link = "up" THEN Outstanding("none") /\ Queued ELSE Outstanding("unsent") /\ UNCHANGED late
    /\ unsaid' = unsaid \cup ({pc} \cap {"init", "permit", "close"})
    /\ UNCHANGED <<ncp, callbacks, mishaps>>

Command(result) ==
    /\ \/ Busy(result) \/ Answered(result) \/ TimesOut(result)
       \/ TransportFails(result) \/ LeavesAnswer(result) \/ Misanswered(result)
    /\ UNCHANGED <<args, joined, outcome, link, stored, delivered, events>>

-----------------------------------------------------------------------------
(* main and the functions it calls *)

\* Without the port, or without a connection, main reports and returns.
Open ==
    /\ pc = "open"
    /\ \/ /\ pass("serialOpen") /\ MovesOn /\ UNCHANGED <<link, mishaps>>
       \/ /\ fail("serialOpen") /\ Mishap
          /\ link' = "gone" /\ pc' = "done" /\ UNCHANGED <<item, ok>>
    /\ UNCHANGED <<args, left, joined, outcome, callbacks, callVars, ncp, stored, delivered, unsaid,
                   events>>

\* The ASH reset reboots the dongle, whether or not the host then hears of it.
Connect ==
    /\ pc = "connect"
    /\ \/ /\ pass("ashReset") /\ MovesOn
          /\ ncp' = Rebooted /\ callbacks' = <<>> /\ UNCHANGED mishaps
       \/ /\ fail("ashReset") /\ Mishap
          /\ ncp' \in {ncp, Rebooted} /\ pc' = "done" /\ UNCHANGED <<item, ok, callbacks>>
    /\ UNCHANGED <<args, left, joined, outcome, callVars, link, stored, delivered, unsaid, events>>

\* A command with a line of its own; whenRefused is the line for a failing status.
OneCommand(name, whenRefused) ==
    /\ \/ Command("ok") /\ pass(name)
       \/ Command("refused") /\ whenRefused
       \/ Command("error") /\ fail(name)
    /\ MovesOn
    /\ UNCHANGED left

GetEui64 == pc = "eui64" /\ OneCommand("getEui64", FALSE)

\* A refused endpoint, and a dongle without a network, are answers worth having.
register_endpoint ==
    pc = "endpoint" /\ OneCommand("addEndpoint", pass("addEndpointRefused"))

NetworkInit ==
    /\ pc = "init"
    /\ OneCommand("networkInitResumed", pass("networkInitNoNetwork"))

ImportTransientKey ==
    pc = "import" /\ OneCommand("importTransientKey", fail("importTransientKey"))

\* The window first, then the key, whatever became of the window.
close_joining ==
    \/ pc = "close" /\ OneCommand("permitJoiningClosed", fail("permitJoiningClosed"))
    \/ pc = "clear" /\ OneCommand("clearTransientLinkKeys", FALSE)

\* configure_stack and configure_policies: every entry is tried, whatever became of the others.
ArrayCommand(array, name) ==
    \E result \in {"ok", "refused", "error"} :
        /\ Command(result) /\ UNCHANGED left
        /\ LET good == ok /\ result = "ok" IN
           IF item < Len(array)
           THEN item' = item + 1 /\ ok' = good /\ UNCHANGED <<pc, lines>>
           ELSE (IF good THEN pass(name) ELSE fail(name)) /\ MovesOn

configure_stack == pc = "config" /\ ArrayCommand(Configurations, "setConfigurationValue")

configure_policies == pc = "policy" /\ ArrayCommand(Policies, "setPolicy")

-----------------------------------------------------------------------------
(* The waits of open_for_joining and send_onoff *)

\* Mutant: the host stops watching before the window shuts.
WatchLess == JOIN_SECONDS - POLL_SECONDS

JoinDeadline == JOIN_SECONDS

\* The command that starts a wait.  The deadline is counted from its answer, whatever that was.
StartWait(name, seconds) ==
    \E result \in {"ok", "refused", "error"} :
        /\ Command(result)
        /\ left' = seconds
        /\ IF result = "ok" THEN pass(name) ELSE fail(name)
        /\ MovesOn

open_for_joining == pc = "permit" /\ StartWait("permitJoiningOpen", JoinDeadline)

send_onoff == pc = "send" /\ StartWait("sendUnicast", SENT_SECONDS)

\* Any trustCenterJoin counts; the last of the batch stays.
Joined(batch) ==
    LET joins == {i \in 1 .. Len(batch) : batch[i].kind = "TrustCenterJoin"} IN
    IF joins = {} THEN joined ELSE batch[Max(joins)].what

\* Mutant: the first callback of any kind is taken for the answer.
FirstCallbackIsTheAnswer(batch) == IF batch[1].what = "failed" THEN "failed" ELSE "ok"

\* Any messageSent counts; its tag is not looked at.
Outcome(batch) ==
    LET sent == {i \in 1 .. Len(batch) : batch[i].kind = "MessageSent"} IN
    IF sent = {} THEN outcome ELSE batch[Max(sent)].what

Found == IF pc = "joining" THEN joined # "none" ELSE outcome # "none"

\* Mutant: the deadline is not looked at.
NeverExpired == FALSE

Expired == left = 0

\* The host's deadline and the dongle's window run down together.
Elapse(seconds) ==
    /\ left' = Max({0, left - seconds})
    /\ ncp' = [ncp EXCEPT !.window = Max({0, @ - seconds})]

\* The late answer to the command outstanding may be among what a poll reads.
Absorbs ==
    \/ UNCHANGED <<pending, parked>>
    \/ /\ pending # <<>> /\ pending[1].status \notin {"none", "unsent"}
       /\ parked' = pending /\ pending' = <<>>

\* poll returns as soon as there are callbacks, and empty when its own time is up.
Poll ==
    /\ pc \in {"joining", "sent"} /\ ~Found /\ ~Expired
    /\ \/ \E n \in 1 .. Len(callbacks), seconds \in {0, POLL_SECONDS} :
             LET batch == SubSeq(callbacks, 1, n) IN
             /\ callbacks' = SubSeq(callbacks, n + 1, Len(callbacks))
             /\ joined' = IF pc = "joining" THEN Joined(batch) ELSE joined
             /\ outcome' = IF pc = "sent" THEN Outcome(batch) ELSE outcome
             /\ Elapse(seconds)
       \/ /\ callbacks = <<>> /\ link # "gone"
          /\ Elapse(POLL_SECONDS)
          /\ UNCHANGED <<callbacks, joined, outcome>>
    /\ Absorbs
    /\ UNCHANGED <<args, pc, item, ok, lines, late, link, stored, delivered, unsaid, mishaps, events>>

\* A wait also ends when poll errors, in whatever state that leaves the link.
PollFails ==
    /\ pc \in {"joining", "sent"} /\ ~Found /\ ~Expired
    /\ \/ link = "gone" /\ callbacks = <<>> /\ UNCHANGED <<callbacks, mishaps>>
       \/ link # "gone" /\ Mishap /\ Mislaid
    /\ Absorbs
    /\ \/ pc = "joining" /\ fail("deviceJoin") /\ unsaid' = unsaid \cup {"cut"}
       \/ pc = "sent" /\ fail("messageSentFailed") /\ UNCHANGED unsaid
    /\ MovesOn /\ left' = 0
    /\ UNCHANGED <<args, joined, outcome, late, link, ncp, stored, delivered, events>>

\* The wait is over when it found what it waited for, and at its deadline.
WaitEnds ==
    /\ pc \in {"joining", "sent"} /\ (Found \/ Expired)
    /\ \/ pc = "joining" /\ (IF Found THEN pass("deviceJoin") ELSE fail("deviceJoin"))
       \/ pc = "sent" /\ (IF outcome = "ok" THEN pass("messageSentDelivered")
                          ELSE fail("messageSentFailed"))
    /\ MovesOn /\ left' = 0
    /\ UNCHANGED <<args, joined, outcome, callbacks, callVars, link, ncp, stored, delivered, unsaid,
                   mishaps, events>>

\* main's last half second, take_callbacks and the report.
Finish ==
    /\ pc = "sleep"
    /\ callbacks' = <<>> /\ MovesOn
    /\ UNCHANGED <<args, left, joined, outcome, lines, callVars, link, ncp, stored, delivered, unsaid,
                   mishaps, events>>

-----------------------------------------------------------------------------
(* The NCP, the devices and the port, external *)

Running == pc \notin {"open", "connect", "done"}

\* What the dongle may report: a device that joins, or rejoins without an open window, or
\* leaves, its stack's state, and what became of the message it was given.
Reportable ==
    [kind : {"TrustCenterJoin"},
     what : IF ncp.network THEN {"came", "left"} ELSE {}]
    \cup [kind : {"StackStatus"}, what : IF ncp.network THEN {"up"} ELSE {}]
    \cup [kind : {"MessageSent"}, what : IF ncp.sending THEN {"ok", "failed"} ELSE {}]

NcpCallsBack ==
    /\ Running /\ link = "up" /\ mishaps + events < MaxIncidents
    /\ events' = events + 1
    /\ \E c \in Reportable :
          /\ callbacks' = Append(callbacks, c)
          /\ ncp' = [ncp EXCEPT !.sending = @ /\ c.kind # "MessageSent"]
          /\ delivered' = (delivered \/ (c.kind = "MessageSent" /\ c.what = "ok"))
    /\ UNCHANGED <<progVars, callVars, link, stored, unsaid, mishaps>>

\* What the host had not read yet is lost with the link.
LinkLost(state) ==
    /\ Running /\ link = "up" /\ Mishap /\ link' = state
    /\ \E n \in 0 .. Len(callbacks) : callbacks' = SubSeq(callbacks, 1, n)
    /\ UNCHANGED <<progVars, pending, parked, stored, delivered, unsaid, events>>

NcpReboots == LinkLost("reset") /\ ncp' = Rebooted /\ late' = <<>>

PortFails == LinkLost("gone") /\ UNCHANGED <<ncp, late>>

-----------------------------------------------------------------------------

\* The dongle may have been left as an earlier run left it.
StartupInit ==
    /\ args \in [permit_join : BOOLEAN, close_join : BOOLEAN, onoff : BOOLEAN]
    /\ pc = "open" /\ item = 1 /\ ok = TRUE
    /\ left = 0 /\ joined = "none" /\ outcome = "none" /\ lines = <<>>
    /\ callbacks = <<>> /\ pending = <<>> /\ parked = <<>> /\ late = <<>>
    /\ link = "up" /\ stored \in BOOLEAN
    /\ ncp \in {Rebooted, [Rebooted EXCEPT !.network = stored, !.endpoint = TRUE, !.key = TRUE]}
    /\ delivered = FALSE /\ unsaid = {} /\ mishaps = 0 /\ events = 0

ProgramStep ==
    \/ Open \/ Connect \/ GetEui64 \/ register_endpoint \/ configure_stack \/ configure_policies
    \/ NetworkInit \/ ImportTransientKey \/ open_for_joining \/ close_joining \/ send_onoff
    \/ Poll \/ PollFails \/ WaitEnds \/ Finish

StartupNext == ProgramStep \/ NcpTakesLate \/ NcpCallsBack \/ NcpReboots \/ PortFails

\* Every command and every poll has a timeout and, without flow control, no write blocks, so the
\* program takes its next step.
StartupSpec == StartupInit /\ [][StartupNext]_startupVars /\ WF_startupVars(ProgramStep)

-----------------------------------------------------------------------------
(* Correctness *)

\* Types, and what ties them together: the array index stays inside the array being sent and is back
\* at its start anywhere else.
StartupTypeOK ==
    /\ pc \in Elements(Steps) /\ ok \in BOOLEAN
    /\ item \in 1 .. (CASE pc = "config" -> Len(Configurations) [] pc = "policy" -> Len(Policies)
                        [] OTHER -> 1)
    /\ left \in 0 .. Max({JOIN_SECONDS, SENT_SECONDS}) /\ ncp.window \in 0 .. MAX_DURATION
    /\ joined \in {"none", "came", "left"} /\ outcome \in {"none", "ok", "failed"}
    /\ link \in {"up", "reset", "gone"} /\ Len(lines) <= Len(Steps)

\* What a PASS line says is so on the dongle, for as long as the dongle does not reboot: also after
\* other commands errored and took effect late, and also for what a later command was to undo
\* (startup.rs:500, 475-481).  Three lines need care.  "Network resumed", "no network" and "window
\* closed" are wrong if the command was given the answer of an earlier one that errored (ncp.rs:344);
\* the others are safe from that, by the shape of their answers or because an array is passed as a
\* whole.  And "no network" can be believed only if the configuration passed too, as without a stack
\* profile a stored network is refused as well (startup.rs:124-125, 206-209), and of a dongle that
\* has no further reason to refuse.
SummaryIsTrue ==
    /\ link # "reset" =>
          /\ Passed("addEndpoint") => ncp.endpoint
          /\ Passed("setConfigurationValue") => ncp.config = Elements(Configurations)
          /\ Passed("setPolicy") => ncp.policies = Elements(Policies)
          /\ Passed("networkInitResumed") => ncp.network \/ "init" \in unsaid
          /\ Passed("permitJoiningClosed") => ncp.window = 0 \/ "close" \in unsaid
          /\ Passed("clearTransientLinkKeys") => ~ncp.key
    /\ Passed("networkInitNoNetwork") /\ Passed("setConfigurationValue")
          => ~stored \/ unsaid \cap {"init", "balked"} # {}

\* When nothing goes wrong, everything passes, the endpoint is there and a stored network is resumed:
\* nothing is sent at a time the dongle refuses it, whatever state it was found in
\* (startup.rs:173-178, 204-212).
CleanRunResumesTheNetwork ==
    pc = "done" /\ mishaps = 0 /\ stored =>
        /\ ncp.network /\ ncp.endpoint
        /\ \A i \in 1 .. Len(lines) :
              lines[i].passed \/ lines[i].name \in {"deviceJoin", "messageSentFailed"}

\* "Delivered" is said only of a command the device acknowledged, never because something else was
\* reported while the host waited (startup.rs:438-442).
DeliveredMeansDelivered == Passed("messageSentDelivered") => delivered

\* A window that was opened and brought no device is shut when the wait for one is over, although the
\* host and the dongle time it separately (startup.rs:336, 348).  Not so if poll errored, which ends
\* the wait at once and leaves the window open behind "no trustCenterJoin callback within 240s"
\* (startup.rs:351), nor if permitJoining was given another command's answer and opens it later.
WindowIsShutAfterTheWait ==
    Passed("permitJoiningOpen") /\ [name |-> "deviceJoin", passed |-> FALSE] \in Elements(lines)
        => ncp.window = 0 \/ unsaid \cap {"permit", "cut"} # {}

\* The program ends, whatever the dongle and the port do (startup.rs:350, 446).
StartupEnds == <>(pc = "done")

\* The summary cannot overstate: a device join that passed is a device that came, not one that left
\* (startup.rs:500, callback.rs:37-40).
JoinIsAnArrival == Passed("deviceJoin") => joined # "left"
=============================================================================
