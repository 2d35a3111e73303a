------------------------------ MODULE AshLink ------------------------------
(***************************************************************************)
(* The host's Connection as ncp.rs drives it, a serial line in each        *)
(* direction, and the NCP at the other end.                                *)
(*                                                                         *)
(* The host calls send_data, begin_reset, on_frame and on_decode_failure   *)
(* and writes what they return.  There is no host timer: ncp.rs never      *)
(* calls retransmit_oldest, so the only resend is the one inside on_frame. *)
(*                                                                         *)
(* The line keeps frames in order and may lose or garble one.  The NCP is  *)
(* external: it takes frames in sequence, answers a gap or a garbled frame *)
(* with a NAK, re-acknowledges a resent duplicate, resends everything      *)
(* outstanding on a NAK and on its own timer, and forgets everything on a  *)
(* RST.                                                                    *)
(*                                                                         *)
(* hostSent .. hostGot and linked are history variables.                   *)
(***************************************************************************)
EXTENDS AshConnection

CONSTANTS
    HostData,     \* how many payloads the host sends: 1 .. HostData
    NcpData,      \* how many payloads the NCP sends
    NcpWindow,    \* the NCP's own limit on unacknowledged frames
    MaxFaults,    \* how many frames the line loses or garbles
    MaxResets,    \* how many times the host starts a reset
    CleanReset    \* TRUE: resets begin on a silent line and no frame crosses their RST

ASSUME LinkAssumption ==
    /\ Payload = 1 .. (HostData + NcpData)
    /\ NcpWindow \in 1 .. (SEQUENCE_MODULUS - 1)
    /\ HostData \in Nat /\ NcpData \in Nat /\ MaxFaults \in Nat /\ MaxResets \in Nat
    /\ CleanReset \in BOOLEAN

VARIABLES
    toNcp, toHost,            \* the two directions of the line
    ncp_tx, ncp_rx, ncp_out,  \* the NCP's numbers and unacknowledged <<number, payload>>
    hostSent, ncpGot,         \* host to NCP, this session
    ncpSent, hostGot,         \* NCP to host, this session
    linked,                   \* a RSTACK was taken and no reset begun since
    hostCount, ncpCount, faults, resets

lineVars == <<toNcp, toHost>>
ncpVars == <<ncp_tx, ncp_rx, ncp_out>>
historyVars == <<hostSent, ncpGot, ncpSent, hostGot, linked>>
boundVars == <<hostCount, ncpCount, faults, resets>>
linkVars == <<connVars, lineVars, ncpVars, historyVars, boundVars>>

Garbled == [kind |-> "Garbled"]

\* What write_frame puts on the line: a frame, or nothing.
Written(out) == IF out.kind \in {"Nothing", "NotConnected", "WindowFull"} THEN <<>> ELSE <<out>>

OnLine(line, kind) == \E i \in 1 .. Len(line) : line[i].kind = kind

LinkInit ==
    /\ Init
    /\ toNcp = <<>> /\ toHost = <<>>
    /\ ncp_tx = 0 /\ ncp_rx = 0 /\ ncp_out = <<>>
    /\ hostSent = <<>> /\ ncpGot = <<>> /\ ncpSent = <<>> /\ hostGot = <<>>
    /\ linked = FALSE
    /\ hostCount = 0 /\ ncpCount = 0 /\ faults = 0 /\ resets = 0

-----------------------------------------------------------------------------
(* The host *)

\* Ncp::reset: begin_reset and the write of its RST.  RESET_TIMEOUT is long enough for a RST and
\* its RSTACK to cross, so a retry finds neither on the line.
HostReset ==
    /\ resets < MaxResets
    /\ ~OnLine(toNcp, "Rst") /\ ~OnLine(toHost, "RstAck")
    /\ CleanReset => toNcp = <<>> /\ toHost = <<>>
    /\ begin_reset
    /\ resets' = resets + 1
    /\ toNcp' = toNcp \o Written(outbound')
    /\ linked' = FALSE
    /\ hostSent' = <<>> /\ hostGot' = <<>>
    /\ UNCHANGED <<toHost, ncpVars, ncpGot, ncpSent, hostCount, ncpCount, faults>>

\* Ncp::command: send_data and the write of its frame.
HostSend ==
    /\ hostCount < HostData
    /\ send_data(hostCount + 1)
    /\ toNcp' = toNcp \o Written(outbound')
    /\ IF outbound'.kind = "Data"
       THEN hostSent' = Append(hostSent, hostCount + 1) /\ hostCount' = hostCount + 1
       ELSE UNCHANGED <<hostSent, hostCount>>
    /\ UNCHANGED <<toHost, ncpVars, ncpGot, ncpSent, hostGot, linked, ncpCount, faults, resets>>

\* Ncp::consume of one frame.  Nothing is read before connect has begun its reset.
HostReceive ==
    /\ toHost # <<>> /\ phase # "Disconnected"
    /\ LET f == Head(toHost) IN
         \/ /\ f.kind = "Garbled"
            /\ on_decode_failure(TRUE)
            /\ UNCHANGED <<linked, hostSent>>
         \/ /\ f.kind # "Garbled"
            /\ on_frame(f)
            /\ IF f.kind = "RstAck"
               THEN linked' = TRUE /\ hostSent' = <<>>
               ELSE UNCHANGED <<linked, hostSent>>
    /\ toHost' = Tail(toHost)
    /\ toNcp' = toNcp \o Written(outbound')
    /\ hostGot' = IF Head(toHost).kind = "RstAck" THEN <<>> ELSE hostGot \o received'
    /\ UNCHANGED <<ncpVars, ncpGot, ncpSent, boundVars>>

-----------------------------------------------------------------------------
(* The NCP, external *)

NcpRetired(ack_num) ==
    LET kept == {i \in 1 .. Len(ncp_out) : ncp_out[i][1] = ack_num}
    IN  IF kept = {} THEN <<>>
        ELSE SubSeq(ncp_out, CHOOSE i \in kept : TRUE, Len(ncp_out))

NcpResends(queue, ack_num) ==
    [i \in 1 .. Len(queue) |-> Data(queue[i][1], ack_num, TRUE, queue[i][2])]

NcpReceiveRst ==
    /\ Head(toNcp).kind = "Rst"
    /\ ncp_tx' = 0 /\ ncp_rx' = 0 /\ ncp_out' = <<>>
    /\ ncpGot' = <<>> /\ ncpSent' = <<>>
    /\ toHost' = Append(toHost, RstAck)

NcpReceiveData ==
    /\ Head(toNcp).kind = "Data"
    /\ LET f == Head(toNcp) IN
         /\ ncp_out' = NcpRetired(f.ack_num)
         /\ \/ /\ f.frame_num = ncp_rx
               /\ ncp_rx' = next_sequence(ncp_rx)
               /\ ncpGot' = Append(ncpGot, f.payload)
               /\ toHost' = Append(toHost, Ack(ncp_rx'))
            \/ /\ f.frame_num # ncp_rx
               /\ toHost' = Append(toHost, IF f.retransmit THEN Ack(ncp_rx) ELSE Nak(ncp_rx))
               /\ UNCHANGED <<ncp_rx, ncpGot>>
    /\ UNCHANGED <<ncp_tx, ncpSent>>

NcpReceiveAck ==
    /\ Head(toNcp).kind = "Ack"
    /\ ncp_out' = NcpRetired(Head(toNcp).ack_num)
    /\ UNCHANGED <<ncp_tx, ncp_rx, ncpGot, ncpSent, toHost>>

NcpReceiveNak ==
    /\ Head(toNcp).kind = "Nak"
    /\ ncp_out' = NcpRetired(Head(toNcp).ack_num)
    /\ toHost' = toHost \o NcpResends(ncp_out', ncp_rx)
    /\ UNCHANGED <<ncp_tx, ncp_rx, ncpGot, ncpSent>>

NcpReceiveGarbled ==
    /\ Head(toNcp).kind = "Garbled"
    /\ toHost' = Append(toHost, Nak(ncp_rx))
    /\ UNCHANGED <<ncpVars, ncpGot, ncpSent>>

NcpReceive ==
    /\ toNcp # <<>>
    /\ toNcp' = Tail(toNcp)
    /\ NcpReceiveRst \/ NcpReceiveData \/ NcpReceiveAck \/ NcpReceiveNak \/ NcpReceiveGarbled
    /\ UNCHANGED <<connVars, hostSent, hostGot, linked, boundVars>>

\* A response or a callback; also in a session of an earlier host process.
NcpSend ==
    /\ ncpCount < NcpData
    /\ Len(ncp_out) < NcpWindow
    /\ CleanReset => ~OnLine(toNcp, "Rst")
    /\ LET p == HostData + ncpCount + 1 IN
         /\ ncp_out' = Append(ncp_out, <<ncp_tx, p>>)
         /\ ncpSent' = Append(ncpSent, p)
         /\ toHost' = Append(toHost, Data(ncp_tx, ncp_rx, FALSE, p))
    /\ ncp_tx' = next_sequence(ncp_tx)
    /\ ncpCount' = ncpCount + 1
    /\ UNCHANGED <<connVars, toNcp, ncp_rx, hostSent, ncpGot, hostGot, linked,
                   hostCount, faults, resets>>

\* The NCP's acknowledgement timer, which outlasts a quiet line.
NcpTimeout ==
    /\ ncp_out # <<>> /\ toNcp = <<>> /\ toHost = <<>>
    /\ toHost' = NcpResends(ncp_out, ncp_rx)
    /\ UNCHANGED <<connVars, toNcp, ncpVars, historyVars, boundVars>>

-----------------------------------------------------------------------------
(* The line, external *)

Faulty(line) == {Tail(line), <<Garbled>> \o Tail(line)}

LineFault ==
    /\ faults < MaxFaults
    /\ faults' = faults + 1
    /\ \/ toNcp # <<>> /\ toNcp' \in Faulty(toNcp) /\ UNCHANGED toHost
       \/ toHost # <<>> /\ toHost' \in Faulty(toHost) /\ UNCHANGED toNcp
    /\ UNCHANGED <<connVars, ncpVars, historyVars, hostCount, ncpCount, resets>>

-----------------------------------------------------------------------------

LinkNext ==
    \/ HostReset \/ HostSend \/ HostReceive
    \/ NcpReceive \/ NcpSend \/ NcpTimeout
    \/ LineFault

\* The pump reads whatever arrives, the NCP runs, and its timer expires.
LinkFairness == WF_linkVars(HostReceive) /\ WF_linkVars(NcpReceive) /\ WF_linkVars(NcpTimeout)

LinkSpec == LinkInit /\ [][LinkNext]_linkVars /\ LinkFairness

-----------------------------------------------------------------------------
(* Correctness *)

\* The line carries frames and garbled frames, the NCP numbers its frames like the host does, and
\* the histories hold payloads.
LinkTypeOK ==
    /\ TypeOK
    /\ \A f \in {toNcp[i] : i \in 1 .. Len(toNcp)} \cup {toHost[i] : i \in 1 .. Len(toHost)} :
          f \in AshFrame \cup {Garbled}
    /\ {ncp_tx, ncp_rx} \subseteq SeqNum
    /\ linked \in BOOLEAN
    /\ {hostSent, ncpGot, ncpSent, hostGot} \subseteq Seq(Payload)

HostToNcp == INSTANCE ReliableChannel WITH
    sent <- IF linked THEN hostSent ELSE <<>>,
    got <- IF linked THEN ncpGot ELSE <<>>

NcpToHost == INSTANCE ReliableChannel WITH
    sent <- IF linked THEN ncpSent ELSE <<>>,
    got <- IF linked THEN hostGot ELSE <<>>

\* What send_data accepts reaches the NCP in order, once, without gaps, however frames are lost,
\* garbled and resent.
HostToNcpIsReliable == HostToNcp!Spec

\* What the NCP sends is delivered by on_frame in order, once, without gaps.
NcpToHostIsReliable == NcpToHost!Spec

\* A frame leaves the host's queue on an acknowledgement only after the NCP has taken it: draining
\* the queue on an ack_num it does not hold (retire_acknowledged) never forgets a frame.
AcknowledgedWasDelivered ==
    linked => Len(hostSent) - Len(in_flight) <= Len(ncpGot)

\* The host acknowledges nothing it has not taken in this session, so the NCP never forgets a frame
\* that was not delivered: the "half-connected" states state.rs:4-7 sets out to exclude.
AcknowledgedWasReceived ==
    linked => Len(ncpSent) - Len(ncp_out) <= Len(hostGot)

\* Whatever the NCP sends is delivered and the NCP learns of it, unless a reset ends the session: a
\* lost frame or a lost acknowledgement does not stall that direction, because every DATA frame is
\* answered, the duplicates too (state.rs:234-251).
NcpDataArrives ==
    \A p \in Payload :
        (\E i \in 1 .. Len(ncpSent) : ncpSent[i] = p)
            ~> \/ /\ \E i \in 1 .. Len(hostGot) : hostGot[i] = p
                  /\ \A i \in 1 .. Len(ncp_out) : ncp_out[i][2] # p
               \/ ~\E i \in 1 .. Len(ncpSent) : ncpSent[i] = p
               \/ ~linked

\* What state.rs:275 says of the other direction: retransmit_oldest is "Called on a NAK and on a
\* timeout", so a frame the host sent is resent until it arrives or the link is declared failed.
HostDataArrives ==
    \A p \in Payload :
        (\E i \in 1 .. Len(hostSent) : hostSent[i] = p)
            ~> \/ \E i \in 1 .. Len(ncpGot) : ncpGot[i] = p
               \/ ~is_connected \/ ~linked
=============================================================================
