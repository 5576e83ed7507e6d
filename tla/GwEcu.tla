------------------------------- MODULE GwEcu --------------------------------
(***************************************************************************)
(* What the gateway knows of its ECUs (_old): Heartbeat_Task asks every    *)
(* ECU for its status with ECU_sendCommand, the application may ask for    *)
(* more, and Gateway_Task writes the answers to ecu_list (GW_parsePDU).    *)
(*                                                                         *)
(* The ECUs are not part of the repository: each answers a request it got  *)
(* at some later time, with the request's code in the first byte.  The way *)
(* of an answer through interrupt and router is in GwPdu; here it reaches  *)
(* gateway_queue, or is dropped when that is full.                         *)
(***************************************************************************)
EXTENDS Integers, Sequences

CONSTANTS NUM_OF_ECUS, GW_QUEUE_SIZE,
          BigEndian,    \* bit fields start at the most significant bit
          StatusBytes,  \* status bytes an ECU may report
          AppRequests,  \* the commands the application sends
          MaxRequests,  \* bound: commands the application sends
          MaxChanges,   \* bound: changes of an ECU's own state
          MaxLost       \* bound: frames CAN_sendFrame fails to send

ECU_CMD_REQ_ALL == 1
ECU_CMD_REQ_FWVER == 3
ECU_CMD_REQ_STATUS == 4
ECU_STAT_UPDATING == 3
PROTOCOL_CAN == 2

Ecus == 0..(NUM_OF_ECUS - 1)
Requests == {ECU_CMD_REQ_ALL, ECU_CMD_REQ_FWVER, ECU_CMD_REQ_STATUS}

ASSUME EcuAssumption ==
    /\ NUM_OF_ECUS \in Nat \ {0} /\ GW_QUEUE_SIZE \in Nat \ {0}
    /\ BigEndian \in BOOLEAN
    /\ StatusBytes \subseteq 0..255 /\ AppRequests \subseteq Requests
    /\ MaxRequests \in Nat /\ MaxChanges \in Nat /\ MaxLost \in Nat

VARIABLES status, protocol, \* the fields of ecu_list[e] that are read here
          i, hb,     \* Heartbeat_Task: its loop variable, "delay", "check" or "send"
          gateway_queue,
          asked,     \* requests that reached ECU e and wait for its answer
          real,      \* the ECUs: the status byte each would report
          late,      \* history: heartbeat's requests to an ECU known to be updating
          requests, changes, losses \* counters for the bounds

ecu_list  == <<status, protocol>>
heartbeat == <<i, hb>>
bounds    == <<requests, changes, losses>>
vars == <<ecu_list, heartbeat, gateway_queue, asked, real, late, bounds>>

(* ecu_table.c initialises the protocol; the status starts as 0.           *)
Init ==
    /\ status = [e \in Ecus |-> 0] /\ protocol = [e \in Ecus |-> PROTOCOL_CAN]
    /\ i = 0 /\ hb = "delay" /\ gateway_queue = <<>>
    /\ asked = [e \in Ecus |-> {}] /\ late = [e \in Ecus |-> 0]
    /\ real \in [Ecus -> StatusBytes]
    /\ requests = 0 /\ changes = 0 /\ losses = 0

-----------------------------------------------------------------------------
\* Mutated forms of the definitions below, used by the mutants of the project.
MayAsk_Always == TRUE
StatusField_Whole(byte) == byte
NextEcu_SkipsOne == i + 2
-----------------------------------------------------------------------------
Sends(e) == protocol[e] = PROTOCOL_CAN

(* ECU_sendCommand: nothing is sent for the other protocols (the body of   *)
(* LIN_sendFrame is empty); CAN_sendFrame only prints that it failed.      *)
SendCommand(e, cmd) ==
    \/ Sends(e) /\ asked' = [asked EXCEPT ![e] = @ \cup {cmd}] /\ UNCHANGED losses
    \/ Sends(e) /\ losses < MaxLost /\ losses' = losses + 1 /\ UNCHANGED asked
    \/ ~Sends(e) /\ UNCHANGED <<asked, losses>>

(* The application asks for updated information.  It does not look at the  *)
(* status, not even for a REQ_STATUS, so late does not count its requests. *)
Request(e, cmd) ==
    /\ requests < MaxRequests /\ requests' = requests + 1
    /\ SendCommand(e, cmd)
    /\ UNCHANGED <<ecu_list, heartbeat, gateway_queue, real, late, changes>>

-----------------------------------------------------------------------------
\* Heartbeat_Task

(* The next cycle: the period of seconds is long enough for Gateway_Task   *)
(* to handle what is in its queue.                                         *)
Cycle ==
    /\ hb = "delay" /\ gateway_queue = <<>>
    /\ hb' = "check" /\ i' = 0
    /\ UNCHANGED <<ecu_list, gateway_queue, asked, real, late, bounds>>

MayAsk == status[i] # ECU_STAT_UPDATING
NextEcu == i + 1

Check ==
    /\ hb = "check"
    /\ IF i \notin Ecus THEN hb' = "delay" /\ UNCHANGED i
       ELSE IF MayAsk THEN hb' = "send" /\ UNCHANGED i
       ELSE i' = NextEcu /\ UNCHANGED hb
    /\ UNCHANGED <<ecu_list, gateway_queue, asked, real, late, bounds>>

(* Another task may run between the test and the command.                  *)
Poll ==
    /\ hb = "send"
    /\ hb' = "check" /\ i' = NextEcu
    /\ SendCommand(i, ECU_CMD_REQ_STATUS)
    /\ late' = [late EXCEPT ![i] = IF status[i] = ECU_STAT_UPDATING THEN @ + 1 ELSE @]
    /\ UNCHANGED <<ecu_list, gateway_queue, real, requests, changes>>

-----------------------------------------------------------------------------
\* Gateway_Task

\* ecu->status has four bits.
StatusField(byte) == byte % 16

(* memcpy(ecu, data, sizeof(ECU)) copies the request's code, 0x01, to the  *)
(* first byte of the bit fields: all of status, and two of the four bits   *)
(* of protocol.  The bytes behind it bring the rest.                       *)
ImageStatus == IF BigEndian THEN 0 ELSE 1
ImageProtocols == IF BigEndian THEN 4..7 ELSE {0, 4, 8, 12}

ParseAll(pdu) ==
    /\ pdu.cmd = ECU_CMD_REQ_ALL
    /\ status' = [status EXCEPT ![pdu.id] = ImageStatus]
    /\ \E p \in ImageProtocols : protocol' = [protocol EXCEPT ![pdu.id] = p]

(* ecu->fw_version = data[1]: no task of this module reads that field.     *)
ParseVersion(pdu) == pdu.cmd = ECU_CMD_REQ_FWVER /\ UNCHANGED ecu_list

ParseStatus(pdu) ==
    /\ pdu.cmd = ECU_CMD_REQ_STATUS
    /\ status' = [status EXCEPT ![pdu.id] = StatusField(pdu.byte)]
    /\ UNCHANGED protocol

(* GW_parsePDU of the oldest PDU in gateway_queue.                         *)
Parse ==
    /\ gateway_queue # <<>> /\ gateway_queue' = Tail(gateway_queue)
    /\ LET pdu == Head(gateway_queue) IN
          /\ ParseAll(pdu) \/ ParseVersion(pdu) \/ ParseStatus(pdu)
          /\ late' = [late EXCEPT ![pdu.id] =
                         IF status'[pdu.id] = ECU_STAT_UPDATING THEN @ ELSE 0]
    /\ UNCHANGED <<heartbeat, asked, real, bounds>>

-----------------------------------------------------------------------------
\* The ECUs

Report(e, cmd) == [id |-> e, cmd |-> cmd, byte |-> real[e]]

Answer(e, cmd) ==
    /\ cmd \in asked[e]
    /\ asked' = [asked EXCEPT ![e] = @ \ {cmd}]
    /\ gateway_queue' = IF Len(gateway_queue) < GW_QUEUE_SIZE
                        THEN Append(gateway_queue, Report(e, cmd)) ELSE gateway_queue

Respond(e) ==
    /\ \E cmd \in Requests : Answer(e, cmd)
    /\ UNCHANGED <<ecu_list, heartbeat, real, late, bounds>>

Change(e) ==
    /\ changes < MaxChanges /\ changes' = changes + 1
    /\ \E s \in StatusBytes : real' = [real EXCEPT ![e] = s]
    /\ UNCHANGED <<ecu_list, heartbeat, gateway_queue, asked, late, requests, losses>>

Heartbeat == Cycle \/ Check \/ Poll

Next ==
    \/ Heartbeat \/ Parse
    \/ \E e \in Ecus : Respond(e) \/ Change(e) \/ \E cmd \in AppRequests : Request(e, cmd)

(* The tasks share one priority and take turns; every ECU answers.         *)
Spec == Init /\ [][Next]_vars
FairSpec == Spec /\ WF_vars(Heartbeat) /\ WF_vars(Parse)
                 /\ \A e \in Ecus : WF_vars(Respond(e))

-----------------------------------------------------------------------------
TypeOK ==
    /\ status \in [Ecus -> 0..15] /\ protocol \in [Ecus -> 0..15]
    /\ i \in 0..NUM_OF_ECUS /\ hb \in {"delay", "check", "send"}
    /\ gateway_queue \in Seq([id : Ecus, cmd : Requests, byte : 0..255])
    /\ Len(gateway_queue) <= GW_QUEUE_SIZE
    /\ asked \in [Ecus -> SUBSET Requests]
    /\ real \in [Ecus -> StatusBytes]
    /\ late \in [Ecus -> Nat]
    /\ requests \in 0..MaxRequests /\ changes \in 0..MaxChanges /\ losses \in 0..MaxLost

(* An ECU that is known to be updating gets one more status request of the *)
(* heartbeat at the most: the one it had decided on before the status      *)
(* arrived (gateway.c:88-90).  The application's own are its own affair.   *)
OneLateRequest == \A e \in Ecus : late[e] <= 1

Polled(e) == Poll /\ i = e /\ Sends(e)
CutOff(e) == status[e] = ECU_STAT_UPDATING \/ ~Sends(e)

(* Heartbeat_Task keeps asking every ECU, but for those whose last status  *)
(* was UPDATING and those whose protocol a REQ_ALL answer has overwritten: *)
(* these it never reaches again, which the property allows.                *)
HeartbeatReaches ==
    \A e \in Ecus : []<><<Polled(e)>>_vars \/ <>[]CutOff(e)

(* Once the ECUs keep their state ecu_list tells it, whatever frames were  *)
(* lost and answers dropped before - for the ECUs that are still asked,    *)
(* and as far as a field of four bits can tell it.                         *)
StatusGetsKnown ==
    \A e \in Ecus : <>[](CutOff(e) \/ status[e] = StatusField(real[e]))
=============================================================================
