----------------------------- MODULE GwFirmware -----------------------------
(***************************************************************************)
(* CAN_updateFirmware (_old/Framework/interfaces/can/can.c): the gateway   *)
(* side of the firmware update protocol, a strict dialogue of commands and *)
(* answers.  The answers reach it as PDUs through fw_update_queue, where   *)
(* nothing says which command, which update or which ECU they belong to.   *)
(*                                                                         *)
(* The bootloaders of the ECUs are not part of the repository: they answer *)
(* each command the code expects an answer to, at any later time, and      *)
(* ignore the commands that make no sense to them.                         *)
(***************************************************************************)
EXTENDS Integers, Sequences

CONSTANTS Ecus, NONE,
          Packets,       \* packets of FW_DATA_SIZE bytes in the firmware file
          SecureUpdate,  \* the argument secureUpdate
          RandomBytes,   \* first bytes a bootloader's random number may have
          FW_QUEUE_SIZE,
          Networks,      \* the networks the gateway may be in: see Network
          MaxReadErrors  \* bound: failing f_read

(* The ECUs it can update, those on CAN, and whether a bootloader may take *)
(* longer than TIMEOUT to answer; bounds: calls of ECU_updateFirmware, and *)
(* frames CAN_sendFrame fails to send.                                     *)
Network == [ecus : SUBSET Ecus, can : SUBSET Ecus, late : BOOLEAN,
            maxUpdates : Nat, maxLost : Nat]

Bytes == {"RESET_ACK", "0xFF", "FRAME_ACK", "END_ACK", "other"}
Commands == {"RESET", "BEGIN", "FRAME", "END"}

ASSUME FwAssumption ==
    /\ NONE \notin Ecus
    /\ Packets \in Nat /\ FW_QUEUE_SIZE \in Nat /\ SecureUpdate \in BOOLEAN
    /\ Networks \subseteq Network /\ RandomBytes \subseteq Bytes /\ MaxReadErrors \in Nat

VARIABLES pc,       \* the answer CAN_updateFirmware waits for, or "off"
          ecu,      \* its argument ecu_id
          packet,   \* packets read from the file so far
          result,   \* the last call's return value (0 is STATUS_SUCCESS), -1 none
          fw_update_queue,
          bus,      \* frames sent to every ECU and not handled by it
          boot, image,  \* the bootloaders: state and packets stored
          net,      \* the network: which ECUs there are, and how they behave
          updates, losses, errors, \* counters for the bounds
          complete  \* history: the last call returned from its last line

updater == <<pc, ecu, packet, result, complete, updates, errors>>
ecus == <<boot, image, net>>
vars == <<updater, fw_update_queue, bus, losses, ecus>>

STATUS_SUCCESS == 0
STATUS_ERROR == 1
pdFALSE == 0
pdTRUE == 1

Init ==
    /\ pc = "off" /\ ecu = NONE /\ packet = 0 /\ result = -1 /\ complete = FALSE
    /\ fw_update_queue = <<>> /\ bus = [e \in Ecus |-> <<>>]
    /\ boot = [e \in Ecus |-> "app"] /\ image = [e \in Ecus |-> <<>>]
    /\ net \in Networks /\ updates = 0 /\ losses = 0 /\ errors = 0

(* CAN_sendFrame: its status is only printed, a frame may get lost.        *)
SendFrame(e, cmd, n) ==
    \/ bus' = [bus EXCEPT ![e] = Append(@, [cmd |-> cmd, n |-> n])] /\ UNCHANGED losses
    \/ losses < net.maxLost /\ losses' = losses + 1 /\ UNCHANGED bus

Answer == Head(fw_update_queue)

-----------------------------------------------------------------------------
\* Mutated forms of the definitions below, used by the mutants of the project.
MoreToRead_OffByOne == packet <= Packets
Timeout_Waits == pc # "off" /\ fw_update_queue = <<>> /\ UNCHANGED vars
Timeout_LastUnchecked ==
    /\ pc # "off" /\ fw_update_queue = <<>> /\ (net.late \/ bus[ecu] = <<>>)
    /\ pc' = "off" /\ result' = pdFALSE /\ complete' = (pc = "END")
    /\ UNCHANGED <<ecu, packet, updates, errors, bus, losses, fw_update_queue, ecus>>
Timeout_FrameUnchecked ==
    /\ pc # "off" /\ fw_update_queue = <<>> /\ (net.late \/ bus[ecu] = <<>>)
    /\ IF pc = "FRAME" /\ packet < Packets
       THEN packet' = packet + 1 /\ SendFrame(ecu, "FRAME", packet + 1)
            /\ UNCHANGED <<pc, result, complete>>
       ELSE pc' = "off" /\ result' = pdFALSE /\ complete' = FALSE
            /\ UNCHANGED <<packet, bus, losses>>
    /\ UNCHANGED <<ecu, updates, errors, fw_update_queue, ecus>>
-----------------------------------------------------------------------------
(* The first byte the code insists on in every wait: after BEGIN of a      *)
(* secure update it takes any answer for the ECU's random number.          *)
Expected(byte) ==
    \/ pc = "RESET" /\ byte = "RESET_ACK"
    \/ pc = "BEGIN" /\ (SecureUpdate \/ byte = "0xFF")
    \/ pc = "FRAME" /\ byte = "FRAME_ACK"
    \/ pc = "END" /\ byte = "END_ACK"

(* 1. Send ECU reset.  CAN_updateFirmware neither opens nor rewinds fw, it *)
(* reads on from where the file is: that it is at the start is up to the   *)
(* caller, who opens it anew for every update (SD_openLatestFW in keyOff,  *)
(* Sources/main.c:189; commented out, as all of keyOff is).                *)
UpdateBegins(e) ==
    /\ pc = "off" /\ updates < net.maxUpdates /\ e \in net.can
    /\ pc' = "RESET" /\ ecu' = e /\ packet' = 0 /\ result' = -1 /\ complete' = FALSE
    /\ updates' = updates + 1
    /\ SendFrame(e, "RESET", 0)
    /\ UNCHANGED <<fw_update_queue, errors, ecus>>

(* ECU_updateFirmware for an ECU that is not on CAN: LIN_updateFirmware    *)
(* and ETH_updateFirmware report success, any other protocol is an error.  *)
UpdateElsewhere(e) ==
    /\ pc = "off" /\ updates < net.maxUpdates /\ e \notin net.can
    /\ ecu' = e /\ packet' = 0 /\ complete' = FALSE /\ result' \in {STATUS_SUCCESS, STATUS_ERROR}
    /\ updates' = updates + 1
    /\ UNCHANGED <<pc, fw_update_queue, errors, bus, losses, ecus>>

MoreToRead == packet < Packets

Accept == pc # "off" /\ fw_update_queue # <<>> /\ Expected(Answer.byte)
             /\ fw_update_queue' = Tail(fw_update_queue)

(* 3. Begin FW Update                                                      *)
Begin ==
    /\ Accept /\ pc = "RESET"
    /\ pc' = "BEGIN" /\ SendFrame(ecu, "BEGIN", 0)
    /\ UNCHANGED <<ecu, packet, result, complete, updates, errors, ecus>>

(* 5. Send Firmware: f_read delivers the next packet, which is padded,     *)
(* encrypted and sent.                                                     *)
SendPacket ==
    /\ Accept /\ pc \in {"BEGIN", "FRAME"} /\ MoreToRead
    /\ packet' = packet + 1
    /\ pc' = "FRAME" /\ SendFrame(ecu, "FRAME", packet + 1)
    /\ UNCHANGED <<ecu, result, complete, updates, errors, ecus>>

(* 6. Send FW End Flag: at the end of the file br is 0, and so it is when  *)
(* f_read fails, as its result is not looked at.                           *)
SendEnd ==
    /\ Accept /\ pc \in {"BEGIN", "FRAME"}
    /\ \/ ~MoreToRead /\ UNCHANGED errors
       \/ MoreToRead /\ errors < MaxReadErrors /\ errors' = errors + 1
    /\ pc' = "END" /\ SendFrame(ecu, "END", 0)
    /\ UNCHANGED <<ecu, packet, result, complete, updates, ecus>>

Return(stat, done) ==
    /\ result' = stat /\ complete' = done /\ pc' = "off"
    /\ UNCHANGED <<ecu, packet, updates, errors, bus, losses, ecus>>

Finish == Accept /\ pc = "END" /\ Return(STATUS_SUCCESS, TRUE)

(* return stat, with what xQueueReceive returned in stat.                  *)
Reject ==
    /\ pc # "off" /\ fw_update_queue # <<>> /\ ~Expected(Answer.byte)
    /\ fw_update_queue' = Tail(fw_update_queue)
    /\ Return(pdTRUE, FALSE)

Timeout ==
    /\ pc # "off" /\ fw_update_queue = <<>> /\ (net.late \/ bus[ecu] = <<>>)
    /\ Return(pdFALSE, FALSE)
    /\ UNCHANGED fw_update_queue

-----------------------------------------------------------------------------
\* The bootloader of ECU e handles the next frame sent to it.

(* The answer passes the interrupt, PDU_queue and the router, which drops  *)
(* it when fw_update_queue is full (GwPdu).                                *)
Answers(e, byte) ==
    fw_update_queue' = IF Len(fw_update_queue) < FW_QUEUE_SIZE
                       THEN Append(fw_update_queue, [byte |-> byte, from |-> e])
                       ELSE fw_update_queue

Handle(e) ==
    LET f == Head(bus[e]) IN
    /\ bus[e] # <<>> /\ bus' = [bus EXCEPT ![e] = Tail(@)]
    /\ \/ /\ f.cmd = "RESET"
          /\ boot' = [boot EXCEPT ![e] = "reset"] /\ image' = [image EXCEPT ![e] = <<>>]
          /\ Answers(e, "RESET_ACK")
       \/ /\ f.cmd = "BEGIN" /\ boot[e] = "reset"
          /\ boot' = [boot EXCEPT ![e] = "begun"] /\ UNCHANGED image
          /\ \E b \in (IF SecureUpdate THEN RandomBytes ELSE {"0xFF"}) : Answers(e, b)
       \/ /\ f.cmd = "FRAME" /\ boot[e] = "begun"
          /\ image' = [image EXCEPT ![e] = Append(@, f.n)] /\ UNCHANGED boot
          /\ Answers(e, "FRAME_ACK")
       \/ /\ f.cmd = "END" /\ boot[e] = "begun"
          /\ boot' = [boot EXCEPT ![e] = "done"] /\ UNCHANGED image
          /\ Answers(e, "END_ACK")
       \/ /\ \/ f.cmd = "BEGIN" /\ boot[e] # "reset"
             \/ f.cmd \in {"FRAME", "END"} /\ boot[e] # "begun"
          /\ UNCHANGED <<boot, image, fw_update_queue>>
    /\ UNCHANGED <<updater, losses, net>>

Updater == (\E e \in net.ecus : UpdateBegins(e) \/ UpdateElsewhere(e)) \/ Begin \/ SendPacket \/ SendEnd
              \/ Finish \/ Reject \/ Timeout
Next == Updater \/ \E e \in net.ecus : Handle(e)

(* xQueueReceive returns after TIMEOUT ticks at the latest; bootloaders    *)
(* that are not late have handled what was sent to them by then.           *)
Spec == Init /\ [][Next]_vars
FairSpec == Spec /\ WF_vars(Updater) /\ \A e \in Ecus : WF_vars(~net.late /\ Handle(e))

-----------------------------------------------------------------------------
TypeOK ==
    /\ pc \in Commands \cup {"off"} /\ ecu \in Ecus \cup {NONE}
    /\ packet \in 0..Packets /\ result \in {-1, 0, 1} /\ complete \in BOOLEAN
    /\ fw_update_queue \in Seq([byte : Bytes, from : Ecus])
    /\ Len(fw_update_queue) <= FW_QUEUE_SIZE
    /\ bus \in [Ecus -> Seq([cmd : Commands, n : 0..Packets])]
    /\ boot \in [Ecus -> {"app", "reset", "begun", "done"}]
    /\ image \in [Ecus -> Seq(1..Packets)]
    /\ net \in Networks
    /\ updates \in 0..net.maxUpdates /\ losses \in 0..net.maxLost /\ errors \in 0..MaxReadErrors

Installed(e, n) == boot[e] = "done" /\ image[e] = [k \in 1..n |-> k]

(* A frame that is lost shows: its answer does not come.  Where answers    *)
(* come late, one left over from an earlier command or update may take its *)
(* place, and nothing is claimed any more.                                 *)
LossesShow == net.late => losses = 0

(* An update that runs to its last line has installed every packet it read *)
(* from the file, in order, on the ECU it was called for - although it     *)
(* knows an answer by its first byte only and answers may be left over     *)
(* from earlier updates.  Where answers come late, those to the updates    *)
(* before may carry it there ahead of its own ECU, which has then still    *)
(* frames to handle: it will have been installed when it has.  It fails    *)
(* once a frame is lost among late answers (LossesShow).                   *)
CompleteIsInstalled ==
    complete /\ LossesShow => Installed(ecu, packet) \/ (net.late /\ bus[ecu] # <<>>)

(* No image has a gap, a repetition or two packets swapped, whatever was   *)
(* cut short before - as long as no frame is lost among late answers       *)
(* (LossesShow) and the caller of each update has opened the file anew     *)
(* (UpdateBegins); otherwise there are images with gaps.                   *)
ImageInOrder == LossesShow => \A e \in Ecus : \A k \in 1..Len(image[e]) : image[e][k] = k

(* Every update returns: each of its waits ends with an answer or with a   *)
(* timeout, and the file has an end.                                       *)
UpdateReturns == pc # "off" ~> pc = "off"

-----------------------------------------------------------------------------
(* can.c:178 "@return : STATUS_SUCCESS, STATUS_ERROR": no update that did  *)
(* not install the firmware reports success.                               *)
SuccessIsInstalled == pc = "off" /\ result = STATUS_SUCCESS => Installed(ecu, Packets)
=============================================================================
