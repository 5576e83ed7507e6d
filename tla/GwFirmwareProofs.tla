--------------------------- MODULE GwFirmwareProofs ---------------------------
(***************************************************************************)
(* Proofs about GwFirmware, for any number of ECUs, any file, any size of  *)
(* the queue, and any number of updates, lost frames and failing reads, on *)
(* all networks: types, and that an update which runs to its last line     *)
(* installs what it read - where no bootloader takes longer than TIMEOUT,  *)
(* whatever frames are lost, and where bootloaders may be late, until the  *)
(* first frame is lost.  The two cases need different accounts: with       *)
(* prompt answers the dialogue is in step, with late ones the updater may  *)
(* be any number of commands ahead.                                        *)
(***************************************************************************)
EXTENDS GwFirmware, TLAPS

Frames == {f \in [cmd : Commands, n : 0..Packets] : f.cmd = "FRAME" => f.n # 0}
Answered == [byte : Bytes, from : Ecus]

(* The frames on the bus carry packets of the file.                        *)
Types == TypeOK /\ bus \in [Ecus -> Seq(Frames)] /\ (pc # "off" => ecu \in Ecus)

-----------------------------------------------------------------------------
LEMMA Sizes ==
    /\ Packets \in Nat /\ FW_QUEUE_SIZE \in Nat /\ MaxReadErrors \in Nat
    /\ 0 \in 0..Packets /\ RandomBytes \subseteq Bytes
BY FwAssumption

LEMMA Nets ==
    \A n \in Networks : /\ n.ecus \subseteq Ecus /\ n.can \subseteq Ecus
                        /\ n.maxUpdates \in Nat /\ n.maxLost \in Nat
BY FwAssumption DEF Network

LEMMA FrameValues ==
    /\ [cmd |-> "RESET", n |-> 0] \in Frames /\ [cmd |-> "BEGIN", n |-> 0] \in Frames
    /\ [cmd |-> "END", n |-> 0] \in Frames
    /\ \A k \in 0..Packets : k # 0 => [cmd |-> "FRAME", n |-> k] \in Frames
    /\ \A f \in Frames : f \in [cmd : Commands, n : 0..Packets] /\ (f.cmd = "FRAME" => f.n \in 1..Packets)
BY Sizes DEF Frames, Commands

LEMMA InitTypes == Init => Types
<1> SUFFICES ASSUME Init PROVE Types
  OBVIOUS
<1>1. bus \in [Ecus -> Seq(Frames)] /\ bus \in [Ecus -> Seq([cmd : Commands, n : 0..Packets])]
  BY DEF Init
<1>2. fw_update_queue \in Seq(Answered) /\ Len(fw_update_queue) <= FW_QUEUE_SIZE
  BY Sizes DEF Init
<1>3. boot \in [Ecus -> {"app", "reset", "begun", "done"}] /\ image \in [Ecus -> Seq(1..Packets)]
  BY DEF Init
<1>4. updates \in 0..net.maxUpdates /\ losses \in 0..net.maxLost /\ errors \in 0..MaxReadErrors
  BY Sizes, Nets DEF Init
<1> QED BY <1>1, <1>2, <1>3, <1>4, Sizes DEF Init, Types, TypeOK, Answered

(* A frame that is sent joins those on the bus, or is lost.                *)
LEMMA Sending ==
    ASSUME Types, NEW e \in Ecus, NEW cmd, NEW n, [cmd |-> cmd, n |-> n] \in Frames,
           SendFrame(e, cmd, n)
    PROVE  /\ bus' \in [Ecus -> Seq(Frames)]
           /\ bus' \in [Ecus -> Seq([cmd : Commands, n : 0..Packets])]
           /\ (net' = net => losses' \in 0..net'.maxLost)
<1>1. PICK f \in Frames : f = [cmd |-> cmd, n |-> n]
  OBVIOUS
<1>2. bus' \in [Ecus -> Seq(Frames)]
  <2>1. Append(bus[e], f) \in Seq(Frames)
    BY DEF Types
  <2>2. bus' = bus \/ bus' = [bus EXCEPT ![e] = Append(bus[e], f)]
    BY <1>1 DEF SendFrame
  <2> QED BY <2>1, <2>2 DEF Types
<1>3. f \in [cmd : Commands, n : 0..Packets]
  BY FrameValues
<1>4. bus' \in [Ecus -> Seq([cmd : Commands, n : 0..Packets])]
  <2>0. bus[e] \in Seq([cmd : Commands, n : 0..Packets])
    BY DEF Types, TypeOK
  <2>1. Append(bus[e], f) \in Seq([cmd : Commands, n : 0..Packets])
    BY <1>3, <2>0
  <2>2. bus' = bus \/ bus' = [bus EXCEPT ![e] = Append(bus[e], f)]
    BY <1>1 DEF SendFrame
  <2> QED BY <2>1, <2>2 DEF Types, TypeOK
<1>5. net' = net => losses' \in 0..net'.maxLost
  BY Nets, SMTT(30) DEF SendFrame, Types, TypeOK
<1> QED BY <1>2, <1>4, <1>5

LEMMA Taking ==
    ASSUME Types, fw_update_queue # <<>>, fw_update_queue' = Tail(fw_update_queue)
    PROVE  /\ fw_update_queue' \in Seq(Answered) /\ Len(fw_update_queue') <= FW_QUEUE_SIZE
           /\ Len(fw_update_queue') = Len(fw_update_queue) - 1
<1>1. fw_update_queue \in Seq(Answered) /\ Len(fw_update_queue) <= FW_QUEUE_SIZE
  BY DEF Types, TypeOK, Answered
<1>2. PICK q \in Seq(Answered) : q = fw_update_queue /\ q # <<>> /\ Len(q) <= FW_QUEUE_SIZE
  BY <1>1
<1>3. Tail(q) \in Seq(Answered) /\ Len(Tail(q)) = Len(q) - 1 /\ Len(Tail(q)) <= FW_QUEUE_SIZE
  BY <1>2, Sizes
<1> QED BY <1>2, <1>3

LEMMA Answering ==
    ASSUME Types, NEW e \in Ecus, NEW byte \in Bytes, Answers(e, byte)
    PROVE  /\ fw_update_queue' \in Seq(Answered) /\ Len(fw_update_queue') <= FW_QUEUE_SIZE
           /\ Len(fw_update_queue') \in {Len(fw_update_queue), Len(fw_update_queue) + 1}
<1>1. fw_update_queue \in Seq(Answered) /\ Len(fw_update_queue) <= FW_QUEUE_SIZE
  BY DEF Types, TypeOK, Answered
<1>2. PICK r \in Answered : r = [byte |-> byte, from |-> e]
  BY DEF Answered
<1> QED BY <1>1, <1>2, Sizes DEF Answers

-----------------------------------------------------------------------------
(* What every step of the update leaves alone.                             *)
LEMMA UpdaterTypes ==
    ASSUME Types, UNCHANGED ecus,
           pc' \in Commands \cup {"off"}, ecu' \in Ecus, packet' \in 0..Packets,
           result' \in {-1, 0, 1}, complete' \in BOOLEAN,
           fw_update_queue' \in Seq(Answered), Len(fw_update_queue') <= FW_QUEUE_SIZE,
           bus' \in [Ecus -> Seq(Frames)],
           bus' \in [Ecus -> Seq([cmd : Commands, n : 0..Packets])],
           updates' \in 0..net.maxUpdates, losses' \in 0..net.maxLost,
           errors' \in 0..MaxReadErrors
    PROVE  Types'
BY DEF Types, TypeOK, ecus, Answered

LEMMA StartKept ==
    ASSUME Types, NEW e \in net.ecus, UpdateBegins(e) \/ UpdateElsewhere(e)
    PROVE  Types'
<1>1. e \in Ecus /\ net \in Networks
  BY Nets DEF Types, TypeOK
<1>2. updates' \in 0..net.maxUpdates
  BY <1>1, Nets, SMTT(30) DEF Types, TypeOK, UpdateBegins, UpdateElsewhere
<1>3. UNCHANGED ecus /\ UNCHANGED fw_update_queue /\ UNCHANGED errors
  BY DEF UpdateBegins, UpdateElsewhere, ecus
<1>4. fw_update_queue' \in Seq(Answered) /\ Len(fw_update_queue') <= FW_QUEUE_SIZE
  BY <1>3 DEF Types, TypeOK, Answered
<1>5. complete' \in BOOLEAN /\ ecu' = e /\ packet' = 0
  BY DEF UpdateBegins, UpdateElsewhere
<1>6. CASE UpdateBegins(e)
  <2>1. /\ bus' \in [Ecus -> Seq(Frames)] /\ losses' \in 0..net.maxLost
        /\ bus' \in [Ecus -> Seq([cmd : Commands, n : 0..Packets])]
    BY <1>1, <1>3, <1>6, Sending, FrameValues DEF UpdateBegins, ecus
  <2>2. pc' = "RESET" /\ result' = -1
    BY <1>6 DEF UpdateBegins
  <2> QED BY <1>1, <1>2, <1>3, <1>4, <1>5, <2>1, <2>2, Sizes, UpdaterTypes
          DEF Commands, Types, TypeOK
<1>7. CASE UpdateElsewhere(e)
  <2>1. /\ bus' \in [Ecus -> Seq(Frames)] /\ losses' \in 0..net.maxLost
        /\ bus' \in [Ecus -> Seq([cmd : Commands, n : 0..Packets])]
    BY <1>7 DEF UpdateElsewhere, Types, TypeOK
  <2>2. pc' = "off" /\ result' \in {0, 1}
    BY <1>7 DEF UpdateElsewhere, STATUS_SUCCESS, STATUS_ERROR
  <2> QED BY <1>1, <1>2, <1>3, <1>4, <1>5, <2>1, <2>2, Sizes, UpdaterTypes DEF Types, TypeOK
<1> QED BY <1>6, <1>7

LEMMA SendKept == ASSUME Types, Begin \/ SendPacket \/ SendEnd PROVE Types'
<1>1. Accept /\ pc # "off" /\ ecu \in Ecus
  BY DEF Begin, SendPacket, SendEnd, Accept, Types
<1>2. fw_update_queue' \in Seq(Answered) /\ Len(fw_update_queue') <= FW_QUEUE_SIZE
  BY <1>1, Taking DEF Accept
<1>3. UNCHANGED <<ecu, result, complete, updates, net>> /\ UNCHANGED ecus
  BY DEF Begin, SendPacket, SendEnd, ecus
<1>4. errors' \in 0..MaxReadErrors
  BY Sizes DEF Begin, SendPacket, SendEnd, Types, TypeOK
<1>5. packet' \in 0..Packets /\ (SendPacket => packet + 1 \in 0..Packets /\ packet + 1 # 0)
  BY Sizes DEF Begin, SendPacket, SendEnd, MoreToRead, Types, TypeOK
<1>6. PICK cmd \in Commands, n \in 0..Packets :
          pc' = cmd /\ [cmd |-> cmd, n |-> n] \in Frames /\ SendFrame(ecu, cmd, n)
  <2>1. CASE Begin
    BY <2>1, FrameValues, Sizes DEF Begin, Commands
  <2>2. CASE SendPacket
    BY <1>5, <2>2, FrameValues DEF SendPacket, Commands
  <2>3. CASE SendEnd
    BY <2>3, FrameValues, Sizes DEF SendEnd, Commands
  <2> QED BY <2>1, <2>2, <2>3
<1>7. /\ bus' \in [Ecus -> Seq(Frames)] /\ losses' \in 0..net.maxLost
      /\ bus' \in [Ecus -> Seq([cmd : Commands, n : 0..Packets])]
  BY <1>1, <1>3, <1>6, Sending
<1>8. result' \in {-1, 0, 1} /\ updates' \in 0..net.maxUpdates
  BY <1>3 DEF Types, TypeOK
<1>9. complete' \in BOOLEAN
  BY <1>3 DEF Types, TypeOK
<1> QED BY <1>1, <1>2, <1>3, <1>4, <1>5, <1>6, <1>7, <1>8, <1>9, UpdaterTypes

LEMMA ReturnKept == ASSUME Types, Finish \/ Reject \/ Timeout PROVE Types'
<1>1. fw_update_queue' \in Seq(Answered) /\ Len(fw_update_queue') <= FW_QUEUE_SIZE
  <2>1. CASE Finish \/ Reject
    BY <2>1, Taking DEF Finish, Reject, Accept
  <2>2. CASE Timeout
    BY <2>2 DEF Timeout, Types, TypeOK, Answered
  <2> QED BY <2>1, <2>2
<1>2. pc # "off" /\ ecu \in Ecus
  BY DEF Finish, Reject, Timeout, Accept, Types
<1>3. PICK stat \in {0, 1}, done \in BOOLEAN : Return(stat, done)
  BY DEF Finish, Reject, Timeout, STATUS_SUCCESS, pdTRUE, pdFALSE
<1>4. complete' \in BOOLEAN
  BY <1>3 DEF Return
<1>5. /\ pc' = "off" /\ result' \in {-1, 0, 1} /\ UNCHANGED ecus
      /\ UNCHANGED <<ecu, packet, updates, errors, bus, losses>>
  BY <1>3 DEF Return
<1> QED BY <1>1, <1>2, <1>4, <1>5, UpdaterTypes DEF Types, TypeOK

LEMMA HandleKept == ASSUME Types, NEW e \in net.ecus, Handle(e) PROVE Types'
<1>1. e \in Ecus /\ net \in Networks
  BY Nets DEF Types, TypeOK
<1>2. bus[e] \in Seq(Frames) /\ bus[e] # <<>> /\ bus' = [bus EXCEPT ![e] = Tail(bus[e])]
  BY <1>1 DEF Handle, Types
<1>3. PICK f \in Frames : f = Head(bus[e])
  BY <1>2
<1>4. bus' \in [Ecus -> Seq(Frames)]
  <2>1. Tail(bus[e]) \in Seq(Frames)
    BY <1>2
  <2> QED BY <1>1, <1>2, <2>1 DEF Types
<1>5. bus' \in [Ecus -> Seq([cmd : Commands, n : 0..Packets])]
  <2>1. bus[e] \in Seq([cmd : Commands, n : 0..Packets])
    BY <1>1 DEF Types, TypeOK
  <2>2. Tail(bus[e]) \in Seq([cmd : Commands, n : 0..Packets])
    BY <1>2, <2>1
  <2> QED BY <1>1, <1>2, <2>2 DEF Types, TypeOK
<1>6. boot' \in [Ecus -> {"app", "reset", "begun", "done"}]
  BY <1>1 DEF Handle, Types, TypeOK
<1>7. image' \in [Ecus -> Seq(1..Packets)]
  <2>1. image[e] \in Seq(1..Packets) /\ (f.cmd = "FRAME" => f.n \in 1..Packets)
    BY <1>1, FrameValues DEF Types, TypeOK
  <2>2. f.cmd = "FRAME" => Append(image[e], f.n) \in Seq(1..Packets)
    BY <2>1
  <2>3. \/ image' = image \/ image' = [image EXCEPT ![e] = <<>>]
        \/ f.cmd = "FRAME" /\ image' = [image EXCEPT ![e] = Append(image[e], f.n)]
    BY <1>3 DEF Handle
  <2>4. <<>> \in Seq(1..Packets)
    OBVIOUS
  <2> QED BY <1>1, <2>2, <2>3, <2>4 DEF Types, TypeOK
<1>8. fw_update_queue' \in Seq(Answered) /\ Len(fw_update_queue') <= FW_QUEUE_SIZE
  <2>1. \/ UNCHANGED fw_update_queue \/ \E b \in Bytes : Answers(e, b)
    BY <1>3, Sizes DEF Handle, Bytes
  <2>2. CASE UNCHANGED fw_update_queue
    BY <2>2 DEF Types, TypeOK, Answered
  <2> QED BY <1>1, <2>1, <2>2, Answering
<1>9. UNCHANGED <<pc, ecu, packet, result, complete, updates, errors, losses, net>>
  BY DEF Handle, updater
<1> QED BY <1>4, <1>5, <1>6, <1>7, <1>8, <1>9 DEF Types, TypeOK, Answered

LEMMA TypesKept == Types /\ [Next]_vars => Types'
<1> SUFFICES ASSUME Types, [Next]_vars PROVE Types'
  OBVIOUS
<1>1. CASE UNCHANGED vars
  BY <1>1 DEF Types, TypeOK, vars, updater, ecus
<1> QED BY <1>1, StartKept, SendKept, ReturnKept, HandleKept DEF Next, Updater

-----------------------------------------------------------------------------
(* Prompt answers: the updater and the bootloader are in step.             *)
Quiet == fw_update_queue = <<>> /\ \A e \in Ecus : bus[e] = <<>>

Stored(n) == Len(image[ecu]) = n

(* The bootloader before it handles the command the update waits for an    *)
(* answer to, and after it has.                                            *)
Before ==
    /\ pc = "BEGIN" => boot[ecu] = "reset" /\ Stored(0)
    /\ pc = "FRAME" => boot[ecu] = "begun" /\ packet # 0 /\ Stored(packet - 1)
    /\ pc = "END"   => boot[ecu] = "begun" /\ Stored(packet)
After ==
    /\ pc = "RESET" => boot[ecu] = "reset" /\ Stored(0)
    /\ pc = "BEGIN" => boot[ecu] = "begun" /\ Stored(0)
    /\ pc = "FRAME" => boot[ecu] = "begun" /\ Stored(packet)
    /\ pc = "END"   => boot[ecu] = "done"  /\ Stored(packet)

Pending == [cmd |-> pc, n |-> IF pc = "FRAME" THEN packet ELSE 0]

(* The dialogue is in step: the command the update waits for is on its     *)
(* way, or its answer is, or it is lost and nothing is on its way.         *)
InStep ==
    /\ pc = "off" => Quiet
    /\ pc # "off" /\ ~Quiet =>
          /\ \A e \in Ecus : e # ecu => bus[e] = <<>>
          /\ \/ fw_update_queue = <<>> /\ bus[ecu] = <<Pending>> /\ Before
             \/ Len(fw_update_queue) = 1 /\ bus[ecu] = <<>> /\ After

(* What ImageInOrder says of the images, losses or none.                   *)
InOrder == \A e \in Ecus : \A k \in 1..Len(image[e]) : image[e][k] = k

Dialogue ==
    /\ InStep /\ InOrder
    /\ pc \in {"RESET", "BEGIN"} => packet = 0
    /\ complete => pc = "off" /\ ecu \in Ecus /\ boot[ecu] = "done" /\ Stored(packet)

LEMMA StartInStep ==
    ASSUME Types, Dialogue, NEW e \in net.ecus, UpdateBegins(e) \/ UpdateElsewhere(e) PROVE Dialogue'
<1> USE DEF Dialogue
<1>1. e \in Ecus /\ pc = "off" /\ Quiet
  BY Nets DEF Types, TypeOK, UpdateBegins, UpdateElsewhere, InStep
<1>2. UNCHANGED <<fw_update_queue, boot, image>> /\ packet' = 0 /\ complete' = FALSE
  BY DEF UpdateBegins, UpdateElsewhere, ecus
<1>3. InOrder'
  BY <1>2 DEF InOrder
<1>4. CASE UpdateElsewhere(e)
  <2>1. pc' = "off" /\ bus' = bus
    BY <1>1, <1>4 DEF UpdateElsewhere
  <2> QED BY <1>1, <1>2, <1>3, <2>1 DEF InStep, Quiet
<1>5. CASE UpdateBegins(e)
  <2>1. pc' = "RESET" /\ ecu' = e
    BY <1>5 DEF UpdateBegins
  <2>2. CASE bus' = bus
    BY <1>1, <1>2, <1>3, <2>1, <2>2 DEF InStep, Quiet
  <2>3. CASE bus' = [bus EXCEPT ![e] = Append(@, [cmd |-> "RESET", n |-> 0])]
    <3>a. bus[e] = <<>> /\ bus \in [Ecus -> Seq(Frames)]
      BY <1>1 DEF Types, Quiet
    <3>b. bus'[e] = Append(<<>>, [cmd |-> "RESET", n |-> 0])
      BY <1>1, <2>3, <3>a
    <3>c. \A x \in Ecus : x # e => bus'[x] = <<>>
      BY <1>1, <2>3, <3>a DEF Quiet
    <3>1. bus'[e] = <<[cmd |-> "RESET", n |-> 0]>> /\ \A x \in Ecus : x # e => bus'[x] = <<>>
      BY <3>b, <3>c
    <3>2. Pending' = [cmd |-> "RESET", n |-> 0] /\ Before'
      BY <2>1 DEF Pending, Before
    <3>3. bus'[ecu'] = <<Pending'>> /\ fw_update_queue' = <<>>
      BY <1>1, <1>2, <2>1, <3>1, <3>2 DEF Quiet
    <3>4. InStep'
      BY <2>1, <3>1, <3>2, <3>3 DEF InStep
    <3> QED BY <1>2, <1>3, <2>1, <3>4
  <2> QED BY <1>5, <2>2, <2>3 DEF UpdateBegins, SendFrame
<1> QED BY <1>4, <1>5

LEMMA SendInStep == ASSUME Types, Dialogue, Begin \/ SendPacket \/ SendEnd PROVE Dialogue'
<1> USE DEF Dialogue
<1>1. Accept /\ pc # "off" /\ fw_update_queue # <<>> /\ ecu \in Ecus
  BY DEF Begin, SendPacket, SendEnd, Accept, Types
<1>2. ~Quiet /\ fw_update_queue' = Tail(fw_update_queue)
  BY <1>1 DEF Quiet, Accept
<1>3. Len(fw_update_queue) = 1 /\ After /\ \A e \in Ecus : bus[e] = <<>>
  BY <1>1, <1>2 DEF InStep
<1>4. fw_update_queue' = <<>>
  <2>1. Len(fw_update_queue') = 0 /\ fw_update_queue' \in Seq(Answered)
    BY <1>1, <1>2, <1>3, Taking
  <2> QED BY <2>1
<1>5. UNCHANGED <<ecu, boot, image>> /\ complete' = FALSE
  BY <1>1 DEF Begin, SendPacket, SendEnd, ecus
<1>6. InOrder'
  BY <1>5 DEF InOrder
<1>7. PICK cmd, n : /\ pc' = cmd /\ SendFrame(ecu, cmd, n)
                    /\ cmd \in {"BEGIN", "FRAME", "END"} /\ n = (IF cmd = "FRAME" THEN packet' ELSE 0)
                    /\ (cmd = "BEGIN" => packet' = 0) /\ Before'
  <2>0. packet \in Nat
    BY DEF Types, TypeOK
  <2>1. CASE Begin
    <3>1. boot[ecu] = "reset" /\ Stored(0) /\ packet = 0 /\ pc' = "BEGIN" /\ packet' = packet
      BY <1>3, <2>1 DEF Begin, After
    <3>2. Before'
      BY <1>5, <3>1 DEF Before, Stored
    <3> QED BY <2>1, <3>1, <3>2 DEF Begin
  <2>2. CASE SendPacket
    <3>1. boot[ecu] = "begun" /\ Stored(packet) /\ pc' = "FRAME" /\ packet' = packet + 1
      BY <1>3, <2>2 DEF SendPacket, After
    <3>2. packet' # 0 /\ packet' - 1 = packet
      BY <2>0, <3>1
    <3>3. Before'
      BY <1>5, <3>1, <3>2 DEF Before, Stored
    <3> QED BY <2>2, <3>1, <3>3 DEF SendPacket
  <2>3. CASE SendEnd
    <3>1. boot[ecu] = "begun" /\ Stored(packet) /\ pc' = "END" /\ packet' = packet
      BY <1>3, <2>3 DEF SendEnd, After
    <3>2. Before'
      BY <1>5, <3>1 DEF Before, Stored
    <3> QED BY <2>3, <3>1, <3>2 DEF SendEnd
  <2> QED BY <2>1, <2>2, <2>3
<1>8. CASE bus' = bus
  <2>1. Quiet'
    BY <1>3, <1>4, <1>8 DEF Quiet
  <2> QED BY <1>5, <1>6, <1>7, <2>1 DEF InStep
<1>9. CASE bus' = [bus EXCEPT ![ecu] = Append(@, [cmd |-> cmd, n |-> n])]
  <2>1. bus[ecu] = <<>> /\ bus \in [Ecus -> Seq(Frames)]
    BY <1>1, <1>3 DEF Types
  <2>2. bus'[ecu] = Append(<<>>, [cmd |-> cmd, n |-> n])
    BY <1>1, <1>9, <2>1
  <2>3. \A e \in Ecus : e # ecu => bus'[e] = <<>>
    BY <1>3, <1>9, <2>1
  <2>4. Pending' = [cmd |-> cmd, n |-> n]
    BY <1>7 DEF Pending
  <2>5. bus'[ecu'] = <<Pending'>>
    BY <1>5, <2>2, <2>4
  <2>6. InStep'
    BY <1>4, <1>5, <1>7, <2>3, <2>5 DEF InStep
  <2> QED BY <1>5, <1>6, <1>7, <2>6
<1> QED BY <1>7, <1>8, <1>9 DEF SendFrame

LEMMA ReturnInStep == ASSUME ~net.late, Types, Dialogue, Finish \/ Reject \/ Timeout PROVE Dialogue'
<1> USE DEF Dialogue
<1>1. pc # "off" /\ ecu \in Ecus /\ pc' = "off"
  BY DEF Finish, Reject, Timeout, Return, Accept, Types
<1>2. UNCHANGED <<ecu, packet, bus, boot, image>>
  BY DEF Finish, Reject, Timeout, Return, ecus
<1>3. InOrder'
  BY <1>2 DEF InOrder
<1>4. CASE Finish \/ Reject
  <2>1. fw_update_queue # <<>> /\ fw_update_queue' = Tail(fw_update_queue)
    BY <1>4 DEF Finish, Reject, Accept
  <2>2. Len(fw_update_queue) = 1 /\ After /\ \A e \in Ecus : bus[e] = <<>>
    BY <1>1, <2>1 DEF InStep, Quiet
  <2>3. fw_update_queue' = <<>>
    <3>1. Len(fw_update_queue') = 0 /\ fw_update_queue' \in Seq(Answered)
      BY <2>1, <2>2, Taking
    <3> QED BY <3>1
  <2>4. Quiet'
    BY <1>2, <2>2, <2>3 DEF Quiet
  <2>5. complete' => boot[ecu] = "done" /\ Stored(packet)
    BY <1>4, <2>2 DEF Finish, Reject, Return, After
  <2> QED BY <1>1, <1>2, <1>3, <2>4, <2>5 DEF InStep, Stored
<1>5. CASE Timeout
  <2>1. fw_update_queue = <<>> /\ bus[ecu] = <<>> /\ UNCHANGED fw_update_queue /\ complete' = FALSE
    BY <1>5 DEF Timeout, Return
  <2>2. Quiet
    BY <1>1, <2>1 DEF InStep
  <2>3. Quiet'
    BY <1>2, <2>1, <2>2 DEF Quiet
  <2> QED BY <1>1, <1>3, <2>1, <2>3 DEF InStep
<1> QED BY <1>4, <1>5

LEMMA HandleInStep == ASSUME Types, Dialogue, NEW e \in net.ecus, Handle(e) PROVE Dialogue'
<1> USE DEF Dialogue
<1>1. e \in Ecus /\ bus[e] # <<>> /\ ~Quiet /\ pc # "off"
  BY Nets DEF Types, TypeOK, Handle, Quiet, InStep
<1>2. e = ecu /\ fw_update_queue = <<>> /\ bus[ecu] = <<Pending>> /\ Before
  BY <1>1 DEF InStep
<1>3. UNCHANGED <<pc, ecu, packet, complete>> /\ complete = FALSE
  BY <1>1 DEF Handle, updater
<1>4. Head(bus[e]) = Pending /\ Tail(bus[e]) = <<>>
  BY <1>2
<1>5. bus'[ecu] = <<>> /\ \A x \in Ecus : bus'[x] = <<>>
  <2>1. bus' = [bus EXCEPT ![e] = <<>>]
    BY <1>4 DEF Handle
  <2> QED BY <1>1, <1>2, <2>1 DEF InStep, Types
<1>6. Pending.cmd = pc /\ (pc = "FRAME" => Pending.n = packet)
  BY DEF Pending
<1>7. packet \in Nat /\ image[ecu] \in Seq(1..Packets) /\ boot \in [Ecus -> {"app", "reset", "begun", "done"}]
      /\ image \in [Ecus -> Seq(1..Packets)]
  BY <1>1, <1>2 DEF Types, TypeOK
<1>8. After' /\ InOrder'
  <2>1. CASE pc = "RESET"
    <3>1. boot' = [boot EXCEPT ![e] = "reset"] /\ image' = [image EXCEPT ![e] = <<>>]
      BY <1>4, <1>6, <2>1 DEF Handle
    <3>2. boot'[ecu] = "reset" /\ image'[ecu] = <<>>
      BY <1>2, <1>1, <1>7, <3>1
    <3>3. \A x \in Ecus : x # ecu => image'[x] = image[x]
      BY <1>2, <1>7, <3>1
    <3> QED BY <1>3, <2>1, <3>2, <3>3 DEF After, Stored, InOrder
  <2>2. CASE pc = "BEGIN"
    <3>1. boot' = [boot EXCEPT ![e] = "begun"] /\ image' = image
      BY <1>2, <1>4, <1>6, <2>2 DEF Handle, Before
    <3>2. boot'[ecu] = "begun" /\ Stored(0)
      BY <1>1, <1>2, <1>7, <2>2, <3>1 DEF Before
    <3> QED BY <1>3, <2>2, <3>1, <3>2 DEF After, Stored, InOrder
  <2>3. CASE pc = "FRAME"
    <3>1. boot' = boot /\ image' = [image EXCEPT ![e] = Append(image[e], packet)]
      BY <1>2, <1>4, <1>6, <2>3 DEF Handle, Before
    <3>2. PICK q \in Seq(1..Packets) : q = image[ecu]
      BY <1>7
    <3>3. Len(q) = packet - 1 /\ boot[ecu] = "begun" /\ \A k \in 1..Len(q) : q[k] = k
      BY <1>1, <1>2, <2>3, <3>2 DEF Before, Stored, InOrder
    <3>4. PICK r : r = Append(q, packet)
      OBVIOUS
    <3>5. Len(r) = packet /\ \A k \in 1..Len(r) : r[k] = k
      BY <1>7, <3>3, <3>4
    <3>6. image'[ecu] = r /\ \A x \in Ecus : x # ecu => image'[x] = image[x]
      BY <1>1, <1>2, <1>7, <3>1, <3>2, <3>4
    <3>7. InOrder'
      BY <3>5, <3>6 DEF InOrder
    <3>8. After'
      BY <1>3, <2>3, <3>1, <3>3, <3>5, <3>6 DEF After, Stored
    <3> QED BY <3>7, <3>8
  <2>4. CASE pc = "END"
    <3>1. boot' = [boot EXCEPT ![e] = "done"] /\ image' = image
      BY <1>2, <1>4, <1>6, <2>4 DEF Handle, Before
    <3>2. boot'[ecu] = "done" /\ Stored(packet)
      BY <1>1, <1>2, <1>7, <2>4, <3>1 DEF Before
    <3> QED BY <1>3, <2>4, <3>1, <3>2 DEF After, Stored, InOrder
  <2> QED BY <1>1, <2>1, <2>2, <2>3, <2>4 DEF Types, TypeOK, Commands
<1>9. Len(fw_update_queue') \in {0, 1} /\ fw_update_queue' \in Seq(Answered)
  <2>1. \/ UNCHANGED fw_update_queue \/ \E b \in Bytes : Answers(e, b)
    BY Sizes DEF Handle, Bytes
  <2>2. CASE UNCHANGED fw_update_queue
    BY <1>2, <2>2
  <2>3. ASSUME NEW b \in Bytes, Answers(e, b)
        PROVE  Len(fw_update_queue') \in {0, 1} /\ fw_update_queue' \in Seq(Answered)
    <3>1. Len(fw_update_queue) = 0
      BY <1>2
    <3> QED BY <1>1, <2>3, <3>1, Answering
  <2> QED BY <2>1, <2>2, <2>3
<1>10. InStep'
  <2>1. CASE Len(fw_update_queue') = 0
    <3>1. fw_update_queue' = <<>>
      BY <1>9, <2>1
    <3>2. Quiet'
      BY <1>5, <3>1 DEF Quiet
    <3> QED BY <1>1, <1>3, <3>2 DEF InStep
  <2>2. CASE Len(fw_update_queue') = 1
    BY <1>1, <1>3, <1>5, <1>8, <2>2 DEF InStep
  <2> QED BY <1>9, <2>1, <2>2
<1> QED BY <1>3, <1>8, <1>10

LEMMA DialogueKept == ~net.late /\ Types /\ Dialogue /\ [Next]_vars => Dialogue'
<1> SUFFICES ASSUME ~net.late, Types, Dialogue, [Next]_vars PROVE Dialogue'
  OBVIOUS
<1>1. CASE UNCHANGED vars
  BY <1>1 DEF Dialogue, InStep, Quiet, Before, After, Stored, Pending, InOrder,
              vars, updater, ecus
<1> QED BY <1>1, StartInStep, SendInStep, ReturnInStep, HandleInStep DEF Next, Updater

-----------------------------------------------------------------------------
(* Late answers: nothing bounds the frames on the way to a bootloader, but *)
(* when none is lost each of them finds the bootloader as its command      *)
(* needs it.  b is the state of a bootloader, m the packets it has stored, *)
(* q the frames sent to it: State and Count say where it will be when it   *)
(* has handled i of them.                                                  *)
Reaches(cmd) == CASE cmd = "RESET" -> "reset" [] cmd = "END" -> "done" [] OTHER -> "begun"

State(b, q, i) == IF i = 0 THEN b ELSE Reaches(q[i].cmd)
Count(m, q, i) == IF i = 0 THEN m
                  ELSE IF q[i].cmd # "END" THEN q[i].n
                  ELSE IF i = 1 THEN m ELSE q[i - 1].n

Takes(state, count, f) ==
    /\ f.cmd = "BEGIN" => state = "reset"
    /\ f.cmd \in {"FRAME", "END"} => state = "begun"
    /\ f.n = IF f.cmd = "FRAME" THEN count + 1 ELSE 0

(* The packets stored after a command, when count were before it.          *)
Stores(count, f) == CASE f.cmd = "FRAME" -> count + 1 [] f.cmd = "END" -> count [] OTHER -> 0

Chain(b, m, q) ==
    \A i \in 1..Len(q) : Takes(State(b, q, i - 1), Count(m, q, i - 1), q[i])

Leads(b, m, q, state, count) == State(b, q, Len(q)) = state /\ Count(m, q, Len(q)) = count

(* What the update asked for last is what its bootloader will reach.       *)
Ahead == Leads(boot[ecu], Len(image[ecu]), bus[ecu],
               Reaches(IF complete THEN "END" ELSE pc), packet)

Sound ==
    /\ \A e \in Ecus : /\ boot[e] = "reset" => Len(image[e]) = 0
                       /\ Chain(boot[e], Len(image[e]), bus[e])
    /\ complete => pc = "off" /\ ecu \in Ecus
    /\ pc = "RESET" => packet = 0
    /\ pc # "off" \/ complete => Ahead
    /\ InOrder

(* A frame that finds the bootloader ready when it has handled the others  *)
(* may join them.                                                          *)
LEMMA ChainGrows ==
    ASSUME NEW b, NEW m \in Nat, NEW q \in Seq(Frames), NEW f \in Frames, NEW s, NEW n,
           Chain(b, m, q), Leads(b, m, q, s, n), Takes(s, n, f),
           NEW r, r = Append(q, f)
    PROVE  Chain(b, m, r) /\ Leads(b, m, r, Reaches(f.cmd), Stores(n, f))
<1>0. Takes(State(b, q, Len(q)), Count(m, q, Len(q)), f)
  BY DEF Leads
<1>1. /\ Len(q) \in Nat /\ Len(r) = Len(q) + 1 /\ r[Len(r)] = f
      /\ \A i \in 1..Len(q) : r[i] = q[i]
  OBVIOUS
<1>2. \A i \in 0..Len(q) : State(b, r, i) = State(b, q, i) /\ Count(m, r, i) = Count(m, q, i)
  <2> SUFFICES ASSUME NEW i \in 0..Len(q)
               PROVE  State(b, r, i) = State(b, q, i) /\ Count(m, r, i) = Count(m, q, i)
    OBVIOUS
  <2>1. CASE i = 0
    BY <2>1 DEF State, Count
  <2>2. CASE i # 0
    <3>1. i \in 1..Len(q) /\ (i # 1 => i - 1 \in 1..Len(q))
      BY <1>1, <2>2
    <3>2. r[i] = q[i] /\ (i # 1 => r[i - 1] = q[i - 1])
      BY <1>1, <3>1
    <3> QED BY <2>2, <3>2 DEF State, Count
  <2> QED BY <2>1, <2>2
<1>3. Chain(b, m, r)
  <2> SUFFICES ASSUME NEW i \in 1..Len(r)
               PROVE  Takes(State(b, r, i - 1), Count(m, r, i - 1), r[i])
    BY DEF Chain
  <2>1. i - 1 \in 0..Len(q)
    BY <1>1
  <2>2. State(b, r, i - 1) = State(b, q, i - 1) /\ Count(m, r, i - 1) = Count(m, q, i - 1)
    BY <1>2, <2>1
  <2>3. CASE i \in 1..Len(q)
    <3>1. Takes(State(b, q, i - 1), Count(m, q, i - 1), q[i])
      BY <2>3 DEF Chain
    <3> QED BY <1>1, <2>2, <2>3, <3>1
  <2>4. CASE i = Len(r)
    <3>1. i - 1 = Len(q)
      BY <1>1, <2>4
    <3> QED BY <1>0, <1>1, <2>2, <2>4, <3>1
  <2> QED BY <1>1, <2>3, <2>4
<1>4. State(b, r, Len(r)) = Reaches(f.cmd)
  BY <1>1 DEF State
<1>5. Count(m, r, Len(r)) = Stores(Count(m, q, Len(q)), f)
  <2>1. CASE f.cmd # "END"
    BY <1>0, <1>1, <2>1 DEF Takes, Count, Stores
  <2>2. CASE f.cmd = "END"
    <3>1. CASE Len(q) = 0
      BY <1>1, <2>2, <3>1 DEF Count, Stores
    <3>2. CASE Len(q) # 0
      <4>1. q[Len(q)].cmd # "END"
        BY <1>0, <1>1, <2>2, <3>2 DEF Takes, State, Reaches
      <4>2. Count(m, q, Len(q)) = q[Len(q)].n
        BY <1>1, <3>2, <4>1 DEF Count
      <4>3. Count(m, r, Len(r)) = r[Len(q)].n /\ r[Len(q)] = q[Len(q)]
        BY <1>1, <2>2, <3>2 DEF Count
      <4> QED BY <2>2, <4>2, <4>3 DEF Stores
    <3> QED BY <3>1, <3>2
  <2> QED BY <2>1, <2>2
<1> QED BY <1>3, <1>4, <1>5 DEF Leads

(* A bootloader that handles the first frame is where the others expect    *)
(* it, and will be after them where it would have been.                    *)
LEMMA ChainMoves ==
    ASSUME NEW b, NEW m \in Nat, NEW q \in Seq(Frames), q # <<>>, NEW s, NEW n,
           Chain(b, m, q), Leads(b, m, q, s, n),
           NEW r, r = Tail(q), NEW c, c = Reaches(Head(q).cmd),
           NEW k \in Nat, k = Stores(m, Head(q))
    PROVE  Chain(c, k, r) /\ Leads(c, k, r, s, n)
<1>1. /\ Len(q) \in Nat \ {0} /\ Len(r) = Len(q) - 1 /\ Head(q) = q[1]
      /\ \A i \in 1..Len(r) : r[i] = q[i + 1]
  OBVIOUS
<1>2. q[1] \in Frames /\ Takes(b, m, q[1])
  <2>1. Takes(State(b, q, 0), Count(m, q, 0), q[1])
    <3>1. 1 \in 1..Len(q) /\ 1 - 1 = 0
      BY <1>1
    <3> QED BY <3>1 DEF Chain
  <2> QED BY <1>1, <2>1 DEF State, Count
<1>3. State(b, q, 1) = c /\ Count(m, q, 1) = k
  <2>1. q[1].cmd \in {"RESET", "BEGIN", "FRAME", "END"}
    BY <1>2 DEF Frames, Commands
  <2> QED BY <1>1, <1>2, <2>1 DEF Takes, State, Count, Reaches, Stores
<1>4. \A i \in 0..Len(r) : State(c, r, i) = State(b, q, i + 1) /\ Count(k, r, i) = Count(m, q, i + 1)
  <2> SUFFICES ASSUME NEW i \in 0..Len(r)
               PROVE  State(c, r, i) = State(b, q, i + 1) /\ Count(k, r, i) = Count(m, q, i + 1)
    OBVIOUS
  <2>1. CASE i = 0
    BY <1>3, <2>1 DEF State, Count
  <2>2. CASE i = 1
    <3>1. r[1] = q[2] /\ 2 \in 1..Len(q) /\ 2 - 1 = 1
      BY <1>1, <2>2
    <3>2. State(c, r, 1) = State(b, q, 2)
      BY <3>1 DEF State
    <3>3. Takes(State(b, q, 1), Count(m, q, 1), q[2])
      BY <3>1 DEF Chain
    <3>4. Count(k, r, 1) = Count(m, q, 2)
      <4>1. CASE q[2].cmd # "END"
        BY <3>1, <4>1 DEF Count
      <4>2. CASE q[2].cmd = "END"
        <5>1. q[1].cmd # "END"
          BY <3>3, <4>2 DEF Takes, State, Reaches
        <5>2. Count(m, q, 2) = q[1].n /\ Count(m, q, 1) = q[1].n /\ Count(k, r, 1) = k
          BY <3>1, <4>2, <5>1 DEF Count
        <5> QED BY <1>3, <5>2
      <4> QED BY <4>1, <4>2
    <3> QED BY <2>2, <3>2, <3>4
  <2>3. CASE i > 1
    <3>1. r[i] = q[i + 1] /\ r[i - 1] = q[i] /\ i + 1 - 1 = i /\ i # 0 /\ i + 1 # 0 /\ i + 1 # 1
      BY <1>1, <2>3
    <3> QED BY <2>3, <3>1 DEF State, Count
  <2> QED BY <1>1, <2>1, <2>2, <2>3
<1>5. Chain(c, k, r)
  <2> SUFFICES ASSUME NEW i \in 1..Len(r)
               PROVE  Takes(State(c, r, i - 1), Count(k, r, i - 1), r[i])
    BY DEF Chain
  <2>1. i - 1 \in 0..Len(r) /\ i - 1 + 1 = i /\ i + 1 \in 1..Len(q) /\ i + 1 - 1 = i /\ r[i] = q[i + 1]
    BY <1>1
  <2>2. State(c, r, i - 1) = State(b, q, i) /\ Count(k, r, i - 1) = Count(m, q, i)
    BY <1>4, <2>1
  <2>3. Takes(State(b, q, i), Count(m, q, i), q[i + 1])
    BY <2>1 DEF Chain
  <2> QED BY <2>1, <2>2, <2>3
<1>6. Len(r) \in 0..Len(r) /\ Len(r) + 1 = Len(q)
  BY <1>1
<1> QED BY <1>4, <1>5, <1>6 DEF Leads

LEMMA Sizing ==
    ASSUME Types, NEW e \in Ecus
    PROVE  /\ bus[e] \in Seq(Frames) /\ image[e] \in Seq(1..Packets) /\ Len(image[e]) \in Nat
           /\ boot[e] \in {"app", "reset", "begun", "done"} /\ packet \in Nat
BY DEF Types, TypeOK

(* A command of the update that its bootloader will be ready for.          *)
LEMMA SentSound ==
    ASSUME Types, Sound, NEW e \in Ecus, NEW f \in Frames, NEW s, NEW n,
           UNCHANGED <<boot, image>>, bus' = [bus EXCEPT ![e] = Append(@, f)],
           Leads(boot[e], Len(image[e]), bus[e], s, n), Takes(s, n, f),
           ecu' = e, pc' = f.cmd, complete' = FALSE, packet' = Stores(n, f)
    PROVE  Sound'
<1>1. PICK q \in Seq(Frames), r \in Seq(Frames) : q = bus[e] /\ r = Append(q, f)
  <2>1. PICK q \in Seq(Frames) : q = bus[e]
    BY Sizing
  <2>2. Append(q, f) \in Seq(Frames)
    OBVIOUS
  <2> QED BY <2>1, <2>2
<1>2. bus'[e] = r /\ \A x \in Ecus : x # e => bus'[x] = bus[x]
  BY <1>1 DEF Types
<1>3. Chain(boot[e], Len(image[e]), r) /\ Leads(boot[e], Len(image[e]), r, Reaches(f.cmd), packet')
  <2>1. PICK m \in Nat : m = Len(image[e])
    BY Sizing
  <2>2. Chain(boot[e], m, q) /\ Leads(boot[e], m, q, s, n)
    BY <1>1, <2>1 DEF Sound
  <2>3. q \in Seq(Frames) /\ r = Append(q, f) /\ m \in Nat /\ f \in Frames
    BY <1>1, <2>1
  <2>4. Chain(boot[e], m, r)
    BY <2>2, <2>3, ChainGrows, ZenonT(40)
  <2>5. Leads(boot[e], m, r, Reaches(f.cmd), Stores(n, f))
    BY <2>2, <2>3, ChainGrows, ZenonT(40)
  <2> QED BY <2>1, <2>4, <2>5
<1>4. \A x \in Ecus : /\ boot'[x] = "reset" => Len(image'[x]) = 0
                      /\ Chain(boot'[x], Len(image'[x]), bus'[x])
  BY <1>2, <1>3 DEF Sound
<1>5. Ahead'
  BY <1>2, <1>3 DEF Ahead
<1>6. pc' = "RESET" => packet' = 0
  BY DEF Stores
<1>7. InOrder'
  BY DEF Sound, InOrder
<1> QED BY <1>4, <1>5, <1>6, <1>7 DEF Sound

(* Where no frame has been lost, CAN_sendFrame has put it on the bus.      *)
LEMMA NoneLost ==
    ASSUME losses' = 0, Types, NEW e \in Ecus, NEW cmd, NEW n, SendFrame(e, cmd, n)
    PROVE  bus' = [bus EXCEPT ![e] = Append(@, [cmd |-> cmd, n |-> n])]
<1>1. losses \in 0..net.maxLost /\ net.maxLost \in Nat
  BY Nets DEF Types, TypeOK
<1>2. losses' # losses + 1
  BY <1>1
<1> QED BY <1>2 DEF SendFrame

LEMMA StartSound ==
    ASSUME losses' = 0, Types, Sound, NEW e \in net.ecus,
           UpdateBegins(e) \/ UpdateElsewhere(e)
    PROVE  Sound'
<1>1. e \in Ecus /\ UNCHANGED <<boot, image>>
  BY Nets DEF Types, TypeOK, UpdateBegins, UpdateElsewhere, ecus
<1>2. CASE UpdateBegins(e)
  <2>1. PICK f \in Frames : f = [cmd |-> "RESET", n |-> 0]
    BY FrameValues
  <2>2. bus' = [bus EXCEPT ![e] = Append(@, f)]
    BY <1>1, <1>2, <2>1, NoneLost DEF UpdateBegins
  <2>3. ecu' = e /\ pc' = f.cmd /\ complete' = FALSE /\ packet' = 0 /\ f.n = 0 /\ f.cmd = "RESET"
    BY <1>2, <2>1 DEF UpdateBegins
  <2>4. PICK st, n : Leads(boot[e], Len(image[e]), bus[e], st, n)
    BY DEF Leads
  <2>5. Takes(st, n, f) /\ Stores(n, f) = 0
    BY <2>3 DEF Takes, Stores
  <2> QED BY <1>1, <2>2, <2>3, <2>4, <2>5, SentSound
<1>3. CASE UpdateElsewhere(e)
  BY <1>1, <1>3 DEF UpdateElsewhere, Sound, InOrder
<1> QED BY <1>2, <1>3

LEMMA SendSound ==
    ASSUME losses' = 0, Types, Sound, Begin \/ SendPacket \/ SendEnd
    PROVE  Sound'
<1>1. pc # "off" /\ ecu \in Ecus /\ UNCHANGED <<ecu, complete, boot, image>>
  BY DEF Begin, SendPacket, SendEnd, Accept, Types, ecus
<1>2. complete = FALSE /\ Ahead /\ packet \in 0..Packets
  BY <1>1 DEF Sound, Types, TypeOK
<1>3. PICK f \in Frames :
         /\ SendFrame(ecu, f.cmd, f.n) /\ f = [cmd |-> f.cmd, n |-> f.n] /\ pc' = f.cmd
         /\ packet' = Stores(packet, f)
         /\ Takes(Reaches(pc), packet, f)
  <2>1. CASE Begin
    <3>1. PICK f \in Frames : f = [cmd |-> "BEGIN", n |-> 0]
      BY FrameValues
    <3>2. pc = "RESET" /\ packet = 0 /\ packet' = packet /\ pc' = "BEGIN" /\ SendFrame(ecu, "BEGIN", 0)
      BY <2>1 DEF Begin, Sound
    <3>3. Takes(Reaches(pc), packet, f) /\ packet' = Stores(packet, f)
      BY <3>1, <3>2 DEF Takes, Reaches, Stores
    <3> QED BY <3>1, <3>2, <3>3
  <2>2. CASE SendPacket
    <3>1. /\ pc \in {"BEGIN", "FRAME"} /\ packet' = packet + 1 /\ pc' = "FRAME"
          /\ SendFrame(ecu, "FRAME", packet + 1) /\ packet < Packets
      BY <2>2 DEF SendPacket, MoreToRead
    <3>2. packet + 1 \in 0..Packets /\ packet + 1 # 0 /\ packet + 1 \in Nat
      BY <1>2, <3>1, Sizes
    <3>3. PICK f \in Frames : f = [cmd |-> "FRAME", n |-> packet + 1]
      BY <3>2, FrameValues
    <3>4. Takes(Reaches(pc), packet, f) /\ packet' = Stores(packet, f)
      BY <3>1, <3>3 DEF Takes, Reaches, Stores
    <3> QED BY <3>1, <3>2, <3>3, <3>4
  <2>3. CASE SendEnd
    <3>1. PICK f \in Frames : f = [cmd |-> "END", n |-> 0]
      BY FrameValues
    <3>2. pc \in {"BEGIN", "FRAME"} /\ packet' = packet /\ pc' = "END" /\ SendFrame(ecu, "END", 0)
      BY <2>3 DEF SendEnd
    <3>3. Takes(Reaches(pc), packet, f) /\ packet' = Stores(packet, f)
      BY <3>1, <3>2 DEF Takes, Reaches, Stores
    <3>4. packet \in Nat
      BY <1>2, Sizes
    <3> QED BY <3>1, <3>2, <3>3, <3>4
  <2> QED BY <2>1, <2>2, <2>3
<1>4. bus' = [bus EXCEPT ![ecu] = Append(@, f)]
  BY <1>1, <1>3, NoneLost
<1>5. Leads(boot[ecu], Len(image[ecu]), bus[ecu], Reaches(pc), packet)
  BY <1>2 DEF Ahead
<1> QED BY <1>1, <1>2, <1>3, <1>4, <1>5, SentSound

LEMMA ReturnSound == ASSUME Types, Sound, Finish \/ Reject \/ Timeout PROVE Sound'
<1>1. UNCHANGED <<ecu, packet, bus, boot, image>> /\ pc' = "off" /\ pc # "off"
  BY DEF Finish, Reject, Timeout, Return, Accept, ecus
<1>2. complete = FALSE /\ Ahead
  BY <1>1 DEF Sound
<1>3. CASE Finish
  <2>1. pc = "END" /\ complete' = TRUE
    BY <1>3 DEF Finish, Return
  <2>2. Ahead'
    BY <1>1, <1>2, <2>1 DEF Ahead
  <2>3. ecu \in Ecus
    BY <1>1 DEF Types
  <2> QED BY <1>1, <2>1, <2>2, <2>3 DEF Sound, InOrder
<1>4. CASE Reject \/ Timeout
  <2>1. complete' = FALSE
    BY <1>4 DEF Reject, Timeout, Return
  <2> QED BY <1>1, <2>1 DEF Sound, InOrder
<1> QED BY <1>3, <1>4

(* The command a bootloader handles is one it is ready for.                *)
LEMMA HandleSound == ASSUME Types, Sound, NEW e \in net.ecus, Handle(e) PROVE Sound'
<1>1. e \in Ecus
  BY Nets DEF Types, TypeOK
<1>2. PICK q \in Seq(Frames), r \in Seq(Frames), f \in Frames :
         /\ q = bus[e] /\ q # <<>> /\ r = Tail(q) /\ f = Head(q)
         /\ bus' = [bus EXCEPT ![e] = r]
  <2>1. PICK q \in Seq(Frames) : q = bus[e] /\ q # <<>>
    BY <1>1, Sizing DEF Handle
  <2>2. Tail(q) \in Seq(Frames) /\ Head(q) \in Frames
    BY <2>1
  <2> QED BY <2>1, <2>2 DEF Handle
<1>3. PICK i \in Seq(1..Packets) : i = image[e] /\ Len(i) \in Nat
  BY <1>1, Sizing
<1>4. UNCHANGED <<pc, ecu, packet, complete>>
  BY DEF Handle, updater
<1>5. Takes(boot[e], Len(i), f)
  <2>1. 1 \in 1..Len(q) /\ 1 - 1 = 0 /\ q[1] = f
    BY <1>2
  <2>2. Takes(State(boot[e], q, 1 - 1), Count(Len(i), q, 1 - 1), q[1])
    BY <1>1, <1>2, <1>3, <2>1 DEF Sound, Chain
  <2> QED BY <2>1, <2>2 DEF State, Count
<1>6. PICK j \in Seq(1..Packets) :
         /\ boot' = [boot EXCEPT ![e] = Reaches(f.cmd)] /\ image' = [image EXCEPT ![e] = j]
         /\ j = CASE f.cmd = "RESET" -> <<>> [] f.cmd = "FRAME" -> Append(i, f.n) [] OTHER -> i
  <2>1. boot \in [Ecus -> {"app", "reset", "begun", "done"}] /\ image \in [Ecus -> Seq(1..Packets)]
    BY DEF Types, TypeOK
  <2>2. f.cmd \in {"RESET", "BEGIN", "FRAME", "END"}
    BY DEF Frames, Commands
  <2>3. boot' = [boot EXCEPT ![e] = Reaches(f.cmd)]
    BY <1>1, <1>2, <1>5, <2>1, <2>2 DEF Handle, Takes, Reaches
  <2>4. CASE f.cmd = "RESET"
    <3>1. image' = [image EXCEPT ![e] = <<>>] /\ <<>> \in Seq(1..Packets)
      BY <1>2, <2>4 DEF Handle
    <3> QED BY <2>3, <2>4, <3>1
  <2>5. CASE f.cmd = "FRAME"
    <3>1. image' = [image EXCEPT ![e] = Append(i, f.n)] /\ f.n \in 1..Packets
      BY <1>2, <1>3, <1>5, <2>5, FrameValues DEF Handle, Takes
    <3>2. Append(i, f.n) \in Seq(1..Packets)
      BY <3>1
    <3> QED BY <2>3, <2>5, <3>1, <3>2
  <2>6. CASE f.cmd \in {"BEGIN", "END"}
    <3>1. image' = image
      BY <1>2, <1>5, <2>6 DEF Handle, Takes
    <3>2. image' = [image EXCEPT ![e] = i]
      BY <1>1, <1>3, <2>1, <3>1
    <3> QED BY <2>3, <2>6, <3>2
  <2> QED BY <2>2, <2>4, <2>5, <2>6
<1>7. /\ boot'[e] = Reaches(f.cmd) /\ image'[e] = j /\ bus'[e] = r
      /\ \A x \in Ecus : x # e => boot'[x] = boot[x] /\ image'[x] = image[x] /\ bus'[x] = bus[x]
  BY <1>1, <1>2, <1>6 DEF Types, TypeOK
<1>8. Len(j) \in Nat /\ Len(j) = Stores(Len(i), f)
  <2>1. f.cmd \in {"RESET", "BEGIN", "FRAME", "END"}
    BY DEF Frames, Commands
  <2>2. f.cmd = "FRAME" => Len(Append(i, f.n)) = Len(i) + 1
    BY <1>3, FrameValues
  <2>3. f.cmd = "BEGIN" => Len(i) = 0
    BY <1>1, <1>3, <1>5 DEF Takes, Sound
  <2> QED BY <1>3, <1>6, <2>1, <2>2, <2>3 DEF Stores
<1>9. /\ Chain(boot'[e], Len(j), r) /\ (boot'[e] = "reset" => Len(j) = 0)
      /\ \A s, n : Leads(boot[e], Len(i), q, s, n) => Leads(boot'[e], Len(j), r, s, n)
  <2>1. PICK m \in Nat, k \in Nat : m = Len(i) /\ k = Len(j)
    BY <1>3, <1>8
  <2>2. Chain(boot[e], m, q)
    BY <1>1, <1>2, <1>3, <2>1 DEF Sound
  <2>3. boot'[e] = Reaches(Head(q).cmd) /\ k = Stores(m, Head(q))
    BY <1>2, <1>7, <1>8, <2>1
  <2>4. q \in Seq(Frames) /\ q # <<>> /\ r = Tail(q) /\ m \in Nat /\ k \in Nat
    BY <1>2, <2>1
  <2>5. \A s, n : Leads(boot[e], m, q, s, n) => Leads(boot'[e], k, r, s, n)
    BY <2>2, <2>3, <2>4, ChainMoves, ZenonT(40)
  <2>6. PICK s, n : Leads(boot[e], m, q, s, n)
    BY DEF Leads
  <2>7. Chain(boot'[e], k, r)
    BY <2>2, <2>3, <2>4, <2>6, ChainMoves, ZenonT(40)
  <2>8. boot'[e] = "reset" => k = 0
    BY <2>3 DEF Reaches, Stores
  <2> QED BY <2>1, <2>5, <2>7, <2>8
<1>10. \A x \in Ecus : /\ boot'[x] = "reset" => Len(image'[x]) = 0
                       /\ Chain(boot'[x], Len(image'[x]), bus'[x])
  BY <1>7, <1>9 DEF Sound
<1>11. pc # "off" \/ complete => Ahead'
  <2> SUFFICES ASSUME pc # "off" \/ complete PROVE Ahead'
    OBVIOUS
  <2>1. Ahead /\ ecu \in Ecus
    BY DEF Sound, Types
  <2>2. CASE ecu = e
    BY <1>2, <1>3, <1>4, <1>7, <1>9, <2>1, <2>2 DEF Ahead
  <2>3. CASE ecu # e
    BY <1>4, <1>7, <2>1, <2>3 DEF Ahead
  <2> QED BY <2>2, <2>3
<1>12. InOrder'
  <2>1. \A k \in 1..Len(i) : i[k] = k
    BY <1>1, <1>3 DEF Sound, InOrder
  <2>2. \A k \in 1..Len(j) : j[k] = k
    <3>1. CASE f.cmd = "FRAME"
      <4>1. f.n = Len(i) + 1 /\ j = Append(i, f.n)
        BY <1>5, <1>6, <3>1 DEF Takes
      <4>2. \A v : Len(Append(i, v)) = Len(i) + 1 /\ Append(i, v)[Len(i) + 1] = v
        BY <1>3
      <4>3. \A v : \A k \in 1..Len(i) : Append(i, v)[k] = i[k]
        BY <1>3
      <4>4. PICK n \in Nat : n = Len(i)
        BY <1>3
      <4>5. Len(j) = n + 1 /\ j[n + 1] = n + 1 /\ \A k \in 1..n : j[k] = k
        BY <2>1, <4>1, <4>2, <4>3, <4>4
      <4> QED BY <4>5
    <3>2. CASE f.cmd # "FRAME"
      BY <1>6, <2>1, <3>2
    <3> QED BY <3>1, <3>2
  <2> QED BY <1>7, <2>2 DEF Sound, InOrder
<1> QED BY <1>4, <1>10, <1>11, <1>12 DEF Sound

LEMMA SoundKept == losses' = 0 /\ Types /\ Sound /\ [Next]_vars => Sound'
<1> SUFFICES ASSUME losses' = 0, Types, Sound, [Next]_vars PROVE Sound'
  OBVIOUS
<1>1. CASE UNCHANGED vars
  BY <1>1 DEF Sound, Ahead, Leads, InOrder, vars, updater, ecus
<1> QED BY <1>1, StartSound, SendSound, ReturnSound, HandleSound DEF Next, Updater

-----------------------------------------------------------------------------
(* The network never changes, a frame that is lost stays lost, and each of *)
(* the two accounts holds where it is for.                                 *)
IInv == Types /\ (~net.late => Dialogue) /\ (losses = 0 => Sound)

LEMMA LossesStay == Types /\ [Next]_vars /\ losses' = 0 => losses = 0
<1> SUFFICES ASSUME Types, [Next]_vars, losses' = 0 PROVE losses = 0
  OBVIOUS
<1>1. losses \in 0..net.maxLost /\ net.maxLost \in Nat
  BY Nets DEF Types, TypeOK
<1>2. losses' \in {losses, losses + 1}
  BY DEF Next, Updater, UpdateBegins, UpdateElsewhere, Begin, SendPacket, SendEnd, SendFrame,
         Finish, Reject, Timeout, Return, Handle, vars
<1> QED BY <1>1, <1>2

LEMMA IInvHolds == Spec => []IInv
<1>1. Init => IInv
  <2> SUFFICES ASSUME Init PROVE IInv
    OBVIOUS
  <2>1. Types /\ InOrder
    BY InitTypes DEF Init, InOrder
  <2>2. Dialogue
    BY <2>1 DEF Init, Dialogue, InStep, Quiet
  <2>3. \A e \in Ecus : Len(image[e]) = 0 /\ Len(bus[e]) = 0
    BY DEF Init
  <2>4. Sound
    BY <2>1, <2>3 DEF Init, Sound, Chain
  <2> QED BY <2>1, <2>2, <2>4 DEF IInv
<1>2. [Next]_vars => net' = net
  BY DEF Next, Updater, UpdateBegins, UpdateElsewhere, Begin, SendPacket, SendEnd, Finish,
         Reject, Timeout, Return, Handle, vars, ecus
<1>3. IInv /\ [Next]_vars => IInv'
  BY <1>2, TypesKept, DialogueKept, SoundKept, LossesStay DEF IInv
<1> QED BY <1>1, <1>3, PTL DEF Spec

(* Every variable has its type, on any network: late answers, lost frames  *)
(* and all.                                                                *)
THEOREM TypesHold == Spec => []TypeOK
<1>1. IInv => TypeOK
  BY DEF IInv, Types
<1> QED BY <1>1, IInvHolds, PTL

(* An update that runs to its last line has installed what it read on the  *)
(* ECU it was called for, whatever answers were dropped and updates cut    *)
(* short before (CAN_updateFirmware) - or, where bootloaders are late, the *)
(* ECU has frames left to handle, and is installed when it has.  On a late *)
(* network it says so up to the first frame that is lost.                  *)
THEOREM UpdatesInstall == Spec => []CompleteIsInstalled
<1>1. IInv => CompleteIsInstalled
  <2> SUFFICES ASSUME IInv, complete, LossesShow, ~(net.late /\ bus[ecu] # <<>>)
               PROVE  Installed(ecu, packet)
    BY DEF CompleteIsInstalled
  <2>1. ecu \in Ecus /\ boot[ecu] = "done" /\ Len(image[ecu]) = packet /\ InOrder
    <3>1. CASE ~net.late
      BY <3>1 DEF IInv, Dialogue, Stored
    <3>2. CASE net.late
      <4>1. Sound /\ bus[ecu] = <<>>
        BY <3>2 DEF IInv, LossesShow
      <4>2. ecu \in Ecus /\ Ahead /\ Len(bus[ecu]) = 0 /\ InOrder
        BY <4>1 DEF Sound
      <4> QED BY <4>2 DEF Ahead, Leads, State, Count, Reaches
    <3> QED BY <3>1, <3>2
  <2>2. PICK q \in Seq(1..Packets) : q = image[ecu]
    BY <2>1 DEF IInv, Types, TypeOK
  <2>3. q = [k \in 1..packet |-> k]
    BY <2>1, <2>2 DEF InOrder
  <2> QED BY <2>1, <2>2, <2>3 DEF Installed
<1> QED BY <1>1, IInvHolds, PTL

(* No bootloader gets a packet twice, misses one or gets two in the wrong  *)
(* order - on a late network until a frame is lost - when every update     *)
(* starts at the beginning of its file (UpdateBegins).                     *)
THEOREM ImagesInOrder == Spec => []ImageInOrder
<1>1. IInv => ImageInOrder
  BY DEF IInv, ImageInOrder, LossesShow, InOrder, Dialogue, Sound
<1> QED BY <1>1, IInvHolds, PTL

-----------------------------------------------------------------------------
(* How far the dialogue of an update has come.                             *)
Stage == CASE pc = "RESET" -> 0 [] pc = "BEGIN" -> 1 [] pc = "FRAME" -> packet + 1
           [] OTHER -> Packets + 2

Advance ==
    pc # "off" => \/ pc' = "off" \/ UNCHANGED updater
                  \/ (Stage' > Stage /\ Stage' <= Packets + 2)

(* Every wait of an update that ends, ends it or brings it one command     *)
(* further, up to END after the last packet of the file; and nothing else  *)
(* sets it back.  As each wait ends by TIMEOUT, this is why UpdateReturns  *)
(* holds, also where the answers come late or never (CAN_updateFirmware).  *)
THEOREM UpdatesAdvance == Spec => [][Advance]_vars
<1>1. ASSUME IInv, [Next]_vars PROVE [Advance]_vars
  <2> SUFFICES ASSUME Next, pc # "off", pc' # "off" PROVE Advance
    BY <1>1 DEF Advance
  <2>1. packet \in 0..Packets /\ Packets \in Nat
    BY <1>1, Sizes DEF IInv, Types, TypeOK
  <2>2. \A e \in net.ecus : ~UpdateBegins(e) /\ ~UpdateElsewhere(e)
    BY DEF UpdateBegins, UpdateElsewhere
  <2>3. ~Finish /\ ~Reject /\ ~Timeout
    BY DEF Finish, Reject, Timeout, Return
  <2>4. CASE Begin
    BY <2>1, <2>4 DEF Begin, Stage, Advance
  <2>5. CASE SendPacket
    <3>1. pc \in {"BEGIN", "FRAME"} /\ packet' = packet + 1 /\ pc' = "FRAME" /\ packet < Packets
      BY <2>5 DEF SendPacket, MoreToRead
    <3>2. Stage' = packet + 2 /\ Stage \in {1, packet + 1}
      BY <2>1, <3>1 DEF Stage
    <3>3. CASE pc = "FRAME"
      BY <2>1, <3>1, <3>2, <3>3 DEF Stage, Advance
    <3>4. CASE pc = "BEGIN"
      BY <2>1, <3>1, <3>2, <3>4 DEF Stage, Advance
    <3> QED BY <3>1, <3>3, <3>4
  <2>6. CASE SendEnd
    <3>1. pc \in {"BEGIN", "FRAME"} /\ pc' = "END"
      BY <2>6 DEF SendEnd
    <3>2. Stage' = Packets + 2 /\ Stage \in {1, packet + 1}
      BY <3>1 DEF Stage
    <3> QED BY <2>1, <3>2 DEF Advance
  <2>7. ASSUME NEW e \in net.ecus, Handle(e) PROVE UNCHANGED updater
    BY <2>7 DEF Handle
  <2> QED BY <2>2, <2>3, <2>4, <2>5, <2>6, <2>7 DEF Next, Updater, Advance
<1> QED BY <1>1, IInvHolds, PTL DEF Spec
=============================================================================
