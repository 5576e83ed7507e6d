----------------------------- MODULE GwEcuProofs ------------------------------
(***************************************************************************)
(* Proofs about GwEcu, for any number of ECUs, any size of the queue and   *)
(* either order of bit fields: types, and what the heartbeat may still do  *)
(* to an ECU that is known to be updating.                                 *)
(***************************************************************************)
EXTENDS GwEcu, TLAPS

PDUs == [id : Ecus, cmd : Requests, byte : 0..255]

(* A late request was sent to an ECU that is still known to be updating,   *)
(* and the heartbeat is not about to send it another one: it decides anew  *)
(* for every ECU, and by then it knows.                                    *)
LateOnce ==
    \A e \in Ecus : late[e] # 0 =>
        late[e] = 1 /\ status[e] = ECU_STAT_UPDATING /\ ~(hb = "send" /\ i = e)

IInv == TypeOK /\ LateOnce /\ (hb = "send" => i \in Ecus)

LEMMA Sizes ==
    /\ NUM_OF_ECUS \in Nat \ {0} /\ GW_QUEUE_SIZE \in Nat \ {0}
    /\ MaxRequests \in Nat /\ MaxChanges \in Nat /\ MaxLost \in Nat
BY EcuAssumption

LEMMA EcuNumbers == 0 \in 0..NUM_OF_ECUS /\ \A e \in Ecus : e + 1 \in 0..NUM_OF_ECUS
BY EcuAssumption DEF Ecus

LEMMA Requesting == AppRequests \subseteq Requests
BY EcuAssumption

LEMMA StatusValues ==
    /\ \A b \in StatusBytes : b \in 0..255
    /\ \A b \in 0..255 : StatusField(b) \in 0..15
BY EcuAssumption DEF StatusField

LEMMA ImageValues == ImageStatus \in 0..15 /\ \A p \in ImageProtocols : p \in 0..15
BY EcuAssumption DEF ImageStatus, ImageProtocols

LEMMA InitIInv == Init => IInv
<1> SUFFICES ASSUME Init PROVE IInv
  OBVIOUS
<1>1. status \in [Ecus -> 0..15] /\ protocol \in [Ecus -> 0..15]
  BY DEF Init, PROTOCOL_CAN
<1>2. /\ gateway_queue \in Seq(PDUs) /\ Len(gateway_queue) <= GW_QUEUE_SIZE
      /\ i \in 0..NUM_OF_ECUS /\ hb \in {"delay", "check", "send"}
      /\ requests \in 0..MaxRequests /\ changes \in 0..MaxChanges /\ losses \in 0..MaxLost
  BY Sizes, EcuNumbers DEF Init
<1>3. asked \in [Ecus -> SUBSET Requests] /\ late \in [Ecus -> Nat]
  BY DEF Init
<1> QED BY <1>1, <1>2, <1>3 DEF Init, IInv, TypeOK, LateOnce, PDUs

LEMMA Sending ==
    ASSUME TypeOK, NEW e \in Ecus, NEW cmd \in Requests, SendCommand(e, cmd)
    PROVE  asked' \in [Ecus -> SUBSET Requests] /\ losses' \in 0..MaxLost
<1>1. asked' \in [Ecus -> SUBSET Requests]
  BY DEF TypeOK, SendCommand
<1>2. losses' \in 0..MaxLost
  BY Sizes DEF TypeOK, SendCommand
<1> QED BY <1>1, <1>2

LEMMA Oldest ==
    ASSUME TypeOK, gateway_queue # <<>>
    PROVE  /\ Head(gateway_queue) \in PDUs /\ Tail(gateway_queue) \in Seq(PDUs)
           /\ Len(Tail(gateway_queue)) <= GW_QUEUE_SIZE
<1>1. gateway_queue \in Seq(PDUs) /\ Len(gateway_queue) <= GW_QUEUE_SIZE
  BY DEF TypeOK, PDUs
<1>2. PICK q \in Seq(PDUs) : q = gateway_queue /\ q # <<>> /\ Len(q) <= GW_QUEUE_SIZE
  BY <1>1
<1>3. Head(q) \in PDUs /\ Tail(q) \in Seq(PDUs) /\ Len(Tail(q)) <= GW_QUEUE_SIZE
  BY <1>2, Sizes
<1> QED BY <1>2, <1>3

LEMMA TypesKept == IInv /\ [Next]_vars => TypeOK'
<1> SUFFICES ASSUME IInv, [Next]_vars PROVE TypeOK'
  OBVIOUS
<1> USE DEF IInv
<1>1. CASE UNCHANGED vars
  BY <1>1 DEF TypeOK, vars, ecu_list, heartbeat, bounds
<1>2. CASE Cycle \/ Check
  <2>1. i' \in 0..NUM_OF_ECUS /\ hb' \in {"delay", "check", "send"}
    BY <1>2, EcuNumbers DEF TypeOK, Cycle, Check, NextEcu
  <2> QED BY <1>2, <2>1 DEF TypeOK, Cycle, Check, ecu_list, bounds
<1>3. CASE Poll
  <2>1. asked' \in [Ecus -> SUBSET Requests] /\ losses' \in 0..MaxLost
    BY <1>3, Sending DEF Poll, Requests
  <2>2. i' \in 0..NUM_OF_ECUS
    BY <1>3, EcuNumbers DEF Poll, NextEcu
  <2>3. late' \in [Ecus -> Nat]
    BY <1>3 DEF TypeOK, Poll
  <2> QED BY <1>3, <2>1, <2>2, <2>3 DEF TypeOK, Poll, ecu_list
<1>4. CASE Parse
  <2>1. PICK pdu \in PDUs : pdu = Head(gateway_queue)
    BY <1>4, Oldest DEF Parse
  <2>2. /\ gateway_queue' \in Seq(PDUs) /\ Len(gateway_queue') <= GW_QUEUE_SIZE
    BY <1>4, Oldest DEF Parse
  <2>3. pdu.id \in Ecus /\ StatusField(pdu.byte) \in 0..15
    BY StatusValues DEF PDUs
  <2>4. status' \in [Ecus -> 0..15] /\ protocol' \in [Ecus -> 0..15]
    <3>1. CASE ParseAll(pdu)
      BY <2>3, <3>1, ImageValues DEF ParseAll, TypeOK
    <3>2. CASE ParseVersion(pdu)
      BY <3>2 DEF ParseVersion, TypeOK, ecu_list
    <3>3. CASE ParseStatus(pdu)
      BY <2>3, <3>3 DEF ParseStatus, TypeOK
    <3> QED BY <1>4, <2>1, <3>1, <3>2, <3>3 DEF Parse
  <2>5. late' \in [Ecus -> Nat]
    BY <1>4, <2>1, <2>3 DEF Parse, TypeOK
  <2> QED BY <1>4, <2>2, <2>4, <2>5 DEF Parse, TypeOK, heartbeat, bounds, PDUs
<1>5. ASSUME NEW e \in Ecus, Respond(e) PROVE TypeOK'
  <2>1. PICK cmd \in Requests : Answer(e, cmd)
    BY <1>5 DEF Respond
  <2>2. real[e] \in 0..255
    BY StatusValues DEF TypeOK
  <2>3. Report(e, cmd) \in PDUs
    BY <2>2 DEF Report, PDUs
  <2>a. gateway_queue \in Seq(PDUs) /\ Len(gateway_queue) <= GW_QUEUE_SIZE
    BY DEF TypeOK, PDUs
  <2>b. PICK r \in PDUs : r = Report(e, cmd)
    BY <2>3
  <2>4. gateway_queue' \in Seq(PDUs) /\ Len(gateway_queue') <= GW_QUEUE_SIZE
    BY <2>1, <2>a, <2>b, Sizes DEF Answer
  <2>5. asked' \in [Ecus -> SUBSET Requests]
    BY <2>1 DEF Answer, TypeOK
  <2> QED BY <1>5, <2>4, <2>5 DEF Respond, TypeOK, ecu_list, heartbeat, bounds, PDUs
<1>6. ASSUME NEW e \in Ecus, Change(e) PROVE TypeOK'
  <2>1. changes' \in 0..MaxChanges
    BY <1>6, Sizes DEF Change, TypeOK
  <2>2. real' \in [Ecus -> StatusBytes]
    BY <1>6 DEF Change, TypeOK
  <2> QED BY <1>6, <2>1, <2>2 DEF Change, TypeOK, ecu_list, heartbeat
<1>7. ASSUME NEW e \in Ecus, NEW cmd \in AppRequests, Request(e, cmd) PROVE TypeOK'
  <2>1. asked' \in [Ecus -> SUBSET Requests] /\ losses' \in 0..MaxLost
    BY <1>7, Sending, Requesting DEF Request
  <2>2. requests' \in 0..MaxRequests
    BY <1>7, Sizes DEF Request, TypeOK
  <2> QED BY <1>7, <2>1, <2>2 DEF Request, TypeOK, ecu_list, heartbeat
<1> QED BY <1>1, <1>2, <1>3, <1>4, <1>5, <1>6, <1>7 DEF Next, Heartbeat

LEMMA LateKept == IInv /\ [Next]_vars => LateOnce' /\ (hb' = "send" => i' \in Ecus)
<1> SUFFICES ASSUME IInv, [Next]_vars PROVE LateOnce' /\ (hb' = "send" => i' \in Ecus)
  OBVIOUS
<1> USE DEF IInv, LateOnce
<1>1. CASE Cycle
  BY <1>1 DEF Cycle, ecu_list
<1>2. CASE Check
  BY <1>2 DEF Check, MayAsk, ecu_list
<1>3. CASE Poll
  <2>1. late[i] = 0 /\ i \in Ecus
    BY <1>3 DEF Poll
  <2>2. hb' = "check" /\ status' = status
    BY <1>3 DEF Poll, ecu_list
  <2>3. late' = [late EXCEPT ![i] = IF status[i] = ECU_STAT_UPDATING THEN 1 ELSE 0]
    BY <1>3, <2>1 DEF Poll, TypeOK
  <2> QED BY <2>1, <2>2, <2>3 DEF TypeOK
<1>4. CASE Parse
  <2>1. PICK pdu \in PDUs : pdu = Head(gateway_queue)
    BY <1>4, Oldest DEF Parse
  <2>2. pdu.id \in Ecus /\ hb' = hb /\ i' = i
    BY <1>4 DEF PDUs, Parse, heartbeat
  <2>3. \A e \in Ecus : e # pdu.id => status'[e] = status[e]
    BY <1>4, <2>1 DEF Parse, ParseAll, ParseVersion, ParseStatus, TypeOK, ecu_list
  <2>4. late' = [late EXCEPT ![pdu.id] = IF status'[pdu.id] = ECU_STAT_UPDATING THEN @ ELSE 0]
    BY <1>4, <2>1 DEF Parse
  <2> QED BY <2>2, <2>3, <2>4 DEF TypeOK
<1>5. CASE UNCHANGED <<status, late, hb, i>>
  BY <1>5
<1> QED BY <1>1, <1>2, <1>3, <1>4, <1>5
        DEF Next, Heartbeat, Respond, Change, Request, vars, ecu_list, heartbeat

LEMMA IInvHolds == Spec => []IInv
<1>1. IInv /\ [Next]_vars => IInv'
  BY TypesKept, LateKept DEF IInv
<1> QED BY <1>1, InitIInv, PTL DEF Spec

-----------------------------------------------------------------------------
(* Every variable has its type; in particular the status byte of an answer *)
(* leaves a status of four bits in ecu_list (GW_parsePDU).                 *)
THEOREM TypesHold == Spec => []TypeOK
BY IInvHolds, PTL DEF IInv

(* However the tasks and the answers interleave, Heartbeat_Task sends one  *)
(* request at most to an ECU after its status has become UPDATING.         *)
THEOREM LateAtMostOnce == Spec => []OneLateRequest
<1>1. IInv => OneLateRequest
  <2> SUFFICES ASSUME IInv, NEW e \in Ecus PROVE late[e] <= 1
    BY DEF OneLateRequest
  <2>1. CASE late[e] = 0
    BY <2>1
  <2>2. CASE late[e] # 0
    BY <2>2 DEF IInv, LateOnce
  <2> QED BY <2>1, <2>2
<1> QED BY <1>1, IInvHolds, PTL
=============================================================================
