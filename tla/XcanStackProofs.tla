--------------------------- MODULE XcanStackProofs ----------------------------
(***************************************************************************)
(* Proofs about XcanStack, for any number of devices and slots, any scores *)
(* and queue lengths.  The pool's invariant is inductive together with the *)
(* types; what a tick spends its score on needs an account of the loop     *)
(* (Spending) and of the frames that wait for it; that nothing is lost or sent twice needs a driver that keeps the *)
(* contract devloop_out relies on, which prv_send of SocketCAN does not    *)
(* (the run XcanStackSocketCan).                                           *)
(***************************************************************************)
EXTENDS XcanStack, FiniteSetTheorems, TLAPS

(* What devloop_out takes for granted: dev->send returns 0 exactly when    *)
(* the frame was sent.                                                     *)
Contract == \A r \in SendResults : r.sent <=> r.rc = 0

IInv == TypeOK /\ NoDanglingDevice

LEMMA SlotTypes == MaxDevices \in Nat \ {0} /\ Slots \subseteq Int /\ 0 \in Slots
BY StackAssumption DEF Slots

LEMMA InitIInv == Init => IInv /\ SentOnce
<1> SUFFICES ASSUME Init PROVE IInv /\ SentOnce
  OBVIOUS
<1>1. TypeOK
  <2>1. /\ qIn \in [Devs -> 0..MaxQueued] /\ qOut \in [Devs -> 0..MaxQueued]
        /\ accepted \in [Devs -> 0..MaxAccepted] /\ wire \in [Devs -> 0..(MaxAccepted + 1)]
    BY StackAssumption DEF Init
  <2>2. devices \in [Slots -> Devs \cup {NULL}] /\ id \in [Devs -> Slots]
    BY SlotTypes DEF Init
  <2>3. cur \in 0..MaxDevices
    BY SlotTypes DEF Init
  <2>4. ticking \in BOOLEAN
    BY DEF Init
  <2> QED BY <2>1, <2>2, <2>3, <2>4 DEF Init, TypeOK
<1> QED BY <1>1 DEF Init, IInv, NoDanglingDevice, SentOnce

-----------------------------------------------------------------------------
(* The operations of an application, between two loops.                    *)
LEMMA OperationsKeepTypes ==
    ASSUME TypeOK,
           \/ \E d \in Devs, i \in 0..MaxDevices : CreateFails(d, i) \/ Create(d, i)
           \/ \E d \in Devs : Destroy(d) \/ StackRecv(d) \/ QueueOut(d)
    PROVE  TypeOK'
<1>1. ASSUME NEW d \in Devs, NEW i \in 0..MaxDevices, CreateFails(d, i)
      PROVE  TypeOK'
  BY <1>1, StackAssumption, SMTT(30) DEF CreateFails, TypeOK, Slots, queues, loop
<1>2. ASSUME NEW d \in Devs, NEW i \in 0..MaxDevices, Create(d, i)
      PROVE  TypeOK'
  <2>1. /\ qIn' \in [Devs -> 0..MaxQueued] /\ qOut' \in [Devs -> 0..MaxQueued]
        /\ accepted' \in [Devs -> 0..MaxAccepted] /\ wire' \in [Devs -> 0..(MaxAccepted + 1)]
    <3>1. 0 \in 0..MaxQueued /\ 0 \in 0..MaxAccepted /\ 0 \in 0..(MaxAccepted + 1)
      BY StackAssumption
    <3> QED BY <1>2, <3>1 DEF Create, TypeOK
  <2>2. i \in Slots
    BY <1>2, SlotTypes DEF Create, Slots
  <2> QED BY <1>2, <2>1, <2>2 DEF Create, TypeOK, loop
<1>3. ASSUME NEW d \in Devs, Destroy(d) PROVE TypeOK'
  BY <1>3, StackAssumption DEF Destroy, TypeOK, Slots, queues, loop
<1>4. ASSUME NEW d \in Devs, StackRecv(d) PROVE TypeOK'
  BY <1>4, StackAssumption DEF StackRecv, TypeOK, registry, loop
<1>5. ASSUME NEW d \in Devs, QueueOut(d) PROVE TypeOK'
  BY <1>5, StackAssumption DEF QueueOut, TypeOK, registry, loop
<1> QED BY <1>1, <1>2, <1>3, <1>4, <1>5

LEMMA EnteringKeepsTypes ==
    ASSUME TypeOK, Tick \/ \E s \in LoopScores, dr \in {DIR_IN, DIR_OUT} : DevicesLoop(s, dr)
    PROVE  TypeOK'
<1>1. PICK s \in Nat \cup LoopScores, dr \in {DIR_IN, DIR_OUT} :
         EnterLoop(s, dr, TRUE) \/ EnterLoop(s, dr, FALSE)
  <2>1. TickScore \in Nat /\ DIR_IN \in {DIR_IN, DIR_OUT}
    BY StackAssumption
  <2> QED BY <2>1, Zenon DEF Tick, DevicesLoop
<1>2. ticking' \in BOOLEAN
  BY <1>1 DEF EnterLoop
<1>3. s \in Int /\ (s >= -1 \/ s \in LoopScores)
  BY StackAssumption
<1> QED BY <1>1, <1>2, <1>3 DEF EnterLoop, TypeOK, registry, queues

LEMMA LoopKeepsTypes == TypeOK /\ LoopStep => TypeOK'
<1> SUFFICES ASSUME TypeOK, LoopStep PROVE TypeOK'
  OBVIOUS
<1>1. CASE Pass \/ EndLoop \/ EndPass
  <2>1. CASE Pass
    BY <2>1, SlotTypes DEF Pass, TypeOK, registry, queues
  <2>2. CASE EndLoop
    <3>1. ticking' \in BOOLEAN
      BY <2>2 DEF EndLoop, TypeOK
    <3>2. dir' \in {DIR_IN, DIR_OUT} /\ cur' \in 0..MaxDevices /\ taken' = 0
      BY <2>2, SlotTypes DEF EndLoop, TypeOK
    <3>3. /\ pc' \in {"idle", "while"} /\ score' \in Int
          /\ score' >= -1 \/ score' \in LoopScores
      BY <2>2 DEF EndLoop, TypeOK
    <3> QED BY <2>2, <3>1, <3>2, <3>3 DEF EndLoop, TypeOK, registry, queues
  <2>3. CASE EndPass
    BY <2>3 DEF EndPass, TypeOK, registry, queues
  <2> QED BY <1>1, <2>1, <2>2, <2>3
<1>2. CASE Leave
  BY <1>2, SlotTypes DEF Leave, Visiting, TypeOK, registry, queues
<1>3. CASE DevloopIn
  <2>1. devices[cur] \in Devs
    BY <1>3, SlotTypes DEF DevloopIn, Visiting, MayMove, TypeOK, Slots
  <2> QED BY <1>3, <2>1, StackAssumption DEF DevloopIn, Moves, MayMove, TypeOK, registry
<1>4. CASE \E r \in SendResults : DevloopOut(r)
  <2>1. PICK r \in SendResults : DevloopOut(r)
    BY <1>4
  <2>2. devices[cur] \in Devs /\ cur + 1 \in 0..MaxDevices
    BY <2>1, SlotTypes DEF DevloopOut, Visiting, MayMove, TypeOK, Slots
  <2>3. wire' \in [Devs -> 0..(MaxAccepted + 1)]
    BY <2>1, <2>2, StackAssumption DEF DevloopOut, TypeOK
  <2>4. CASE r.rc = 0
    BY <2>1, <2>2, <2>3, <2>4, StackAssumption
    DEF DevloopOut, Sent, Moves, MayMove, TypeOK, registry
  <2>5. CASE r.rc # 0
    BY <2>1, <2>2, <2>3, <2>5 DEF DevloopOut, Break, TypeOK, registry
  <2> QED BY <2>4, <2>5
<1> QED BY <1>1, <1>2, <1>3, <1>4 DEF LoopStep

LEMMA StepKeepsTypes == TypeOK /\ [Next]_vars => TypeOK'
<1>1. TypeOK /\ UNCHANGED vars => TypeOK'
  BY DEF vars, registry, queues, loop, TypeOK
<1> QED BY <1>1, OperationsKeepTypes, EnteringKeepsTypes, LoopKeepsTypes DEF Next

-----------------------------------------------------------------------------
(* Only creation and destruction touch the pool: a loop leaves it alone.   *)
LEMMA LoopKeepsRegistry ==
    LoopStep \/ Tick \/ (\E s \in LoopScores, dr \in {DIR_IN, DIR_OUT} : DevicesLoop(s, dr))
        => UNCHANGED registry
BY DEF LoopStep, Tick, DevicesLoop, EnterLoop, Pass, EndLoop, EndPass, Leave, DevloopIn,
       DevloopOut

LEMMA StepKeepsPool == IInv /\ [Next]_vars => NoDanglingDevice'
<1> SUFFICES ASSUME IInv, [Next]_vars PROVE NoDanglingDevice'
  OBVIOUS
<1> USE DEF IInv, NoDanglingDevice
<1>1. CASE UNCHANGED registry
  BY <1>1 DEF registry
<1>2. ASSUME NEW d \in Devs, NEW i \in 0..MaxDevices, CreateFails(d, i)
      PROVE  NoDanglingDevice'
  BY <1>2 DEF CreateFails, TypeOK
<1>3. ASSUME NEW d \in Devs, NEW i \in 0..MaxDevices, Create(d, i)
      PROVE  NoDanglingDevice'
  BY <1>3 DEF Create, TypeOK, Slots
<1>4. ASSUME NEW d \in Devs, Destroy(d) PROVE NoDanglingDevice'
  BY <1>4 DEF Destroy, TypeOK
<1>5. ASSUME NEW d \in Devs, StackRecv(d) \/ QueueOut(d) PROVE UNCHANGED registry
  BY <1>5 DEF StackRecv, QueueOut
<1>6. UNCHANGED vars => UNCHANGED registry
  BY DEF vars
<1> QED BY <1>1, <1>2, <1>3, <1>4, <1>5, <1>6, LoopKeepsRegistry DEF Next

-----------------------------------------------------------------------------
LEMMA StepKeepsFrames ==
    ASSUME Contract, IInv, SentOnce, [Next]_vars
    PROVE  SentOnce'
<1> USE DEF IInv, SentOnce
<1>1. CASE UNCHANGED <<live, qOut, accepted, wire>>
  BY <1>1
<1>2. ASSUME NEW d \in Devs, NEW i \in 0..MaxDevices, Create(d, i)
      PROVE  SentOnce'
  BY <1>2 DEF Create, TypeOK
<1>3. ASSUME NEW d \in Devs, Destroy(d) PROVE SentOnce'
  BY <1>3 DEF Destroy, queues
<1>4. ASSUME NEW d \in Devs, QueueOut(d) PROVE SentOnce'
  BY <1>4 DEF QueueOut, TypeOK, registry
<1>5. ASSUME NEW r \in SendResults, DevloopOut(r) PROVE SentOnce'
  <2> DEFINE d == devices[cur]
  <2>1. d \in live
    BY <1>5, SlotTypes DEF DevloopOut, Visiting, MayMove, NoDanglingDevice, TypeOK, Slots
  <2>2. CASE r.rc = 0
    BY <1>5, <2>1, <2>2 DEF Contract, DevloopOut, MayMove, Sent, TypeOK, registry
  <2>3. CASE r.rc # 0
    BY <1>5, <2>1, <2>3 DEF Contract, DevloopOut, Break, TypeOK, registry
  <2> QED BY <2>2, <2>3
<1>6. ASSUME NEW d \in Devs, NEW i \in 0..MaxDevices, CreateFails(d, i) \/ StackRecv(d)
      PROVE  UNCHANGED <<live, qOut, accepted, wire>>
  BY <1>6 DEF CreateFails, StackRecv, registry, queues
<1>7. ASSUME \/ Tick \/ (\E s \in LoopScores, dr \in {DIR_IN, DIR_OUT} : DevicesLoop(s, dr))
             \/ Pass \/ EndLoop \/ EndPass \/ Leave \/ DevloopIn \/ UNCHANGED vars
      PROVE  UNCHANGED <<live, qOut, accepted, wire>>
  BY <1>7 DEF Tick, DevicesLoop, EnterLoop, Pass, EndLoop, EndPass, Leave, DevloopIn,
              vars, registry, queues
<1>8. CASE \E d \in Devs, i \in 0..MaxDevices : CreateFails(d, i) \/ Create(d, i)
  BY <1>1, <1>2, <1>6, <1>8
<1>9. CASE \E d \in Devs : Destroy(d) \/ StackRecv(d) \/ QueueOut(d)
  <2>1. \E i \in 0..MaxDevices : TRUE
    BY StackAssumption
  <2> QED BY <1>1, <1>3, <1>4, <1>6, <1>9, <2>1
<1> QED BY <1>1, <1>5, <1>7, <1>8, <1>9 DEF Next, LoopStep

-----------------------------------------------------------------------------
LEMMA IInvHolds == Spec => []IInv
<1>1. IInv /\ [Next]_vars => IInv'
  BY StepKeepsTypes, StepKeepsPool DEF IInv
<1> QED BY <1>1, InitIInv, PTL DEF Spec

(* Every variable keeps its type: no frame counter goes below 0, no device *)
(* is looked for outside devices[], and no loop brings its score below -1  *)
(* (xcan_device.c).                                                        *)
THEOREM TypesHold == Spec => []TypeOK
BY IInvHolds, PTL DEF IInv

(* The pool never points to a freed device, as destroying a device clears  *)
(* every slot that points to it (xcan_device_init, xcan_device_destroy).   *)
THEOREM PoolIsSound == Spec => []NoDanglingDevice
BY IInvHolds, PTL DEF IInv

(* devloop_out sends every accepted frame once or keeps it, for any driver *)
(* whose send returns 0 exactly when it has sent the frame.                *)
THEOREM ContractSendsOnce == Contract /\ Spec => []SentOnce
<1>1. Contract /\ IInv /\ SentOnce /\ [Next]_vars => SentOnce'
  BY StepKeepsFrames
<1>2. Contract /\ Init /\ []IInv /\ [][Next]_vars => []SentOnce
  <2>1. CASE Contract
    <3>1. IInv /\ SentOnce /\ [Next]_vars => SentOnce'
      BY <1>1, <2>1
    <3> QED BY <3>1, InitIInv, PTL
  <2>2. CASE ~Contract
    BY <2>2
  <2> QED BY <2>1, <2>2
<1> QED BY <1>2, IInvHolds, PTL DEF Spec

-----------------------------------------------------------------------------
(* How a loop stands with its score.  The loop IN of a tick has taken its  *)
(* frames from those that waited; until it has taken all it may (AllTaken) *)
(* it is in its first pass, in which nothing but frames costs score and    *)
(* the queues behind it are empty.  The loop OUT inherits a spent score.   *)
AllTaken == taken = TickScore \/ Waiting(qIn) = 0

EmptyBefore == \A s \in Slots : s < cur /\ devices[s] # NULL => qIn[devices[s]] = 0

LoopIn ==
    /\ taken + Waiting(qIn) = offered
    /\ taken <= TickScore /\ score + taken <= TickScore
    /\ pc = "while" => AllTaken \/ (taken = 0 /\ score = TickScore)
    /\ pc = "for" => AllTaken \/ (score + taken = TickScore /\ EmptyBefore)

Spending ==
    /\ ticking => pc # "idle"
    /\ ticking /\ dir = DIR_IN => LoopIn
    /\ ticking /\ dir = DIR_OUT => pc = "while" /\ score <= 0 /\ taken = 0
    /\ pc = "for" => score >= 0
    /\ pc = "while" /\ taken > 0 => score >= -1

LEMMA FramesFinite ==
    ASSUME NEW q
    PROVE  IsFiniteSet(Frames(q)) /\ Waiting(q) \in Nat
<1>1. IsFiniteSet(Slots) /\ IsFiniteSet(1..MaxQueued)
  BY StackAssumption, FS_Interval DEF Slots
<1>2. IsFiniteSet(Slots \X (1..MaxQueued))
  BY <1>1, FS_Product
<1>3. Frames(q) \in SUBSET (Slots \X (1..MaxQueued))
  BY DEF Frames
<1>4. IsFiniteSet(Frames(q))
  BY <1>2, <1>3, FS_Subset
<1> QED BY <1>4, FS_CardinalityType DEF Waiting

(* devloop_in takes one frame, the last of its queue's positions, and no   *)
(* other device shares the slot or the queue: one frame less waits.        *)
LEMMA TakingOne ==
    ASSUME IInv, DevloopIn
    PROVE  Waiting(qIn') = Waiting(qIn) - 1 /\ Waiting(qIn)' = Waiting(qIn')
<1> DEFINE d == devices[cur]
           f == <<cur, qIn[d]>>
<1>1. /\ cur \in Slots /\ d \in Devs /\ d # NULL
      /\ qIn \in [Devs -> 0..MaxQueued] /\ qIn[d] > 0
      /\ qIn' = [qIn EXCEPT ![d] = @ - 1]
      /\ devices' = devices
  BY SlotTypes DEF IInv, TypeOK, DevloopIn, Visiting, MayMove, Slots, registry
<1>2. \A s \in Slots : devices[s] = d => s = cur
  BY <1>1 DEF IInv, NoDanglingDevice
<1>3. \A s \in Slots : devices[s] # NULL => devices[s] \in Devs
  BY DEF IInv, TypeOK
<1>4. f \in Frames(qIn)
  BY <1>1, StackAssumption DEF Frames
<1>5. \A g \in Slots \X (1..MaxQueued) : g \in Frames(qIn') <=> g \in Frames(qIn) \ {f}
  <2> SUFFICES ASSUME NEW s \in Slots, NEW k \in 1..MaxQueued, devices[s] # NULL
               PROVE  k <= qIn'[devices[s]] <=> k <= qIn[devices[s]] /\ <<s, k>> # f
    BY DEF Frames
  <2>1. CASE s = cur
    <3>1. qIn'[d] = qIn[d] - 1 /\ qIn[d] \in Int /\ k \in Int
      BY <1>1, StackAssumption
    <3> QED BY <2>1, <3>1
  <2>2. CASE s # cur
    <3>1. devices[s] # d /\ qIn'[devices[s]] = qIn[devices[s]]
      BY <1>1, <1>2, <1>3, <2>2
    <3> QED BY <2>2, <3>1
  <2> QED BY <2>1, <2>2
<1>6. Frames(qIn') = Frames(qIn) \ {f}
  BY <1>5 DEF Frames
<1>7. Waiting(qIn') = Waiting(qIn) - 1
  <2>1. IsFiniteSet(Frames(qIn))
    BY FramesFinite
  <2>2. Cardinality(Frames(qIn) \ {f}) = Cardinality(Frames(qIn)) - 1
    BY <1>4, <2>1, FS_RemoveElement
  <2> QED BY <1>6, <2>2 DEF Waiting
<1> QED BY <1>1, <1>7 DEF Waiting, Frames

(* A pass that found every queue empty, found all of them empty.           *)
LEMMA NothingWaits ==
    ASSUME TypeOK, cur = MaxDevices, EmptyBefore
    PROVE  Waiting(qIn) = 0
<1>1. \A s \in Slots : devices[s] # NULL => qIn[devices[s]] = 0
  BY SlotTypes DEF EmptyBefore, Slots
<1>2. Frames(qIn) = {}
  <2> SUFFICES ASSUME NEW f \in Frames(qIn) PROVE FALSE
    OBVIOUS
  <2>1. f[1] \in Slots /\ f[2] \in 1..MaxQueued /\ devices[f[1]] # NULL
        /\ f[2] <= qIn[devices[f[1]]]
    BY DEF Frames
  <2> QED BY <1>1, <2>1, StackAssumption
<1> QED BY <1>2, FS_EmptySet DEF Waiting

LEMMA WaitingKept ==
    ASSUME UNCHANGED <<devices, qIn>>
    PROVE  Waiting(qIn)' = Waiting(qIn)
BY DEF Waiting, Frames

-----------------------------------------------------------------------------
LEMMA OutsideKeepsSpending ==
    ASSUME Spending,
           \/ \E d \in Devs, i \in 0..MaxDevices : CreateFails(d, i) \/ Create(d, i)
           \/ \E d \in Devs : Destroy(d) \/ StackRecv(d) \/ QueueOut(d)
    PROVE  Spending'
<1>1. pc = "idle" /\ UNCHANGED loop
  BY DEF CreateFails, Create, Destroy, StackRecv, QueueOut, Idle
<1>2. ~ticking
  BY <1>1 DEF Spending
<1> QED BY <1>1, <1>2 DEF Spending, loop

LEMMA EnteringStartsSpending ==
    ASSUME IInv,
           Tick \/ \E s \in LoopScores, dr \in {DIR_IN, DIR_OUT} : DevicesLoop(s, dr)
    PROVE  Spending'
<1>1. CASE Tick
  <2>1. /\ pc' = "while" /\ dir' = DIR_IN /\ ticking' /\ score' = TickScore
        /\ taken' = 0 /\ offered' = Waiting(qIn) /\ Waiting(qIn)' = Waiting(qIn)
    BY <1>1, WaitingKept DEF Tick, EnterLoop, registry, queues
  <2>2. LoopIn'
    BY <2>1, FramesFinite, StackAssumption DEF LoopIn
  <2> QED BY <2>1, <2>2 DEF Spending, DIR_IN, DIR_OUT
<1>2. CASE \E s \in LoopScores, dr \in {DIR_IN, DIR_OUT} : DevicesLoop(s, dr)
  <2>1. pc' = "while" /\ ticking' = FALSE /\ taken' = 0
    BY <1>2 DEF DevicesLoop, EnterLoop
  <2> QED BY <2>1 DEF Spending
<1> QED BY <1>1, <1>2

LEMMA LoopKeepsSpending == IInv /\ Spending /\ LoopStep => Spending'
<1> SUFFICES ASSUME IInv, Spending, LoopStep PROVE Spending'
  OBVIOUS
<1> USE DEF DIR_IN, DIR_OUT
<1>1. /\ score \in Int /\ taken \in Nat /\ cur \in 0..MaxDevices
      /\ TickScore \in Nat /\ MaxDevices \in Nat /\ Waiting(qIn) \in Nat
      /\ dir \in {DIR_IN, DIR_OUT} /\ ticking \in BOOLEAN
  BY StackAssumption, FramesFinite DEF IInv, TypeOK
<1>2. CASE Pass
  <2>1. /\ pc = "while" /\ score > 0 /\ pc' = "for" /\ cur' = 0
        /\ UNCHANGED <<ticking, dir, score, taken, offered, devices, qIn>>
    BY <1>2 DEF Pass, registry, queues
  <2>2. ASSUME ticking, dir = DIR_IN PROVE LoopIn'
    <3>1. Waiting(qIn)' = Waiting(qIn) /\ LoopIn
      BY <2>1, <2>2, WaitingKept DEF Spending
    <3>2. EmptyBefore'
      BY <2>1, SlotTypes DEF EmptyBefore, Slots
    <3> QED BY <1>1, <2>1, <3>1, <3>2 DEF LoopIn, AllTaken
  <2> QED BY <1>1, <2>1, <2>2 DEF Spending
<1>3. CASE EndLoop
  <2>1. CASE ticking /\ dir = DIR_IN
    <3>1. pc' = "while" /\ dir' = DIR_OUT /\ taken' = 0 /\ score' = score /\ score <= 0
      BY <1>3, <2>1 DEF EndLoop
    <3> QED BY <1>1, <3>1 DEF Spending
  <2>2. CASE ~(ticking /\ dir = DIR_IN)
    <3>1. pc' = "idle" /\ ~ticking'
      BY <1>3, <2>2 DEF EndLoop
    <3> QED BY <3>1 DEF Spending
  <2> QED BY <2>1, <2>2
<1>4. CASE EndPass
  <2>1. /\ pc = "for" /\ cur = MaxDevices /\ pc' = "while" /\ score' = score - 1
        /\ UNCHANGED <<ticking, dir, taken, offered, devices, qIn>>
    BY <1>4 DEF EndPass, registry, queues
  <2>2. ASSUME ticking, dir = DIR_IN PROVE LoopIn'
    <3>1. Waiting(qIn)' = Waiting(qIn) /\ LoopIn
      BY <2>1, <2>2, WaitingKept DEF Spending
    <3>2. EmptyBefore => Waiting(qIn) = 0
      BY <2>1, NothingWaits DEF IInv
    <3>3. CASE AllTaken
      BY <1>1, <2>1, <3>1, <3>3 DEF LoopIn, AllTaken
    <3>4. CASE ~AllTaken
      BY <2>1, <3>1, <3>2, <3>4 DEF LoopIn, AllTaken
    <3> QED BY <3>3, <3>4
  <2> QED BY <1>1, <2>1, <2>2 DEF Spending
<1>5. CASE Leave
  <2>1. /\ pc = "for" /\ cur < MaxDevices /\ cur' = cur + 1
        /\ UNCHANGED <<ticking, dir, pc, score, taken, offered, devices, qIn>>
    BY <1>5 DEF Leave, Visiting, registry, queues
  <2>2. ASSUME ticking, dir = DIR_IN PROVE LoopIn'
    <3>1. Waiting(qIn)' = Waiting(qIn) /\ LoopIn
      BY <2>1, <2>2, WaitingKept DEF Spending
    <3>2. CASE AllTaken
      BY <1>1, <2>1, <3>1, <3>2 DEF LoopIn, AllTaken
    <3>3. CASE ~AllTaken
      <4>1. score + taken = TickScore /\ EmptyBefore /\ score > 0
        BY <1>1, <2>1, <3>1, <3>3 DEF LoopIn, AllTaken, Spending
      <4>2. devices[cur] # NULL => qIn[devices[cur]] = 0
        BY <1>1, <1>5, <2>1, <2>2, <4>1, StackAssumption
        DEF Leave, MayMove, IInv, TypeOK, Slots
      <4>3. EmptyBefore'
        BY <1>1, <2>1, <4>1, <4>2, SlotTypes DEF EmptyBefore, Slots
      <4> QED BY <1>1, <2>1, <3>1, <4>1, <4>3 DEF LoopIn
    <3> QED BY <3>2, <3>3
  <2> QED BY <1>1, <2>1, <2>2 DEF Spending
<1>6. CASE DevloopIn
  <2>1. /\ pc = "for" /\ cur < MaxDevices /\ score > 0
        /\ taken' = taken + 1 /\ score' = score - 1
        /\ UNCHANGED <<ticking, dir, pc, cur, offered, devices>>
    BY <1>6 DEF DevloopIn, Visiting, MayMove, Moves, registry
  <2>2. Waiting(qIn)' = Waiting(qIn) - 1
    BY <1>6, TakingOne
  <2>3. Waiting(qIn)' \in Nat
    <3>1. Waiting(qIn') \in Nat
      BY FramesFinite
    <3> QED BY <1>6, <3>1, TakingOne
  <2>4. ASSUME ticking, dir = DIR_IN PROVE LoopIn'
    <3>1. LoopIn
      BY <2>4 DEF Spending
    <3>2. score + taken = TickScore /\ EmptyBefore
      BY <1>1, <2>1, <2>2, <2>3, <3>1 DEF LoopIn, AllTaken
    <3>3. EmptyBefore'
      <4>1. \A s \in Slots : devices[s] # NULL => devices[s] \in Devs /\ id[devices[s]] = s
        BY DEF IInv, TypeOK, NoDanglingDevice
      <4>2. /\ cur \in Slots /\ devices[cur] # NULL /\ qIn \in [Devs -> 0..MaxQueued]
            /\ qIn' = [qIn EXCEPT ![devices[cur]] = @ - 1]
        BY <1>1, <1>6, <2>1 DEF DevloopIn, MayMove, IInv, TypeOK, Slots
      <4> SUFFICES ASSUME NEW s \in Slots, s < cur, devices[s] # NULL
                   PROVE  qIn'[devices[s]] = 0
        BY <2>1 DEF EmptyBefore
      <4>3. devices[s] # devices[cur]
        BY <4>1, <4>2, <1>1, SlotTypes
      <4>4. qIn[devices[s]] = 0
        BY <3>2 DEF EmptyBefore
      <4> QED BY <4>1, <4>2, <4>3, <4>4
    <3> QED BY <1>1, <2>1, <2>2, <3>1, <3>2, <3>3 DEF LoopIn
  <2>5. ~(ticking /\ dir = DIR_OUT)
    BY <2>1 DEF Spending
  <2> QED BY <1>1, <2>1, <2>4, <2>5 DEF Spending
<1>7. CASE \E r \in SendResults : DevloopOut(r)
  <2>1. /\ pc = "for" /\ pc' = "for" /\ dir = DIR_OUT /\ dir' = dir /\ ticking' = ticking
        /\ score > 0 /\ score' \in {score, score - 1}
    BY <1>7 DEF DevloopOut, Visiting, MayMove, Sent, Break, Moves
  <2>2. ~ticking
    BY <2>1 DEF Spending
  <2> QED BY <1>1, <2>1, <2>2 DEF Spending
<1> QED BY <1>2, <1>3, <1>4, <1>5, <1>6, <1>7 DEF LoopStep

LEMMA SpendingHolds == Spec => []Spending
<1>1. Init => Spending
  BY DEF Init, Spending
<1>2. UNCHANGED vars /\ Spending => Spending'
  <2> SUFFICES ASSUME UNCHANGED vars, Spending PROVE Spending'
    OBVIOUS
  <2>1. Waiting(qIn)' = Waiting(qIn) /\ UNCHANGED <<devices, qIn, loop>>
    BY WaitingKept DEF vars, registry, queues
  <2> QED BY <2>1 DEF Spending, LoopIn, AllTaken, EmptyBefore, loop
<1>3. IInv /\ Spending /\ [Next]_vars => Spending'
  BY <1>2, OutsideKeepsSpending, EnteringStartsSpending, LoopKeepsSpending DEF Next
<1> QED BY <1>1, <1>3, IInvHolds, PTL DEF Spec

(* xcan_stack_tick spends its score on every frame that waits before it    *)
(* spends any on an empty pass, for any score and number of devices, and   *)
(* the loop OUT that follows has none left (xcan_device.c devloop_in,      *)
(* xcan_stack.c:68).                                                       *)
THEOREM ScoreIsSpent == Spec => []ScoreSpent
<1>1. IInv /\ Spending => ScoreSpent
  <2> SUFFICES ASSUME IInv, Spending PROVE ScoreSpent
    OBVIOUS
  <2>1. /\ score \in Int /\ taken \in Nat /\ TickScore \in Nat /\ Waiting(qIn) \in Nat
        /\ dir \in {DIR_IN, DIR_OUT}
    BY StackAssumption, FramesFinite DEF IInv, TypeOK
  <2>2. ticking /\ dir = DIR_IN => LoopIn
    BY DEF Spending
  <2>3. ASSUME ticking, dir = DIR_IN, pc = "while", score <= 0
        PROVE  taken = IF offered < TickScore THEN offered ELSE TickScore
    BY <2>1, <2>2, <2>3 DEF LoopIn, AllTaken
  <2>4. ticking => taken <= TickScore
    BY <2>1, <2>2 DEF Spending, LoopIn
  <2> QED BY <2>1, <2>3, <2>4 DEF ScoreSpent, Spending
<1> QED BY <1>1, IInvHolds, SpendingHolds, PTL

(* The devices are served in the order of their ids: the loop IN of a tick *)
(* leaves a slot with its queue empty or with its whole score spent on     *)
(* frames, so that no device gets in front of one with a lower id.  The    *)
(* safety part of FirstServed (xcan_device.c xcan_devices_loop).           *)
LowIdsFirst ==
    ticking /\ dir = DIR_IN /\ pc = "for" =>
        \A s \in Slots : s < cur /\ devices[s] # NULL =>
            qIn[devices[s]] = 0 \/ taken = TickScore

THEOREM ServedInOrder == Spec => []LowIdsFirst
<1>1. IInv /\ Spending => LowIdsFirst
  <2> SUFFICES ASSUME IInv, Spending, ticking, dir = DIR_IN, pc = "for", taken # TickScore,
                      NEW s \in Slots, s < cur, devices[s] # NULL
               PROVE  qIn[devices[s]] = 0
    BY DEF LowIdsFirst
  <2>1. CASE EmptyBefore
    BY <2>1 DEF EmptyBefore
  <2>2. CASE Waiting(qIn) = 0
    <3>1. Frames(qIn) = {}
      BY <2>2, FramesFinite, FS_EmptySet DEF Waiting
    <3>2. qIn[devices[s]] \in 0..MaxQueued
      BY DEF IInv, TypeOK
    <3>3. ASSUME qIn[devices[s]] # 0 PROVE <<s, 1>> \in Frames(qIn)
      BY <3>2, <3>3, StackAssumption DEF Frames
    <3> QED BY <3>1, <3>3
  <2> QED BY <2>1, <2>2 DEF Spending, LoopIn, AllTaken
<1> QED BY <1>1, IInvHolds, SpendingHolds, PTL

-----------------------------------------------------------------------------
(* What a loop has left to do: the loops of this tick, the score, and the  *)
(* slots of the pass (a pass not begun counts one more).                   *)
LoopsLeft == IF pc = "idle" THEN 0 ELSE IF ticking /\ dir = DIR_IN THEN 2 ELSE 1
SlotsLeft == IF pc = "for" THEN MaxDevices - cur ELSE MaxDevices + 1

Bounded == LoopsLeft \in Nat /\ SlotsLeft \in Nat

Closer ==
    \/ LoopsLeft' < LoopsLeft
    \/ LoopsLeft' = LoopsLeft /\ score' < score /\ score' >= -1
    \/ LoopsLeft' = LoopsLeft /\ score' = score /\ SlotsLeft' < SlotsLeft

(* Every step of xcan_stack_tick and xcan_devices_loop brings the loop     *)
(* closer to its end, whatever dev->send answers: the number of loops, the *)
(* score and the slots decrease in that order, and none of them goes below *)
(* its bound.  With the fairness of LoopStep, this is why TickEnds holds.  *)
THEOREM LoopsWindDown == Spec => [][LoopStep => Closer /\ Bounded']_vars
<1> USE DEF DIR_IN, DIR_OUT
<1>1. ASSUME IInv, Spending, LoopStep, IInv'
      PROVE  Closer /\ Bounded'
  <2>1. /\ MaxDevices \in Nat \ {0} /\ score \in Int /\ cur \in 0..MaxDevices
        /\ cur' \in 0..MaxDevices /\ dir \in {DIR_IN, DIR_OUT}
    BY <1>1, StackAssumption DEF IInv, TypeOK
  <2>2. Bounded'
    <3>1. LoopsLeft' \in Nat
      BY DEF LoopsLeft
    <3>2. SlotsLeft' \in Nat
      <4>1. cur' \in Int /\ 0 <= cur' /\ cur' <= MaxDevices
        BY <2>1
      <4>2. MaxDevices - cur' \in Nat
        <5>1. \A m \in Nat, c \in Int : 0 <= c /\ c <= m => m - c \in Nat
          OBVIOUS
        <5> QED BY <2>1, <4>1, <5>1
      <4>3. MaxDevices + 1 \in Nat
        BY <2>1
      <4> QED BY <4>2, <4>3 DEF SlotsLeft
    <3> QED BY <3>1, <3>2 DEF Bounded
  <2> SUFFICES Closer
    BY <2>2
  <2>3. CASE Pass
    BY <2>1, <2>3 DEF Pass, Closer, LoopsLeft, SlotsLeft
  <2>4. CASE EndLoop
    BY <2>1, <2>4 DEF EndLoop, Closer, LoopsLeft
  <2>5. CASE EndPass
    BY <1>1, <2>1, <2>5 DEF EndPass, Closer, LoopsLeft, Spending
  <2>6. CASE Leave
    BY <2>1, <2>6 DEF Leave, Visiting, Closer, LoopsLeft, SlotsLeft
  <2>7. CASE DevloopIn
    BY <2>1, <2>7 DEF DevloopIn, Visiting, MayMove, Moves, Closer, LoopsLeft
  <2>8. CASE \E r \in SendResults : DevloopOut(r)
    <3>1. /\ pc = "for" /\ cur < MaxDevices /\ score > 0 /\ pc' = "for" /\ LoopsLeft' = LoopsLeft
          /\ \/ score' = score - 1
             \/ score' = score /\ cur' = cur + 1
      BY <2>8 DEF DevloopOut, Visiting, MayMove, Sent, Break, Moves, LoopsLeft
    <3>2. CASE score' = score - 1
      BY <2>1, <3>1, <3>2 DEF Closer
    <3>3. CASE score' = score /\ cur' = cur + 1
      <4>1. SlotsLeft = MaxDevices - cur /\ SlotsLeft' = MaxDevices - cur'
        BY <3>1 DEF SlotsLeft
      <4> QED BY <2>1, <3>1, <3>3, <4>1 DEF Closer
    <3> QED BY <3>1, <3>2, <3>3
  <2> QED BY <1>1, <2>3, <2>4, <2>5, <2>6, <2>7, <2>8 DEF LoopStep
<1>2. ASSUME IInv, Spending, IInv', [Next]_vars
      PROVE  [LoopStep => Closer /\ Bounded']_vars
  BY <1>1, <1>2
<1> QED BY <1>2, IInvHolds, SpendingHolds, PTL DEF Spec
=============================================================================
