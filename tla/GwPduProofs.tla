---------------------------- MODULE GwPduProofs -----------------------------
(***************************************************************************)
(* Proofs about the PDU path of GwPdu, for all queue sizes, any number of  *)
(* destinations and of rejected answers, and heaps of every size.          *)
(***************************************************************************)
EXTENDS GwPdu, TLAPS

(* A task has a PDU to dispose of exactly at the program points where it   *)
(* handles one, and no queue is longer than it was created.                *)
Holding ==
    \A t \in Tasks : pdu[t] = NoPdu <=> pc[t] \in {"off", "receive"}

WithinSize ==
    /\ Len(PDU_queue) <= PDU_QUEUE_SIZE
    /\ Len(gateway_queue) <= GW_QUEUE_SIZE
    /\ Len(fw_update_queue) <= FW_QUEUE_SIZE

IInv == /\ TypeOK /\ Holding /\ WithinSize /\ BuffersAccounted
        /\ FaultNeedsLeak /\ RoutedByType /\ DiscardUninterrupted

-----------------------------------------------------------------------------
LEMMA AppendFacts ==
    ASSUME NEW S, NEW s \in Seq(S), NEW e \in S
    PROVE  /\ Append(s, e) \in Seq(S)
           /\ Len(s) \in Nat /\ Len(Append(s, e)) = Len(s) + 1
           /\ Append(s, e)[Len(s) + 1] = e
           /\ \A k \in 1..Len(s) : Append(s, e)[k] = s[k]
  OBVIOUS

LEMMA TailFacts ==
    ASSUME NEW S, NEW s \in Seq(S), s # <<>>
    PROVE  /\ Tail(s) \in Seq(S) /\ Head(s) \in S /\ Head(s) = s[1]
           /\ Len(s) \in Nat \ {0} /\ Len(Tail(s)) = Len(s) - 1
           /\ \A k \in 1..(Len(s) - 1) : Tail(s)[k] = s[k + 1]
  OBVIOUS

LEMMA LenFacts == ASSUME NEW S, NEW s \in Seq(S) PROVE Len(s) \in Nat
  OBVIOUS

\* What holds of every element of a queue goes on holding of them.
LEMMA AllAppend ==
    ASSUME NEW S, NEW s \in Seq(S), NEW e \in S, \A k \in 1..Len(s) : s[k] = e
    PROVE  \A k \in 1..Len(Append(s, e)) : Append(s, e)[k] = e
  BY AppendFacts

LEMMA AllTail ==
    ASSUME NEW S, NEW s \in Seq(S), s # <<>>, NEW e, \A k \in 1..Len(s) : s[k] = e
    PROVE  (\A k \in 1..Len(Tail(s)) : Tail(s)[k] = e) /\ Head(s) = e
  BY TailFacts

-----------------------------------------------------------------------------
LEMMA InitIInv == Init => IInv
<1> SUFFICES ASSUME Init PROVE IInv
  OBVIOUS
<1>1. TypeOK
  <2>1. <<>> \in Seq(Types)
    OBVIOUS
  <2>2. pc \in [Tasks -> {"off", "receive", "route", "parse", "check", "discard", "free"}]
    BY DEF Init
  <2>3. lost \in Nat /\ i \in 0..DestCount
    BY GwAssumption DEF Init
  <2>4. QED
    BY <2>1, <2>2, <2>3 DEF Init, TypeOK
<1>2. BuffersAccounted
  <2>1. Held("router") = 0 /\ Held("gateway") = 0 /\ Held("updater") = 0
    BY DEF Init, Held, Tasks
  <2>2. QED
    BY <2>1 DEF Init, BuffersAccounted
<1>3. Holding /\ RoutedByType
  BY DEF Init, Holding, RoutedByType, Tasks
<1>4. QED
  BY <1>1, <1>2, <1>3, GwAssumption
     DEF Init, IInv, WithinSize, FaultNeedsLeak, DiscardUninterrupted

(* While no task frees a payload in its critical section, cutting into the *)
(* allocator can only hit the updater.                                     *)
LEMMA HeapEntry ==
    ASSUME IInv, ~Masked, EnterHeap
    PROVE  DiscardUninterrupted' /\ interrupted' \subseteq Tasks
  BY DEF IInv, TypeOK, DiscardUninterrupted, Masked, EnterHeap, Tasks

(* What BuffersAccounted counts, with a place left in PDU_queue: when that *)
(* is all the heap has, forgotten payloads are part of it.                 *)
LEMMA FullHeap ==
    ASSUME IInv, ~QueueFull, ~(inUse < HeapSize)
    PROVE  lost + PDU_QUEUE_SIZE + GW_QUEUE_SIZE + FW_QUEUE_SIZE + 3 > HeapSize
<1>1. /\ Len(PDU_queue) \in Nat /\ Len(gateway_queue) \in Nat /\ Len(fw_update_queue) \in Nat
      /\ Len(PDU_queue) < PDU_QUEUE_SIZE
  BY LenFacts, GwAssumption DEF IInv, TypeOK, QueueFull
<1>2. \A t \in Tasks : Held(t) \in 0..1
  BY DEF Held
<1>3. QED
  BY <1>1, <1>2, GwAssumption, SMTT(30)
     DEF IInv, TypeOK, WithinSize, BuffersAccounted, Tasks

LEMMA CanReceiveStep ==
    ASSUME IInv, NEW type \in Types, CanReceive(type)
    PROVE  IInv'
<1>1. /\ UNCHANGED <<gateway_queue, fw_update_queue, lost, pc, pdu, i>>
      /\ ~faulted /\ ~QueueFull
  BY DEF CanReceive
<1>2. DiscardUninterrupted' /\ interrupted' \subseteq Tasks
  BY HeapEntry DEF CanReceive
<1>3. CASE inUse < HeapSize
  <2>1. /\ inUse' = inUse + 1 /\ PDU_queue' = Append(PDU_queue, type)
        /\ faulted' = faulted
    BY <1>3 DEF CanReceive
  <2>2. /\ Len(PDU_queue) \in Nat /\ Len(PDU_queue') = Len(PDU_queue) + 1
        /\ PDU_queue' \in Seq(Types)
    BY <2>1, AppendFacts DEF IInv, TypeOK
  <2>3. WithinSize'
    BY <1>1, <2>2, GwAssumption DEF IInv, WithinSize, QueueFull
  <2>4. BuffersAccounted'
    <3>1. \A t \in Tasks : Held(t) \in 0..1 /\ Held(t)' = Held(t)
      BY <1>1 DEF Held
    <3>2. QED
      BY <1>1, <2>1, <2>2, <3>1, LenFacts, SMTT(30) DEF IInv, TypeOK, BuffersAccounted, Tasks
  <2>5. QED
    BY <1>1, <1>2, <2>1, <2>2, <2>3, <2>4
       DEF IInv, TypeOK, Holding, FaultNeedsLeak, RoutedByType
<1>4. CASE ~(inUse < HeapSize)
  <2>1. faulted' = TRUE /\ UNCHANGED <<inUse, PDU_queue>>
    BY <1>4 DEF CanReceive
  <2>2. FaultNeedsLeak'
    BY <1>1, <1>4, FullHeap DEF FaultNeedsLeak
  <2>3. QED
    BY <1>1, <1>2, <2>1, <2>2
       DEF IInv, TypeOK, Holding, WithinSize, BuffersAccounted, Held, RoutedByType
<1>5. QED
  BY <1>3, <1>4

-----------------------------------------------------------------------------
(* A task takes the first PDU of its queue q: what the three receiving     *)
(* steps have in common.                                                   *)
LEMMA RouterReceiveStep == ASSUME IInv, RouterReceive PROVE IInv'
<1>1. /\ PDU_queue \in Seq(Types) /\ PDU_queue # <<>>
      /\ pdu["router"] = NoPdu /\ Head(PDU_queue) \in Types /\ PDU_queue' \in Seq(Types)
      /\ Len(PDU_queue) \in Nat \ {0} /\ Len(PDU_queue') = Len(PDU_queue) - 1
  BY TailFacts DEF IInv, TypeOK, Holding, RouterReceive, Tasks
<1>2. WithinSize'
  BY <1>1, GwAssumption DEF IInv, WithinSize, RouterReceive
<1>3. BuffersAccounted'
  <2>1. Held("router") = 0 /\ Held("router")' = 1
        /\ Held("gateway")' = Held("gateway") /\ Held("updater")' = Held("updater")
    BY <1>1 DEF Held, RouterReceive, IInv, TypeOK, Tasks, Types, NoPdu
  <2>2. Held("gateway") \in 0..1 /\ Held("updater") \in 0..1
    BY DEF Held
  <2>3. QED
    BY <1>1, <2>1, <2>2, LenFacts DEF IInv, TypeOK, BuffersAccounted, RouterReceive
<1>4. TypeOK'
  <2>1. i' \in 0..DestCount
    BY GwAssumption DEF RouterReceive
  <2>2. QED
    BY <1>1, <2>1 DEF IInv, TypeOK, RouterReceive, Goto, Tasks
<1>5. Holding' /\ RoutedByType'
  BY <1>1 DEF IInv, TypeOK, Holding, RoutedByType, RouterReceive, Goto, Tasks, Types, NoPdu
<1>6. QED
  BY <1>2, <1>3, <1>4, <1>5 DEF IInv, FaultNeedsLeak, DiscardUninterrupted, RouterReceive

LEMMA GwReceiveStep == ASSUME IInv, GwReceive PROVE IInv'
<1>1. /\ gateway_queue \in Seq(Types) /\ gateway_queue # <<>>
      /\ pdu["gateway"] = NoPdu /\ gateway_queue' \in Seq(Types)
      /\ Len(gateway_queue) \in Nat \ {0} /\ Len(gateway_queue') = Len(gateway_queue) - 1
  BY TailFacts DEF IInv, TypeOK, Holding, GwReceive, Tasks
<1>2. WithinSize'
  BY <1>1, GwAssumption DEF IInv, WithinSize, GwReceive
<1>3. (\A k \in 1..Len(gateway_queue') : gateway_queue'[k] = "CMD")
      /\ Head(gateway_queue) = "CMD"
  BY <1>1, AllTail DEF IInv, RoutedByType, GwReceive
<1>4. BuffersAccounted'
  <2>1. Held("gateway") = 0 /\ Held("gateway")' = 1
        /\ Held("router")' = Held("router") /\ Held("updater")' = Held("updater")
    BY <1>1, <1>3 DEF Held, GwReceive, IInv, TypeOK, Tasks, Types, NoPdu
  <2>2. Held("router") \in 0..1 /\ Held("updater") \in 0..1
    BY DEF Held
  <2>3. QED
    BY <1>1, <2>1, <2>2, LenFacts DEF IInv, TypeOK, BuffersAccounted, GwReceive
<1>5. TypeOK' /\ Holding' /\ RoutedByType'
  BY <1>1, <1>3, ZenonT(40) DEF IInv, TypeOK, Holding, RoutedByType, GwReceive, Goto, Tasks, Types, NoPdu
<1>6. QED
  BY <1>2, <1>4, <1>5 DEF IInv, FaultNeedsLeak, DiscardUninterrupted, GwReceive

LEMMA UpdateReceiveStep == ASSUME IInv, UpdateReceive PROVE IInv'
<1>1. /\ fw_update_queue \in Seq(Types) /\ fw_update_queue # <<>>
      /\ pdu["updater"] = NoPdu /\ fw_update_queue' \in Seq(Types)
      /\ Len(fw_update_queue) \in Nat \ {0}
      /\ Len(fw_update_queue') = Len(fw_update_queue) - 1
  BY TailFacts DEF IInv, TypeOK, Holding, UpdateReceive, Tasks
<1>2. WithinSize'
  BY <1>1, GwAssumption DEF IInv, WithinSize, UpdateReceive
<1>3. (\A k \in 1..Len(fw_update_queue') : fw_update_queue'[k] = "FW")
      /\ Head(fw_update_queue) = "FW"
  BY <1>1, AllTail DEF IInv, RoutedByType, UpdateReceive
<1>4. BuffersAccounted'
  <2>1. Held("updater") = 0 /\ Held("updater")' = 1
        /\ Held("router")' = Held("router") /\ Held("gateway")' = Held("gateway")
    BY <1>1, <1>3 DEF Held, UpdateReceive, IInv, TypeOK, Tasks, Types, NoPdu
  <2>2. Held("router") \in 0..1 /\ Held("gateway") \in 0..1
    BY DEF Held
  <2>3. QED
    BY <1>1, <2>1, <2>2, LenFacts DEF IInv, TypeOK, BuffersAccounted, UpdateReceive
<1>5. TypeOK' /\ Holding' /\ RoutedByType'
  BY <1>1, <1>3, ZenonT(40)
     DEF IInv, TypeOK, Holding, RoutedByType, UpdateReceive, Goto, Tasks, Types, NoPdu
<1>6. QED
  BY <1>2, <1>4, <1>5 DEF IInv, FaultNeedsLeak, DiscardUninterrupted, UpdateReceive

-----------------------------------------------------------------------------
(* Handing a PDU on moves it from the router to a queue, refusing it keeps *)
(* it with the router.                                                     *)
LEMMA RouteCmdStep == ASSUME IInv, RouteCmd PROVE IInv'
<1>1. pc["router"] = "route" /\ pdu["router"] = "CMD" /\ gateway_queue \in Seq(Types)
  BY DEF RouteCmd, Routing, IInv, TypeOK
<1>2. CASE Len(gateway_queue) < GW_QUEUE_SIZE
  <2>1. /\ gateway_queue' = Append(gateway_queue, "CMD")
        /\ pdu' = [pdu EXCEPT !["router"] = NoPdu] /\ pc' = [pc EXCEPT !["router"] = "receive"]
        /\ UNCHANGED <<PDU_queue, fw_update_queue, inUse, lost, i, interrupted, faulted>>
    BY <1>1, <1>2 DEF RouteCmd, Forward, Goto
  <2>2. /\ gateway_queue' \in Seq(Types) /\ Len(gateway_queue) \in Nat
        /\ Len(gateway_queue') = Len(gateway_queue) + 1
        /\ \A k \in 1..Len(gateway_queue') : gateway_queue'[k] = "CMD"
    BY <1>1, <2>1, AppendFacts, AllAppend DEF IInv, RoutedByType, Types
  <2>3. BuffersAccounted'
    <3>1. Held("router") = 1 /\ Held("router")' = 0
          /\ Held("gateway")' = Held("gateway") /\ Held("updater")' = Held("updater")
      BY <1>1, <2>1 DEF Held, IInv, TypeOK, Tasks, NoPdu
    <3>2. Held("gateway") \in 0..1 /\ Held("updater") \in 0..1
      BY DEF Held
    <3>3. QED
      BY <2>1, <2>2, <3>1, <3>2, LenFacts DEF IInv, TypeOK, BuffersAccounted
  <2>4. WithinSize'
    BY <1>2, <2>1, <2>2, GwAssumption DEF IInv, WithinSize
  <2>5. TypeOK' /\ Holding' /\ RoutedByType'
    BY <2>1, <2>2 DEF IInv, TypeOK, Holding, RoutedByType, Tasks
  <2>6. QED
    BY <2>1, <2>3, <2>4, <2>5 DEF IInv, FaultNeedsLeak, DiscardUninterrupted
<1>3. CASE ~(Len(gateway_queue) < GW_QUEUE_SIZE)
  <2>1. UNCHANGED <<queues, pdu, inUse, lost, i, interrupted, faulted>>
        /\ pc' = [pc EXCEPT !["router"] = "discard"]
    BY <1>3 DEF RouteCmd, Forward, Goto, queues
  <2>2. QED
    BY <1>1, <2>1 DEF IInv, TypeOK, Holding, WithinSize, BuffersAccounted, Held, NoPdu,
       FaultNeedsLeak, RoutedByType, DiscardUninterrupted, queues, Tasks
<1>4. QED
  BY <1>2, <1>3

LEMMA RouteFwStep == ASSUME IInv, RouteFw PROVE IInv'
<1>1. pc["router"] = "route" /\ pdu["router"] = "FW" /\ fw_update_queue \in Seq(Types)
  BY DEF RouteFw, Routing, IInv, TypeOK
<1>2. CASE Len(fw_update_queue) < FW_QUEUE_SIZE
  <2>1. /\ fw_update_queue' = Append(fw_update_queue, "FW")
        /\ pdu' = [pdu EXCEPT !["router"] = NoPdu] /\ pc' = [pc EXCEPT !["router"] = "receive"]
        /\ UNCHANGED <<PDU_queue, gateway_queue, inUse, lost, i, interrupted, faulted>>
    BY <1>1, <1>2 DEF RouteFw, Forward, Goto
  <2>2. /\ fw_update_queue' \in Seq(Types) /\ Len(fw_update_queue) \in Nat
        /\ Len(fw_update_queue') = Len(fw_update_queue) + 1
        /\ \A k \in 1..Len(fw_update_queue') : fw_update_queue'[k] = "FW"
    BY <1>1, <2>1, AppendFacts, AllAppend DEF IInv, RoutedByType, Types
  <2>3. BuffersAccounted'
    <3>1. Held("router") = 1 /\ Held("router")' = 0
          /\ Held("gateway")' = Held("gateway") /\ Held("updater")' = Held("updater")
      BY <1>1, <2>1 DEF Held, IInv, TypeOK, Tasks, NoPdu
    <3>2. Held("gateway") \in 0..1 /\ Held("updater") \in 0..1
      BY DEF Held
    <3>3. QED
      BY <2>1, <2>2, <3>1, <3>2, LenFacts DEF IInv, TypeOK, BuffersAccounted
  <2>4. WithinSize'
    BY <1>2, <2>1, <2>2, GwAssumption DEF IInv, WithinSize
  <2>5. TypeOK' /\ Holding' /\ RoutedByType'
    BY <2>1, <2>2 DEF IInv, TypeOK, Holding, RoutedByType, Tasks
  <2>6. QED
    BY <2>1, <2>3, <2>4, <2>5 DEF IInv, FaultNeedsLeak, DiscardUninterrupted
<1>3. CASE ~(Len(fw_update_queue) < FW_QUEUE_SIZE)
  <2>1. UNCHANGED <<queues, pdu, inUse, lost, i, interrupted, faulted>>
        /\ pc' = [pc EXCEPT !["router"] = "discard"]
    BY <1>3 DEF RouteFw, Forward, Goto, queues
  <2>2. QED
    BY <1>1, <2>1 DEF IInv, TypeOK, Holding, WithinSize, BuffersAccounted, Held, NoPdu,
       FaultNeedsLeak, RoutedByType, DiscardUninterrupted, queues, Tasks
<1>4. QED
  BY <1>2, <1>3

-----------------------------------------------------------------------------
(* A payload that is freed was counted for the task that frees it.         *)
LEMMA EndFreeStep ==
    ASSUME IInv, NEW t \in Tasks, NEW l \in {"receive", "off"}, EndFree(t, l)
    PROVE  IInv'
<1>1. /\ pdu[t] # NoPdu /\ pdu' = [pdu EXCEPT ![t] = NoPdu]
      /\ pc' = [pc EXCEPT ![t] = l] /\ inUse' = inUse - 1
      /\ UNCHANGED <<queues, lost, i, interrupted, faulted>>
  BY DEF IInv, TypeOK, Holding, EndFree, Goto
<1>2. /\ \A u \in Tasks : Held(u) \in 0..1 /\ (u # t => Held(u)' = Held(u))
      /\ Held(t) = 1 /\ Held(t)' = 0
  BY <1>1 DEF Held, IInv, TypeOK
<1>3. BuffersAccounted' /\ inUse' \in Nat
  <2>1. /\ Len(PDU_queue) \in Nat /\ Len(gateway_queue) \in Nat
        /\ Len(fw_update_queue) \in Nat /\ lost \in Nat /\ inUse \in Nat
    BY LenFacts DEF IInv, TypeOK
  <2>2. Held("router")' + Held("gateway")' + Held("updater")'
          = Held("router") + Held("gateway") + Held("updater") - 1
    BY <1>2 DEF Tasks
  <2>3. Held("router") + Held("gateway") + Held("updater") \in Nat \ {0}
    BY <1>2 DEF Tasks
  <2>4. UNCHANGED <<PDU_queue, gateway_queue, fw_update_queue, lost>>
    BY <1>1 DEF queues
  <2>5. /\ Held("router") \in Int /\ Held("gateway") \in Int /\ Held("updater") \in Int
        /\ Held("router")' \in Int /\ Held("gateway")' \in Int /\ Held("updater")' \in Int
    BY <1>2 DEF Tasks
  <2>6. BuffersAccounted'
    <3> DEFINE L == Len(PDU_queue) + Len(gateway_queue) + Len(fw_update_queue)
               H == Held("router") + Held("gateway") + Held("updater")
    <3>1. L \in Int /\ H \in Int /\ H' \in Int /\ lost \in Int /\ inUse \in Int
      BY <2>1, <2>5
    <3>2. inUse = L + H + lost
      BY <2>1, <2>5 DEF IInv, BuffersAccounted
    <3>3. L' = L /\ lost' = lost /\ H' = H - 1 /\ inUse' = inUse - 1
      <4>1. L' = L /\ lost' = lost
        BY <2>4
      <4>2. H' = H - 1
        BY <2>2, <2>5
      <4>3. QED
        BY <1>1, <4>1, <4>2
    <3>4. BuffersAccounted' <=> inUse' = L' + H' + lost'
      BY <2>1, <2>4, <2>5, SMTT(30) DEF BuffersAccounted
    <3> HIDE DEF L, H
    <3>5. QED
      BY <3>1, <3>2, <3>3, <3>4
  <2>7. inUse >= 1
    BY <2>1, <2>3, <2>5, SMTT(30) DEF IInv, BuffersAccounted
  <2>8. QED
    BY <1>1, <2>1, <2>6, <2>7
<1>4. QED
  BY <1>1, <1>3 DEF IInv, TypeOK, Holding, WithinSize, FaultNeedsLeak, RoutedByType,
     DiscardUninterrupted, queues, Tasks

(* A rejected answer's payload is counted as lost from then on.            *)
LEMMA UpdateRejectsStep == ASSUME IInv, UpdateRejects PROVE IInv'
<1>1. /\ pdu["updater"] # NoPdu /\ pdu' = [pdu EXCEPT !["updater"] = NoPdu]
      /\ pc' = [pc EXCEPT !["updater"] = "off"] /\ lost' = lost + 1
      /\ UNCHANGED <<queues, inUse, i, interrupted, faulted>>
  BY DEF IInv, TypeOK, Holding, UpdateRejects, Goto, Tasks
<1>2. /\ Held("updater") = 1 /\ Held("updater")' = 0
      /\ Held("router")' = Held("router") /\ Held("gateway")' = Held("gateway")
      /\ Held("router") \in 0..1 /\ Held("gateway") \in 0..1
  BY <1>1 DEF Held, IInv, TypeOK, Tasks
<1>3. BuffersAccounted' /\ lost' \in Nat
  <2>1. /\ Len(PDU_queue) \in Nat /\ Len(gateway_queue) \in Nat
        /\ Len(fw_update_queue) \in Nat /\ lost \in Nat /\ inUse \in Nat
    BY LenFacts DEF IInv, TypeOK
  <2>2. UNCHANGED <<PDU_queue, gateway_queue, fw_update_queue, inUse>>
    BY <1>1 DEF queues
  <2> DEFINE L == Len(PDU_queue) + Len(gateway_queue) + Len(fw_update_queue)
             H == Held("router") + Held("gateway") + Held("updater")
  <2>3. L \in Int /\ H \in Int /\ H' = H - 1 /\ L' = L
    BY <1>2, <2>1, <2>2
  <2>4. inUse = L + H + lost
    BY <1>2, <2>1 DEF IInv, BuffersAccounted
  <2>5. BuffersAccounted' <=> inUse' = L' + H' + lost'
    BY <1>1, <1>2, <2>1, <2>2 DEF BuffersAccounted
  <2> HIDE DEF L, H
  <2>6. QED
    BY <1>1, <2>1, <2>2, <2>3, <2>4, <2>5
<1>4. FaultNeedsLeak'
  BY <1>1, GwAssumption DEF IInv, TypeOK, FaultNeedsLeak
<1>5. QED
  BY <1>1, <1>3, <1>4 DEF IInv, TypeOK, Holding, WithinSize, RoutedByType,
     DiscardUninterrupted, queues, Tasks

(* A task enters the allocator only while no other one is in a critical    *)
(* section, which Runs guarantees.                                         *)
LEMMA EnterFreeStep ==
    ASSUME IInv, NEW t \in Tasks, Runs(t),
           BeginDiscard(t) \/ (UpdateAccepts /\ t = "updater")
    PROVE  IInv'
<1>1. pc[t] \in {"discard", "check"} /\ pc' = [pc EXCEPT ![t] = "free"] /\ EnterHeap
      /\ UNCHANGED <<queues, inUse, lost, pdu, i, faulted>>
  BY DEF BeginDiscard, UpdateAccepts, Goto
<1>2. DiscardUninterrupted' /\ interrupted' \subseteq Tasks
  BY <1>1, HeapEntry DEF Runs
<1>3. QED
  BY <1>1, <1>2 DEF IInv, TypeOK, Holding, WithinSize, BuffersAccounted, Held, FaultNeedsLeak,
     RoutedByType, queues, Tasks

(* The remaining steps only move a task to another program point, with the *)
(* PDU it has to dispose of.                                               *)
LEMMA MoveStep ==
    ASSUME IInv,
           \/ RouteData \/ RouteNone \/ GwParse \/ UpdateBegins \/ UpdateTimeout
    PROVE  IInv'
<1>1. UNCHANGED <<queues, inUse, lost, pdu, interrupted, faulted>>
  BY DEF RouteData, RouteNone, GwParse, UpdateBegins, UpdateTimeout
<1>2. Holding' /\ pc' \in [Tasks -> {"off", "receive", "route", "parse", "check", "discard", "free"}]
  BY ZenonT(40) DEF IInv, TypeOK, Holding, RouteData, RouteNone, GwParse, UpdateBegins, UpdateTimeout,
     Routing, Goto, Tasks, Types, NoPdu
<1>3. i' \in 0..DestCount
  BY GwAssumption DEF IInv, TypeOK, RouteData, RouteNone, GwParse, UpdateBegins, UpdateTimeout
<1>4. QED
  BY <1>1, <1>2, <1>3 DEF IInv, TypeOK, WithinSize, BuffersAccounted, Held, FaultNeedsLeak,
     RoutedByType, DiscardUninterrupted, queues

-----------------------------------------------------------------------------
LEMMA UnchangedStep == IInv /\ UNCHANGED vars => IInv'
  BY DEF IInv, TypeOK, Holding, WithinSize, BuffersAccounted, Held, FaultNeedsLeak, RoutedByType,
     DiscardUninterrupted, queues, vars

LEMMA NextIInv == IInv /\ [Next]_vars => IInv'
<1> SUFFICES ASSUME IInv, [Next]_vars PROVE IInv'
  OBVIOUS
<1>1. CASE Router
  <2>1. Runs("router") /\ "router" \in Tasks
    BY <1>1 DEF Router, Tasks
  <2>2. CASE RouterReceive \/ RouteCmd \/ RouteFw
    BY <2>2, RouterReceiveStep, RouteCmdStep, RouteFwStep
  <2>3. CASE RouteData \/ RouteNone
    BY <2>3, MoveStep
  <2>4. CASE BeginDiscard("router")
    BY <2>1, <2>4, EnterFreeStep
  <2>5. CASE EndFree("router", "receive")
    BY <2>1, <2>5, EndFreeStep
  <2>6. QED
    BY <1>1, <2>2, <2>3, <2>4, <2>5 DEF Router
<1>2. CASE Gateway
  BY <1>2, GwReceiveStep, MoveStep, EnterFreeStep, EndFreeStep DEF Gateway, Tasks
<1>3. CASE Updater
  <2>1. Runs("updater") /\ "updater" \in Tasks
    BY <1>3 DEF Updater, Tasks
  <2>2. CASE UpdateReceive \/ UpdateRejects
    BY <2>2, UpdateReceiveStep, UpdateRejectsStep
  <2>3. CASE UpdateBegins \/ UpdateTimeout
    BY <2>3, MoveStep
  <2>4. CASE UpdateAccepts
    BY <2>1, <2>4, EnterFreeStep
  <2>5. CASE \E l \in {"receive", "off"} : EndFree("updater", l)
    BY <2>1, <2>5, EndFreeStep
  <2>6. QED
    BY <1>3, <2>2, <2>3, <2>4, <2>5 DEF Updater
<1>4. CASE CanDrop
  BY <1>4, UnchangedStep DEF CanDrop
<1>5. CASE \E type \in Types : CanReceive(type)
  BY <1>5, CanReceiveStep
<1>6. CASE UNCHANGED vars
  BY <1>6, UnchangedStep
<1>7. QED
  BY <1>1, <1>2, <1>3, <1>4, <1>5, <1>6 DEF Next

LEMMA SpecIInv == Spec => []IInv
  BY InitIInv, NextIInv, PTL DEF Spec

-----------------------------------------------------------------------------
(* Interrupt, router, gateway and updater never free a payload twice and   *)
(* never forget one, an update's rejected answers apart, in any            *)
(* interleaving and for all queue sizes.                                   *)
THEOREM PayloadsAccounted == Spec => []BuffersAccounted
<1>1. IInv => BuffersAccounted
  BY DEF IInv
<1>2. QED
  BY <1>1, SpecIInv, PTL

(* In a heap of any size, CAN_buildPDU's unchecked malloc returns NULL only *)
(* when the payloads that updates forgot leave no room for full queues and *)
(* a PDU in every task.                                                    *)
THEOREM OnlyLeaksFault == Spec => []FaultNeedsLeak
<1>1. IInv => FaultNeedsLeak
  BY DEF IInv
<1>2. QED
  BY <1>1, SpecIInv, PTL

(* The queues keep to their sizes, every task holds at most one PDU, and   *)
(* the types of all variables hold.                                        *)
THEOREM TypesHold == Spec => []TypeOK
<1>1. IInv => TypeOK
  BY DEF IInv
<1>2. QED
  BY <1>1, SpecIInv, PTL

(* Gateway and updater only ever see PDUs of the type they handle.         *)
THEOREM RoutedRight == Spec => []RoutedByType
<1>1. IInv => RoutedByType
  BY DEF IInv
<1>2. QED
  BY <1>1, SpecIInv, PTL

(* PDU_discardPDU is atomic with respect to the heap.                      *)
THEOREM DiscardIsAtomic == Spec => []DiscardUninterrupted
<1>1. IInv => DiscardUninterrupted
  BY DEF IInv
<1>2. QED
  BY <1>1, SpecIInv, PTL
=============================================================================
