------------------------------- MODULE GwPdu --------------------------------
(***************************************************************************)
(* The PDU path of the gateway framework (_old): the CAN receive interrupt *)
(* (can.c), the PDU router task (pdu_router.c), the gateway task           *)
(* (gateway.c) and, as a consumer of the firmware queue, the task that     *)
(* runs CAN_updateFirmware.  A frame's payload is malloc'd by the          *)
(* interrupt and has to be freed by whoever handles the PDU last.          *)
(*                                                                         *)
(* A PDU is the type its id's mask bits select; the heap is the number of  *)
(* payload buffers in use.  FreeRTOS runs the tasks preemptively: any task *)
(* may run between two steps of another one, and the interrupt may run     *)
(* whenever no task is in a critical section.                              *)
(***************************************************************************)
EXTENDS Integers, Sequences

CONSTANTS PDU_QUEUE_SIZE, GW_QUEUE_SIZE, FW_QUEUE_SIZE, \* config.h
          HeapSize,   \* payload buffers the heap has room for
          DestCount   \* destCount of the descriptors in pdu_table.c

ASSUME GwAssumption ==
    /\ PDU_QUEUE_SIZE \in Nat /\ GW_QUEUE_SIZE \in Nat /\ FW_QUEUE_SIZE \in Nat
    /\ DestCount \in Nat /\ HeapSize \in Nat

Types == {"DATA", "CMD", "FW", "NONE"}
NoPdu == "no PDU"
Tasks == {"router", "gateway", "updater"}

VARIABLES PDU_queue, gateway_queue, fw_update_queue,
          inUse,       \* malloc'd payload buffers
          lost,        \* history: buffers whose last pointer went out of scope
          pc,          \* where every task is
          pdu,         \* the PDU a task has to dispose of
          i,           \* the router's loop over the destinations
          interrupted, \* history: tasks whose free() another heap call cut into
          faulted      \* memcpy to the NULL that malloc returned

queues == <<PDU_queue, gateway_queue, fw_update_queue>>
vars == <<queues, inUse, lost, pc, pdu, i, interrupted, faulted>>

Init ==
    /\ PDU_queue = <<>> /\ gateway_queue = <<>> /\ fw_update_queue = <<>>
    /\ inUse = 0 /\ lost = 0 /\ i = 0
    /\ pc = [t \in Tasks |-> IF t = "updater" THEN "off" ELSE "receive"]
    /\ pdu = [t \in Tasks |-> NoPdu]
    /\ interrupted = {} /\ faulted = FALSE

Goto(t, l) == pc' = [pc EXCEPT ![t] = l]

-----------------------------------------------------------------------------
\* Mutated forms of the definitions below, used by the mutants of the project.
Masked_Never == FALSE
Forward_AlwaysDone(q, size) ==
    /\ q' = IF Len(q) < size THEN Append(q, pdu["router"]) ELSE q
    /\ pdu' = [pdu EXCEPT !["router"] = NoPdu]
    /\ pc' = [pc EXCEPT !["router"] = "receive"]
Forward_Blocking(q, size) ==
    /\ Len(q) < size
    /\ q' = Append(q, pdu["router"])
    /\ pdu' = [pdu EXCEPT !["router"] = NoPdu]
    /\ pc' = [pc EXCEPT !["router"] = "receive"]
QueueFull_OffByOne == Len(PDU_queue) > PDU_QUEUE_SIZE
GwParse_NoDiscard ==
    /\ pc["gateway"] = "parse" /\ pdu["gateway"] = "CMD"
    /\ Goto("gateway", "receive")
    /\ pdu' = [pdu EXCEPT !["gateway"] = NoPdu]
    /\ UNCHANGED <<queues, inUse, lost, i, interrupted, faulted>>
RouteData_OneTooMany ==
    /\ pc["router"] = "route" /\ pdu["router"] = "DATA"
    /\ IF i <= DestCount THEN i' = i + 1 /\ UNCHANGED pc
                         ELSE Goto("router", "discard") /\ UNCHANGED i
    /\ UNCHANGED <<queues, inUse, lost, pdu, interrupted, faulted>>
RouteFw_ToGateway ==
    /\ pc["router"] = "route" /\ pdu["router"] = "FW"
    /\ Len(gateway_queue) < GW_QUEUE_SIZE
    /\ gateway_queue' = Append(gateway_queue, "FW")
    /\ pdu' = [pdu EXCEPT !["router"] = NoPdu]
    /\ Goto("router", "receive")
    /\ UNCHANGED <<PDU_queue, fw_update_queue, inUse, lost, i, interrupted, faulted>>
-----------------------------------------------------------------------------
(* taskENTER_CRITICAL masks the interrupt and keeps other tasks from       *)
(* running: a task is inside it while PDU_discardPDU calls free().         *)
Masked == pc["router"] = "free" \/ pc["gateway"] = "free"

(* Whoever enters the allocator cuts into the calls that are inside it.    *)
EnterHeap == interrupted' = interrupted \cup {t \in Tasks : pc[t] = "free"}

QueueFull == Len(PDU_queue) >= PDU_QUEUE_SIZE

(* CAN_eventHandler: CAN_filterFrame accepts every frame, CAN_buildPDU     *)
(* queues it unless the queue is full, and the mailbox is armed again.     *)
(* malloc's result is not looked at before the payload is copied to it.    *)
CanDrop == ~Masked /\ ~faulted /\ QueueFull /\ UNCHANGED vars

CanReceive(type) ==
    /\ ~Masked /\ ~faulted /\ ~QueueFull
    /\ EnterHeap
    /\ IF inUse < HeapSize
       THEN inUse' = inUse + 1 /\ PDU_queue' = Append(PDU_queue, type) /\ UNCHANGED faulted
       ELSE faulted' = TRUE /\ UNCHANGED <<inUse, PDU_queue>>
    /\ UNCHANGED <<gateway_queue, fw_update_queue, lost, pc, pdu, i>>

-----------------------------------------------------------------------------
\* PDU_Task

RouterReceive ==
    /\ pc["router"] = "receive" /\ PDU_queue # <<>>
    /\ pdu' = [pdu EXCEPT !["router"] = Head(PDU_queue)]
    /\ PDU_queue' = Tail(PDU_queue)
    /\ i' = 0
    /\ Goto("router", "route")
    /\ UNCHANGED <<gateway_queue, fw_update_queue, inUse, lost, interrupted, faulted>>

Routing(type) == pc["router"] = "route" /\ pdu["router"] = type

(* One ECU_sendPDU for every destination, then the payload is discarded.   *)
RouteData ==
    /\ Routing("DATA")
    /\ IF i < DestCount THEN i' = i + 1 /\ UNCHANGED pc
                        ELSE Goto("router", "discard") /\ UNCHANGED i
    /\ UNCHANGED <<queues, inUse, lost, pdu, interrupted, faulted>>

(* xQueueSendToBack without waiting: a full queue means the PDU is dropped *)
Forward(q, size) ==
    IF Len(q) < size
    THEN /\ q' = Append(q, pdu["router"])
         /\ pdu' = [pdu EXCEPT !["router"] = NoPdu]
         /\ Goto("router", "receive")
    ELSE Goto("router", "discard") /\ UNCHANGED <<q, pdu>>

RouteCmd ==
    /\ Routing("CMD")
    /\ Forward(gateway_queue, GW_QUEUE_SIZE)
    /\ UNCHANGED <<PDU_queue, fw_update_queue, inUse, lost, i, interrupted, faulted>>

RouteFw ==
    /\ Routing("FW")
    /\ Forward(fw_update_queue, FW_QUEUE_SIZE)
    /\ UNCHANGED <<PDU_queue, gateway_queue, inUse, lost, i, interrupted, faulted>>

RouteNone ==
    /\ Routing("NONE")
    /\ Goto("router", "discard")
    /\ UNCHANGED <<queues, inUse, lost, pdu, i, interrupted, faulted>>

-----------------------------------------------------------------------------
\* PDU_discardPDU, called by the router and the gateway task

BeginDiscard(t) ==
    /\ pc[t] = "discard"
    /\ Goto(t, "free") /\ EnterHeap
    /\ UNCHANGED <<queues, inUse, lost, pdu, i, faulted>>

EndFree(t, l) ==
    /\ pc[t] = "free"
    /\ inUse' = inUse - 1
    /\ pdu' = [pdu EXCEPT ![t] = NoPdu]
    /\ Goto(t, l)
    /\ UNCHANGED <<queues, lost, i, interrupted, faulted>>

-----------------------------------------------------------------------------
\* Gateway_Task

GwReceive ==
    /\ pc["gateway"] = "receive" /\ gateway_queue # <<>>
    /\ pdu' = [pdu EXCEPT !["gateway"] = Head(gateway_queue)]
    /\ gateway_queue' = Tail(gateway_queue)
    /\ Goto("gateway", "parse")
    /\ UNCHANGED <<PDU_queue, fw_update_queue, inUse, lost, i, interrupted, faulted>>

(* GW_parsePDU (its effect on ecu_list is in GwEcu), then the discard.     *)
GwParse ==
    /\ pc["gateway"] = "parse" /\ pdu["gateway"] = "CMD"
    /\ Goto("gateway", "discard")
    /\ UNCHANGED <<queues, inUse, lost, pdu, i, interrupted, faulted>>

-----------------------------------------------------------------------------
(* CAN_updateFirmware, as far as it takes PDUs (its protocol is in         *)
(* GwFirmware): every xQueueReceive times out or gets a PDU, which is      *)
(* freed - outside a critical section - when it is the answer waited for.  *)
UpdateBegins ==
    /\ pc["updater"] = "off" /\ Goto("updater", "receive")
    /\ UNCHANGED <<queues, inUse, lost, pdu, i, interrupted, faulted>>

UpdateReceive ==
    /\ pc["updater"] = "receive" /\ fw_update_queue # <<>>
    /\ pdu' = [pdu EXCEPT !["updater"] = Head(fw_update_queue)]
    /\ fw_update_queue' = Tail(fw_update_queue)
    /\ Goto("updater", "check")
    /\ UNCHANGED <<PDU_queue, gateway_queue, inUse, lost, i, interrupted, faulted>>

UpdateTimeout ==
    /\ pc["updater"] = "receive" /\ fw_update_queue = <<>>
    /\ Goto("updater", "off")
    /\ UNCHANGED <<queues, inUse, lost, pdu, i, interrupted, faulted>>

UpdateAccepts ==
    /\ pc["updater"] = "check"
    /\ Goto("updater", "free") /\ EnterHeap
    /\ UNCHANGED <<queues, inUse, lost, pdu, i, faulted>>

(* return stat: the only pointer to the payload goes out of scope.  Each   *)
(* update may end so and leave one more behind, nothing limits how often.  *)
UpdateRejects ==
    /\ pc["updater"] = "check"
    /\ lost' = lost + 1
    /\ pdu' = [pdu EXCEPT !["updater"] = NoPdu]
    /\ Goto("updater", "off")
    /\ UNCHANGED <<queues, inUse, i, interrupted, faulted>>

-----------------------------------------------------------------------------
\* A task runs unless another one is in its critical section.
Runs(t) == ~faulted /\ (Masked => pc[t] = "free" /\ t # "updater")

Router == /\ Runs("router")
          /\ \/ RouterReceive \/ RouteData \/ RouteCmd \/ RouteFw \/ RouteNone
             \/ BeginDiscard("router") \/ EndFree("router", "receive")
Gateway == /\ Runs("gateway")
           /\ \/ GwReceive \/ GwParse
              \/ BeginDiscard("gateway") \/ EndFree("gateway", "receive")
Updater == /\ Runs("updater")
           /\ \/ UpdateBegins \/ UpdateReceive \/ UpdateTimeout
              \/ UpdateAccepts \/ UpdateRejects
              \/ \E l \in {"receive", "off"} : EndFree("updater", l)

Next == Router \/ Gateway \/ Updater \/ CanDrop
           \/ \E type \in Types : CanReceive(type)

(* Router and gateway share one priority and take turns, a critical        *)
(* section only delays a task: each runs again and again while it can.     *)
Spec == Init /\ [][Next]_vars
FairSpec == Spec /\ SF_vars(Router) /\ SF_vars(Gateway)

-----------------------------------------------------------------------------
TypeOK ==
    /\ PDU_queue \in Seq(Types) /\ gateway_queue \in Seq(Types)
    /\ fw_update_queue \in Seq(Types)
    /\ inUse \in Nat /\ lost \in Nat /\ i \in 0..DestCount
    /\ pc \in [Tasks -> {"off", "receive", "route", "parse", "check", "discard", "free"}]
    /\ pdu \in [Tasks -> Types \cup {NoPdu}]
    /\ interrupted \subseteq Tasks /\ faulted \in BOOLEAN

Held(t) == IF pdu[t] = NoPdu THEN 0 ELSE 1

(* Every malloc'd buffer is in exactly one queue or with exactly one task: *)
(* no path through interrupt, router and gateway frees a payload twice, or *)
(* forgets one - forwarding hands it on, a full queue gives it back.  Only *)
(* an update that ends on an unexpected answer forgets its PDU's (lost),   *)
(* although "upper layers must free() the buffer space" (can.c:164).       *)
BuffersAccounted ==
    inUse = Len(PDU_queue) + Len(gateway_queue) + Len(fw_update_queue)
            + Held("router") + Held("gateway") + Held("updater") + lost

(* CAN_buildPDU copies to what malloc returned without a look at it.  That *)
(* is NULL only once updates have forgotten so many payloads that full     *)
(* queues and one PDU in every task do not fit beside them any more: no    *)
(* traffic, however dense, exhausts the heap without the leak.             *)
FaultNeedsLeak ==
    faulted => lost + PDU_QUEUE_SIZE + GW_QUEUE_SIZE + FW_QUEUE_SIZE + 3 > HeapSize

(* The gateway only ever gets CMD PDUs, the updater FW ones: a task never  *)
(* waits in a branch that none of its cases handles.                       *)
RoutedByType ==
    /\ \A k \in 1..Len(gateway_queue) : gateway_queue[k] = "CMD"
    /\ \A k \in 1..Len(fw_update_queue) : fw_update_queue[k] = "FW"
    /\ pdu["gateway"] \in {"CMD", NoPdu} /\ pdu["updater"] \in {"FW", NoPdu}

(* PDU_discardPDU's free() is never cut into by another user of the heap,  *)
(* neither the interrupt's malloc nor another task's free.                 *)
DiscardUninterrupted == interrupted \subseteq {"updater"}

(* The router is never blocked by a consumer that does not keep up: it     *)
(* always comes back to its queue, so the interrupt's queue keeps moving,  *)
(* unless the interrupt has faulted.                                       *)
RouterReturns == []<>(faulted \/ pc["router"] = "receive")

(* Once the bus is quiet every payload is given back, but those of FW PDUs *)
(* (which wait for an update) and those that updates forgot.               *)
QuietBusDrains ==
    <>[][\A type \in Types : ~CanReceive(type)]_vars =>
        <>[](faulted \/ inUse = Len(fw_update_queue) + Held("updater") + lost)

=============================================================================
