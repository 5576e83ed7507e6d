----------------------------- MODULE XcanStack ------------------------------
(***************************************************************************)
(* stack/xcan_device.c, stack/xcan_stack.c and the device driver           *)
(* modules/xcan_dev_socketcan.c: the pool of registered devices, the       *)
(* frames waiting in their q_in and q_out, and the loops that spend a      *)
(* score on them.  One thread runs all of it: an application calls the     *)
(* operations of the first group between two loops, and the loop is cut    *)
(* into steps so that its bounds can be stated.                            *)
(*                                                                         *)
(* A queue is the number of frames in it: XcanQueue shows that the lists   *)
(* hand their frames out in order and none is lost in them.                *)
(***************************************************************************)
EXTENDS Integers, FiniteSets

CONSTANTS MaxDevices,  \* XCAN_MAX_DEVICES
          Devs,        \* the xcan_device structures in memory
          NULL,
          TickScore,   \* the score xcan_stack_tick starts with (20)
          LoopScores,  \* scores an application gives xcan_devices_loop
          SendResults, \* what dev->send may do: [sent |-> ..., rc |-> ...]
          MaxQueued,   \* bound: frames in one queue
          MaxAccepted  \* bound: frames one device is asked to send, in total

ASSUME StackAssumption ==
    /\ MaxDevices \in Nat \ {0} /\ NULL \notin Devs
    /\ TickScore \in Nat /\ LoopScores \subseteq Int
    /\ SendResults \subseteq [sent : BOOLEAN, rc : Int]
    /\ MaxQueued \in Nat /\ MaxAccepted \in Nat

VARIABLES devices, \* devices[]: the registered device of every id
          live,    \* the devices that were created and not destroyed
          id,      \* dev->id
          qIn, qOut,      \* dev->q_in->frames, dev->q_out->frames
          accepted, wire, \* history: frames put in q_out, frames transmitted
          pc,      \* "idle", "while" (the loop head) or "for" (a device)
          ticking, dir, cur, score, \* xcan_stack_tick, direction, i, loop_score
          taken, offered \* history: frames this loop moved, had at its start

registry == <<devices, live, id>>
queues   == <<qIn, qOut, accepted, wire>>
loop     == <<pc, ticking, dir, cur, score, taken, offered>>
vars     == <<registry, queues, loop>>

Slots == 0..(MaxDevices - 1)
DIR_IN  == 0  \* XCAN_LOOP_DIR_IN
DIR_OUT == 1  \* XCAN_LOOP_DIR_OUT
Idle == pc = "idle"

Registered == {devices[s] : s \in Slots} \ {NULL}

Init ==
    /\ devices = [s \in Slots |-> NULL] /\ live = {} /\ id = [d \in Devs |-> 0]
    /\ qIn = [d \in Devs |-> 0] /\ qOut = [d \in Devs |-> 0]
    /\ accepted = [d \in Devs |-> 0] /\ wire = [d \in Devs |-> 0]
    /\ pc = "idle" /\ ticking = FALSE /\ dir = DIR_IN /\ cur = 0 /\ score = 0
    /\ taken = 0 /\ offered = 0

-----------------------------------------------------------------------------
\* Mutated forms of the definitions below, used by the mutants of the project.
CreateFails_Registered(d, i) ==
    /\ Idle /\ d \notin live
    /\ id' = [id EXCEPT ![d] = IF i < MaxDevices THEN i ELSE @]
    /\ devices' = IF i < MaxDevices THEN [devices EXCEPT ![i] = d] ELSE devices
    /\ UNCHANGED <<live, queues, loop>>
Moves_Free == taken' = taken + 1 /\ UNCHANGED score
EndPass_NoDecrement ==
    /\ pc = "for" /\ cur = MaxDevices
    /\ pc' = "while"
    /\ UNCHANGED <<registry, queues, ticking, dir, cur, score, taken, offered>>
Break_Dequeues ==
    /\ cur' = cur + 1
    /\ qOut' = [qOut EXCEPT ![devices[cur]] = @ - 1]
    /\ UNCHANGED <<accepted, score, taken>>
MayMove_IgnoresEmpty(q) == devices[cur] # NULL /\ score > 0
Pass_FromOne ==
    /\ pc = "while" /\ score > 0
    /\ pc' = "for" /\ cur' = 1
    /\ UNCHANGED <<registry, queues, ticking, dir, score, taken, offered>>
-----------------------------------------------------------------------------
(* xcan_socketcan_create up to a failing xcan_device_init: an id out of    *)
(* range, or no memory for a queue.  The device is freed again.            *)
CreateFails(d, i) ==
    /\ Idle /\ d \notin live
    /\ id' = [id EXCEPT ![d] = IF i < MaxDevices THEN i ELSE @]
    /\ UNCHANGED <<devices, live, queues, loop>>

(* xcan_socketcan_create: whatever the slot held before is overwritten.    *)
Create(d, i) ==
    /\ Idle /\ d \notin live
    /\ i < MaxDevices
    /\ live' = live \cup {d}
    /\ id' = [id EXCEPT ![d] = i]
    /\ devices' = [devices EXCEPT ![i] = d]
    /\ qIn' = [qIn EXCEPT ![d] = 0] /\ qOut' = [qOut EXCEPT ![d] = 0]
    /\ accepted' = [accepted EXCEPT ![d] = 0] /\ wire' = [wire EXCEPT ![d] = 0]
    /\ UNCHANGED loop

(* xcan_device_destroy: empties the slot dev->id, whoever is in it.        *)
Destroy(d) ==
    /\ Idle /\ d \in live
    /\ devices' = [devices EXCEPT ![id[d]] = NULL]
    /\ live' = live \ {d}
    /\ UNCHANGED <<id, queues, loop>>

(* xcan_stack_recv: q_in has no limit (xcan_device_init sets none).        *)
StackRecv(d) ==
    /\ Idle /\ d \in live /\ qIn[d] < MaxQueued
    /\ qIn' = [qIn EXCEPT ![d] = @ + 1]
    /\ UNCHANGED <<registry, qOut, accepted, wire, loop>>

(* An application puts a frame in q_out: no code of the stack does.        *)
QueueOut(d) ==
    /\ Idle /\ d \in live
    /\ qOut[d] < MaxQueued /\ accepted[d] < MaxAccepted
    /\ qOut' = [qOut EXCEPT ![d] = @ + 1]
    /\ accepted' = [accepted EXCEPT ![d] = @ + 1]
    /\ UNCHANGED <<registry, qIn, wire, loop>>

-----------------------------------------------------------------------------
(* The frames in the queues q of the devices a loop visits, each named by   *)
(* the slot of its device and its position in the queue.                   *)
Frames(q) == {f \in Slots \X (1..MaxQueued) :
                  devices[f[1]] # NULL /\ f[2] <= q[devices[f[1]]]}
Waiting(q) == Cardinality(Frames(q))

EnterLoop(s, dr, tick) ==
    /\ Idle
    /\ pc' = "while" /\ ticking' = tick /\ dir' = dr /\ score' = s
    /\ taken' = 0 /\ offered' = Waiting(IF dr = DIR_IN THEN qIn ELSE qOut)
    /\ UNCHANGED <<registry, queues, cur>>

(* xcan_stack_tick: the loop IN with the whole score, then (EndLoop) the   *)
(* loop OUT with the score the first one returned.                         *)
Tick == EnterLoop(TickScore, DIR_IN, TRUE)

(* xcan_devices_loop, called by an application.                            *)
DevicesLoop(s, dr) == EnterLoop(s, dr, FALSE)

(* while(loop_score > 0): one pass over the devices, from the first.       *)
Pass ==
    /\ pc = "while" /\ score > 0
    /\ pc' = "for" /\ cur' = 0
    /\ UNCHANGED <<registry, queues, ticking, dir, score, taken, offered>>

(* The loop has spent its score: the loop IN of a tick hands what is left  *)
(* of it to the loop OUT, any other one returns (and its variables end).   *)
EndLoop ==
    /\ pc = "while" /\ score <= 0
    /\ IF ticking /\ dir = DIR_IN
       THEN /\ dir' = DIR_OUT /\ taken' = 0 /\ offered' = Waiting(qOut)
            /\ UNCHANGED <<pc, ticking, cur, score>>
       ELSE /\ pc' = "idle" /\ ticking' = FALSE /\ dir' = DIR_IN
            /\ cur' = 0 /\ score' = 0 /\ taken' = 0 /\ offered' = 0
    /\ UNCHANGED <<registry, queues>>

EndPass ==
    /\ pc = "for" /\ cur = MaxDevices
    /\ pc' = "while" /\ score' = score - 1
    /\ UNCHANGED <<registry, queues, ticking, dir, cur, taken, offered>>

-----------------------------------------------------------------------------
\* The body of the for loop: devloop_in and devloop_out of devices[cur].

Visiting == pc = "for" /\ cur < MaxDevices

MayMove(q) == devices[cur] # NULL /\ score > 0 /\ q[devices[cur]] > 0
Moves == taken' = taken + 1 /\ score' = score - 1

(* No device in the slot, no score left or no frame waiting.               *)
Leave ==
    /\ Visiting /\ ~MayMove(IF dir = DIR_IN THEN qIn ELSE qOut)
    /\ cur' = cur + 1
    /\ UNCHANGED <<registry, queues, pc, ticking, dir, score, taken, offered>>

(* devloop_in: one frame goes to xcan_datalink_receive.                    *)
DevloopIn ==
    /\ dir = DIR_IN /\ Visiting /\ MayMove(qIn) /\ Moves
    /\ qIn' = [qIn EXCEPT ![devices[cur]] = @ - 1]
    /\ UNCHANGED <<registry, qOut, accepted, wire, pc, ticking, dir, cur, offered>>

(* dev->send returned 0: the frame is taken out of q_out and discarded.    *)
Sent ==
    /\ Moves
    /\ qOut' = [qOut EXCEPT ![devices[cur]] = @ - 1]
    /\ UNCHANGED <<accepted, cur>>

(* It returned something else: the frame stays, the next device is served. *)
Break == cur' = cur + 1 /\ UNCHANGED <<qOut, accepted, score, taken>>

(* devloop_out: one call of dev->send with the frame at the head of q_out. *)
DevloopOut(r) ==
    /\ dir = DIR_OUT /\ Visiting /\ MayMove(qOut)
    /\ r.sent => wire[devices[cur]] <= MaxAccepted
    /\ wire' = [wire EXCEPT ![devices[cur]] = IF r.sent THEN @ + 1 ELSE @]
    /\ IF r.rc = 0 THEN Sent ELSE Break
    /\ UNCHANGED <<registry, qIn, pc, ticking, dir, offered>>

LoopStep == Pass \/ EndLoop \/ EndPass \/ Leave \/ DevloopIn
                \/ \E r \in SendResults : DevloopOut(r)

Next ==
    \/ \E d \in Devs, i \in 0..MaxDevices : CreateFails(d, i) \/ Create(d, i)
    \/ \E d \in Devs : Destroy(d) \/ StackRecv(d) \/ QueueOut(d)
    \/ Tick
    \/ \E s \in LoopScores, dr \in {DIR_IN, DIR_OUT} : DevicesLoop(s, dr)
    \/ LoopStep

(* A loop that was entered runs on, and the main loop of the example       *)
(* (examples/linux/main.c) calls xcan_stack_tick again and again, whatever *)
(* else runs between two ticks.                                            *)
Spec == Init /\ [][Next]_vars
FairSpec == Spec /\ WF_vars(LoopStep) /\ SF_vars(Tick)

-----------------------------------------------------------------------------
(* No uint32_t frame counter of a queue is ever decremented below 0, and   *)
(* no loop_score below -1, unless an application began with less.          *)
TypeOK ==
    /\ devices \in [Slots -> Devs \cup {NULL}]
    /\ live \subseteq Devs /\ id \in [Devs -> Slots]
    /\ qIn \in [Devs -> 0..MaxQueued] /\ qOut \in [Devs -> 0..MaxQueued]
    /\ accepted \in [Devs -> 0..MaxAccepted]
    /\ wire \in [Devs -> 0..(MaxAccepted + 1)]
    /\ pc \in {"idle", "while", "for"} /\ ticking \in BOOLEAN
    /\ dir \in {DIR_IN, DIR_OUT} /\ cur \in 0..MaxDevices
    /\ score \in Int /\ taken \in Nat
    /\ pc = "for" => score >= 0
    /\ score >= -1 \/ score \in LoopScores

(* The pool never points to a device that was freed, and every device it   *)
(* points to carries the id of its slot - the slot that destroying it will *)
(* clear.  Creation that fails half way, a second device with an id in use *)
(* and destruction in any order all keep it.                               *)
NoDanglingDevice ==
    \A s \in Slots : devices[s] # NULL => devices[s] \in live /\ id[devices[s]] = s

(* The loop IN of a tick spends its score on frames as long as there are   *)
(* any: when it returns it has moved all frames that waited, or as many as *)
(* the score allows, however they were spread over the devices.  Neither   *)
(* loop of a tick moves more, and no loop returns less than -1.            *)
ScoreSpent ==
    /\ ticking /\ dir = DIR_IN /\ pc = "while" /\ score <= 0 =>
          taken = IF offered < TickScore THEN offered ELSE TickScore
    /\ ticking => taken <= TickScore
    /\ pc = "while" /\ score <= 0 /\ taken > 0 => score >= -1

(* Every frame accepted for sending is on the wire once or still waits: a  *)
(* failed dev->send neither loses the frame nor a success sends it twice.  *)
SentOnce == \A d \in live : wire[d] + qOut[d] = accepted[d]

(* A tick comes to an end whatever the queues hold and the devices answer. *)
TickEnds == ticking ~> ~ticking

(* The device with the lowest id is never starved by the others.           *)
Served(d) == pc = "for" /\ dir = DIR_IN /\ cur = 0 /\ devices[0] = d /\ taken > 0
FirstServed == \A d \in Devs : []<>(devices[0] # d \/ qIn[d] = 0 \/ Served(d))

-----------------------------------------------------------------------------
(* xcan_stack.c:68 "Send up to 10 CAN frames out of the stack": a frame of *)
(* a registered device, whose driver can send, leaves in some later tick.  *)
TickSendsFrames ==
    \A d \in Devs : (d \in Registered /\ qOut[d] > 0)
                        ~> (d \notin Registered \/ wire[d] > 0)
=============================================================================
