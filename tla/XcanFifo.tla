------------------------------ MODULE XcanFifo ------------------------------
(***************************************************************************)
(* What the users of stack/include/xcan_queue.h rely on: every queue is a  *)
(* FIFO of frames, bounded when its limit is not 0, that reports its       *)
(* result in `ret'.  No pointers and no counter appear here; XcanQueue is  *)
(* the linked list that has to implement it.                               *)
(***************************************************************************)
EXTENDS Integers, Sequences

CONSTANTS Queues, Frames, NULL, MaxFrames

VARIABLES contents, \* what each queue holds, oldest frame first
          ret       \* what the last call returned to its caller

fifoVars == <<contents, ret>>

Holding(f) == \E q \in Queues : \E i \in DOMAIN contents[q] : contents[q][i] = f

Full(q) == MaxFrames[q] # 0 /\ Len(contents[q]) >= MaxFrames[q]

Init == contents = [q \in Queues |-> <<>>] /\ ret = NULL

(* A frame is stored once: never while some queue still holds it.          *)
Put(q, f) ==
    /\ ~Full(q) /\ ~Holding(f)
    /\ contents' = [contents EXCEPT ![q] = Append(@, f)]
    /\ ret' = 0

Refuse(q) == Full(q) /\ ret' = -1 /\ UNCHANGED contents

Get(q) ==
    /\ contents[q] # <<>>
    /\ contents' = [contents EXCEPT ![q] = Tail(@)]
    /\ ret' = Head(contents[q])

Look(q) ==
    /\ ret' = IF contents[q] = <<>> THEN NULL ELSE Head(contents[q])
    /\ UNCHANGED contents

Next == \E q \in Queues : \/ \E f \in Frames : Put(q, f)
                          \/ Refuse(q)
                          \/ Get(q)
                          \/ Look(q)

Spec == Init /\ [][Next]_fifoVars
=============================================================================
