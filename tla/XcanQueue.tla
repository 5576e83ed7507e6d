----------------------------- MODULE XcanQueue ------------------------------
(***************************************************************************)
(* stack/include/xcan_queue.h: the queues of an xcan_device are linked     *)
(* lists threaded through the `next' field of the frames themselves, with  *)
(* a separate frame counter.  The field belongs to the frame, not to the   *)
(* queue, so all queues share it.                                          *)
(*                                                                         *)
(* `held' is the callers' side of the contract (a caller hands a frame     *)
(* over when xcan_enqueue succeeds and gets it back from xcan_dequeue) and *)
(* `contents' is a history variable: the order in which frames were        *)
(* accepted.  No guard reads `contents'.                                   *)
(***************************************************************************)
EXTENDS Integers, Sequences

CONSTANTS Queues,    \* the queues (q_in and q_out of the devices)
          Frames,    \* the frame descriptors in memory
          NULL,      \* the null pointer
          MaxFrames  \* q->max_frames of each queue, 0 for no limit

ASSUME QueueAssumption ==
    /\ NULL \notin Queues /\ NULL \notin Frames
    /\ 0 \notin Frames /\ -1 \notin Frames
    /\ MaxFrames \in [Queues -> Nat]

VARIABLES next, head, tail, frames, \* the fields, as the source names them
          draining,  \* the queue xcan_queue_empty is looping on, or NULL
          ret,       \* what the last call returned
          held, contents

listVars == <<next, head, tail, frames>>
vars == <<next, head, tail, frames, draining, ret, held, contents>>

Pointer == Frames \cup {NULL}

Init ==
    /\ next = [f \in Frames |-> NULL]
    /\ head = [q \in Queues |-> NULL]
    /\ tail = [q \in Queues |-> NULL]
    /\ frames = [q \in Queues |-> 0]
    /\ draining = NULL
    /\ ret = NULL
    /\ held = Frames
    /\ contents = [q \in Queues |-> <<>>]

-----------------------------------------------------------------------------
\* Mutated forms of the definitions below, used by the mutants of the project.
QueueFull_OffByOne(q) == MaxFrames[q] # 0 /\ frames[q] > MaxFrames[q]
TailLink_StaleNext(q, f) ==
    IF head[q] = NULL THEN next ELSE [next EXCEPT ![tail[q]] = f]
Unlink_FromTail(q) ==
    /\ head' = [head EXCEPT ![q] = IF next[@] = NULL THEN @ ELSE next[@]]
    /\ tail' = [tail EXCEPT ![q] = IF next[head[q]] = NULL THEN NULL ELSE @]
    /\ next' = [next EXCEPT ![head[q]] = NULL]
    /\ frames' = [frames EXCEPT ![q] = @ - 1]
Unlink_CountTwice(q) ==
    /\ head' = [head EXCEPT ![q] = next[@]]
    /\ tail' = [tail EXCEPT ![q] = IF next[head[q]] = NULL THEN NULL ELSE @]
    /\ next' = [next EXCEPT ![head[q]] = NULL]
    /\ frames' = [frames EXCEPT ![q] = @ - 2]
-----------------------------------------------------------------------------

QueueFull(q) == MaxFrames[q] # 0 /\ frames[q] >= MaxFrames[q]

(* The next pointers once f has been put behind the last frame of q.       *)
TailLink(q, f) ==
    IF head[q] = NULL THEN [next EXCEPT ![f] = NULL]
                      ELSE [next EXCEPT ![f] = NULL, ![tail[q]] = f]

(* xcan_enqueue: only a frame its caller holds may be handed over.         *)
EnqueueFull(q, f) ==
    /\ draining = NULL /\ f \in held
    /\ QueueFull(q)
    /\ ret' = -1
    /\ UNCHANGED <<listVars, draining, held, contents>>

Enqueue(q, f) ==
    /\ draining = NULL /\ f \in held
    /\ ~QueueFull(q)
    /\ next' = TailLink(q, f)
    /\ head' = [head EXCEPT ![q] = IF @ = NULL THEN f ELSE @]
    /\ tail' = [tail EXCEPT ![q] = f]
    /\ frames' = [frames EXCEPT ![q] = IF head[q] = NULL THEN 1 ELSE @ + 1]
    /\ ret' = 0
    /\ held' = held \ {f}
    /\ contents' = [contents EXCEPT ![q] = Append(@, f)]
    /\ UNCHANGED draining

NothingToTake(q) == head[q] = NULL \/ frames[q] < 1

(* The field updates of a successful xcan_dequeue.                         *)
Unlink(q) ==
    /\ head' = [head EXCEPT ![q] = next[@]]
    /\ tail' = [tail EXCEPT ![q] = IF next[head[q]] = NULL THEN NULL ELSE @]
    /\ next' = [next EXCEPT ![head[q]] = NULL]
    /\ frames' = [frames EXCEPT ![q] = @ - 1]

TakeFirst(q) ==
    /\ ~NothingToTake(q)
    /\ Unlink(q)
    /\ ret' = head[q]
    /\ held' = held \cup {head[q]}
    /\ contents' = [contents EXCEPT ![q] = Tail(@)]

TakeNone(q) ==
    /\ NothingToTake(q)
    /\ ret' = NULL
    /\ UNCHANGED <<listVars, held, contents>>

(* xcan_dequeue                                                            *)
Dequeue(q) ==
    /\ draining = NULL /\ UNCHANGED draining
    /\ TakeFirst(q) \/ TakeNone(q)

(* xcan_queue_peek: tests the counter only, and returns head.              *)
Peek(q) ==
    /\ draining = NULL
    /\ ret' = IF frames[q] < 1 THEN NULL ELSE head[q]
    /\ UNCHANGED <<listVars, draining, held, contents>>

(* xcan_queue_empty: dequeue and discard until xcan_dequeue returns NULL.  *)
BeginEmpty(q) ==
    /\ draining = NULL /\ draining' = q
    /\ UNCHANGED <<listVars, ret, held, contents>>

DrainStep(q) ==
    /\ draining = q
    /\ \/ TakeFirst(q) /\ UNCHANGED draining
       \/ TakeNone(q) /\ draining' = NULL

(* A frame its caller holds is discarded and its memory handed out again   *)
(* by xcan_frame_do_alloc, which leaves `next' as it finds it.             *)
Recycle(f) ==
    /\ f \in held
    /\ \E p \in Pointer : next' = [next EXCEPT ![f] = p]
    /\ UNCHANGED <<head, tail, frames, draining, ret, held, contents>>

Next ==
    \/ \E q \in Queues, f \in Frames : Enqueue(q, f) \/ EnqueueFull(q, f)
    \/ \E q \in Queues : Dequeue(q) \/ Peek(q) \/ BeginEmpty(q) \/ DrainStep(q)
    \/ \E f \in Frames : Recycle(f)

(* xcan_queue_empty runs to its end: nothing else runs in its thread.      *)
Spec == Init /\ [][Next]_vars
FairSpec == Spec /\ \A q \in Queues : WF_vars(DrainStep(q))

-----------------------------------------------------------------------------
(* Every field holds a pointer to a frame or NULL, the counters stay       *)
(* naturals (xcan_dequeue's frames-- never wraps below 0).                 *)
TypeOK ==
    /\ next \in [Frames -> Pointer]
    /\ head \in [Queues -> Pointer]
    /\ tail \in [Queues -> Pointer]
    /\ frames \in [Queues -> Nat]
    /\ draining \in Queues \cup {NULL}
    /\ ret \in Pointer \cup {0, -1}
    /\ held \in SUBSET Frames
    /\ contents \in [Queues -> Seq(Frames)]

(* The list of one queue: from head, along next, to tail, it holds the     *)
(* accepted frames in order, ends in NULL, and `frames' is its length.     *)
Linked(q) ==
    /\ frames[q] = Len(contents[q])
    /\ contents[q] = <<>> => head[q] = NULL /\ tail[q] = NULL
    /\ contents[q] # <<>> =>
          /\ head[q] = contents[q][1]
          /\ tail[q] = contents[q][Len(contents[q])]
          /\ next[tail[q]] = NULL
    /\ \A i \in 1..(Len(contents[q]) - 1) : next[contents[q][i]] = contents[q][i + 1]

(* The lists never run into each other although all of them share the next *)
(* field: a frame sits at one place of one queue, or with its caller.      *)
Disjoint ==
    /\ \A q \in Queues : \A i \in DOMAIN contents[q] : contents[q][i] \notin held
    /\ \A q1, q2 \in Queues : \A i \in DOMAIN contents[q1], j \in DOMAIN contents[q2] :
          contents[q1][i] = contents[q2][j] => q1 = q2 /\ i = j

(* Counter, head, tail and next pointers agree in every state, which is    *)
(* what xcan_dequeue and devloop_in assume when they read only one of them. *)
ListsWellFormed == (\A q \in Queues : Linked(q)) /\ Disjoint

(* xcan_queue_empty ends, and leaves a queue without frames.               *)
EmptyEnds ==
    \A q \in Queues : (draining = q) ~> (draining = NULL /\ head[q] = NULL)

(* The linked lists implement the bounded FIFOs of XcanFifo: the same      *)
(* frames come out in the same order and the same calls are refused.       *)
Fifo == INSTANCE XcanFifo WITH contents <- contents, ret <- ret
FifoSpec == Fifo!Spec
=============================================================================
