-------------------------- MODULE XcanQueueProofs ---------------------------
(***************************************************************************)
(* Proofs about the linked-list queues of XcanQueue, for any number of     *)
(* queues, frames and limits.                                              *)
(***************************************************************************)
EXTENDS XcanQueue, TLAPS

(* What the inductive step needs beyond types: the lists are well formed.  *)
IInv == TypeOK /\ ListsWellFormed

-----------------------------------------------------------------------------
\* Appending to and removing from a sequence, element by element.
LEMMA AppendElements ==
    ASSUME NEW S, NEW s \in Seq(S), NEW e \in S
    PROVE  /\ Append(s, e) \in Seq(S)
           /\ Append(s, e) # <<>>
           /\ Len(Append(s, e)) = Len(s) + 1
           /\ DOMAIN Append(s, e) = 1..(Len(s) + 1)
           /\ Append(s, e)[Len(s) + 1] = e
           /\ \A i \in 1..Len(s) : Append(s, e)[i] = s[i]
  OBVIOUS

LEMMA TailElements ==
    ASSUME NEW S, NEW s \in Seq(S), s # <<>>
    PROVE  /\ Tail(s) \in Seq(S)
           /\ Len(s) \in Nat \ {0}
           /\ Len(Tail(s)) = Len(s) - 1
           /\ DOMAIN Tail(s) = 1..(Len(s) - 1)
           /\ \A i \in 1..(Len(s) - 1) : Tail(s)[i] = s[i + 1]
           /\ Head(s) = s[1] /\ s[1] \in S
  OBVIOUS

LEMMA SeqBasics ==
    ASSUME NEW S, NEW s \in Seq(S)
    PROVE  /\ DOMAIN s = 1..Len(s)
           /\ Len(s) \in Nat
           /\ s = <<>> <=> Len(s) = 0
           /\ \A i \in 1..Len(s) : s[i] \in S
  OBVIOUS

LEMMA TailEmpty ==
    ASSUME NEW S, NEW s \in Seq(S), s # <<>>
    PROVE  Tail(s) = <<>> <=> Len(s) = 1
<1>1. Tail(s) \in Seq(S) /\ Len(Tail(s)) = Len(s) - 1 /\ Len(s) \in Nat
  BY TailElements
<1> DEFINE n == Len(s)
<1>2. n \in Nat /\ Len(Tail(s)) = n - 1
  BY <1>1
<1> HIDE DEF n
<1>3. Len(Tail(s)) = 0 <=> n = 1
  BY <1>2
<1>4. QED
  BY <1>1, <1>3, SeqBasics DEF n

-----------------------------------------------------------------------------
LEMMA InitIInv == Init => IInv
  BY QueueAssumption DEF Init, IInv, TypeOK, ListsWellFormed, Linked, Disjoint, Pointer

\* A queue is empty for its list exactly when its counter says so.
LEMMA EmptyQueue ==
    ASSUME IInv, NEW q \in Queues
    PROVE  /\ NothingToTake(q) <=> contents[q] = <<>>
           /\ head[q] = NULL <=> contents[q] = <<>>
           /\ frames[q] < 1 <=> contents[q] = <<>>
           /\ contents[q] # <<>> => head[q] = contents[q][1] /\ head[q] \in Frames
           /\ frames[q] = Len(contents[q])
  BY QueueAssumption, SeqBasics
     DEF IInv, TypeOK, ListsWellFormed, Linked, NothingToTake, Pointer

-----------------------------------------------------------------------------
\* Each action keeps the lists well formed.
LEMMA EnqueueStep ==
    ASSUME IInv, NEW q \in Queues, NEW f \in Frames, Enqueue(q, f)
    PROVE  IInv'
<1> DEFINE c == contents[q]
<1>1. /\ c \in Seq(Frames) /\ f \in held
      /\ contents' = [contents EXCEPT ![q] = Append(c, f)]
      /\ \A r \in Queues : r # q => contents'[r] = contents[r]
      /\ contents'[q] = Append(c, f)
  BY DEF IInv, TypeOK, Enqueue
<1>2. TypeOK'
  <2>1. contents' \in [Queues -> Seq(Frames)]
    BY <1>1, AppendElements DEF IInv, TypeOK
  <2>2. next' \in [Frames -> Pointer]
    BY <1>1 DEF IInv, TypeOK, Enqueue, TailLink, Pointer
  <2>3. /\ head' \in [Queues -> Pointer]
        /\ tail' \in [Queues -> Pointer]
        /\ frames' \in [Queues -> Nat]
    BY DEF IInv, TypeOK, Enqueue, Pointer
  <2>4. QED
    BY <2>1, <2>2, <2>3 DEF IInv, TypeOK, Enqueue, Pointer
<1>3. Disjoint'
  <2>1. \A r \in Queues : \A i \in DOMAIN contents[r] : contents[r][i] # f
    BY <1>1 DEF IInv, ListsWellFormed, Disjoint
  <2>2. held' = held \ {f}
    BY DEF Enqueue
  <2>3. QED
    BY <1>1, <2>1, <2>2, AppendElements, SeqBasics
       DEF IInv, TypeOK, ListsWellFormed, Disjoint
<1>4. ASSUME NEW r \in Queues PROVE Linked(r)'
  <2>1. Linked(r) /\ Linked(q) /\ contents[r] \in Seq(Frames)
    BY DEF IInv, TypeOK, ListsWellFormed
  <2>2. CASE r # q
    <3>1. /\ contents'[r] = contents[r] /\ head'[r] = head[r]
          /\ tail'[r] = tail[r] /\ frames'[r] = frames[r]
      BY <1>1, <2>2 DEF IInv, TypeOK, Enqueue
    <3>2. \A i \in 1..Len(contents[r]) : next'[contents[r][i]] = next[contents[r][i]]
      BY <1>1, <2>1, <2>2, EmptyQueue, SeqBasics
         DEF IInv, TypeOK, ListsWellFormed, Disjoint, Linked, Enqueue, TailLink
    <3>3. QED
      BY <2>1, <3>1, <3>2, SeqBasics DEF Linked
  <2>3. CASE r = q /\ c = <<>>
    BY <1>1, <2>1, <2>3, EmptyQueue, AppendElements
       DEF IInv, TypeOK, Linked, Enqueue, TailLink
  <2>4. CASE r = q /\ c # <<>>
    <3>1. head[q] # NULL /\ tail[q] = c[Len(c)] /\ tail[q] \in Frames /\ Len(c) \in Nat \ {0}
      BY <1>1, <2>1, <2>4, EmptyQueue, SeqBasics DEF Linked
    <3>2. next' = [next EXCEPT ![f] = NULL, ![tail[q]] = f]
      BY <3>1 DEF Enqueue, TailLink
    <3>3. tail[q] # f
      BY <1>1, <3>1, SeqBasics DEF IInv, ListsWellFormed, Disjoint
    <3>4. \A i \in 1..(Len(c) - 1) : next'[c[i]] = c[i + 1]
      <4>1. \A i \in 1..(Len(c) - 1) : c[i] # f /\ c[i] # tail[q] /\ c[i] \in Frames
        BY <1>1, <3>1, SeqBasics DEF IInv, ListsWellFormed, Disjoint
      <4>2. QED
        BY <2>1, <2>4, <3>2, <4>1 DEF Linked, IInv, TypeOK
    <3>5. next'[c[Len(c)]] = f /\ next'[f] = NULL
      BY <3>1, <3>2, <3>3 DEF IInv, TypeOK
    <3>6. head'[q] = c[1] /\ tail'[q] = f /\ frames'[q] = Len(c) + 1
      BY <2>1, <2>4, <3>1 DEF IInv, TypeOK, Linked, Enqueue
    <3>7. QED
      BY <1>1, <2>4, <3>1, <3>4, <3>5, <3>6, AppendElements DEF Linked
  <2>5. QED
    BY <2>2, <2>3, <2>4
<1>5. QED
  BY <1>2, <1>3, <1>4 DEF IInv, ListsWellFormed

LEMMA TakeFirstStep ==
    ASSUME IInv, NEW q \in Queues, TakeFirst(q), draining' \in Queues \cup {NULL}
    PROVE  IInv'
<1> DEFINE c == contents[q]
<1>1. /\ c \in Seq(Frames) /\ c # <<>>
      /\ head[q] = c[1] /\ c[1] \in Frames
      /\ \A r \in Queues : r # q => contents'[r] = contents[r]
      /\ contents'[q] = Tail(c)
      /\ held' = held \cup {c[1]}
      /\ Linked(q)
  BY EmptyQueue DEF IInv, TypeOK, ListsWellFormed, TakeFirst
<1>2. Len(c) \in Nat \ {0} /\ frames[q] = Len(c)
  BY <1>1, EmptyQueue, SeqBasics
<1>3. /\ next' = [next EXCEPT ![c[1]] = NULL]
      /\ head'[q] = next[c[1]]
      /\ tail'[q] = IF next[c[1]] = NULL THEN NULL ELSE tail[q]
      /\ frames'[q] = Len(c) - 1
  BY <1>1, <1>2 DEF TakeFirst, Unlink, IInv, TypeOK
<1>4. TypeOK'
  <2>1. contents' \in [Queues -> Seq(Frames)]
    BY <1>1, TailElements DEF IInv, TypeOK, TakeFirst
  <2>2. frames' \in [Queues -> Nat]
    BY <1>2, <1>3 DEF IInv, TypeOK, TakeFirst, Unlink
  <2>3. QED
    BY <1>1, <2>1, <2>2 DEF IInv, TypeOK, TakeFirst, Unlink, Pointer
<1>5. \A i \in 2..Len(c) : c[i] # c[1]
  BY <1>1, <1>2, SeqBasics DEF IInv, ListsWellFormed, Disjoint
<1>6. Disjoint'
  <2>1. \A r \in Queues : \A i \in DOMAIN contents[r] :
           contents[r][i] = c[1] => r = q /\ i = 1
    BY <1>1, <1>2, SeqBasics DEF IInv, ListsWellFormed, Disjoint
  <2>2. \A i \in 1..(Len(c) - 1) : Tail(c)[i] = c[i + 1] /\ i + 1 \in DOMAIN c
    BY <1>1, TailElements, SeqBasics
  <2>3. DOMAIN Tail(c) = 1..(Len(c) - 1)
    BY <1>1, TailElements
  <2>4. ASSUME NEW r \in Queues, NEW i \in DOMAIN contents'[r]
        PROVE  /\ contents'[r][i] \notin held'
               /\ r = q => contents'[r][i] = c[i + 1] /\ i + 1 \in DOMAIN c /\ i \in Nat
               /\ r # q => contents'[r][i] = contents[r][i] /\ i \in DOMAIN contents[r]
    <3>1. CASE r = q
      <4>1. i \in 1..(Len(c) - 1) /\ contents'[r][i] = c[i + 1] /\ i + 1 \in DOMAIN c
        BY <1>1, <2>2, <2>3, <3>1
      <4>2. c[i + 1] \notin held
        BY <4>1 DEF IInv, ListsWellFormed, Disjoint
      <4>3. c[i + 1] # c[1]
        BY <1>2, <2>1, <4>1
      <4>4. QED
        BY <1>1, <1>2, <3>1, <4>1, <4>2, <4>3
    <3>2. CASE r # q
      BY <1>1, <2>1, <3>2 DEF IInv, ListsWellFormed, Disjoint
    <3>3. QED
      BY <3>1, <3>2
  <2>5. \A r \in Queues : \A i \in DOMAIN contents'[r] : contents'[r][i] \notin held'
    BY <2>4
  <2>6. ASSUME NEW r1 \in Queues, NEW r2 \in Queues,
               NEW i \in DOMAIN contents'[r1], NEW j \in DOMAIN contents'[r2],
               contents'[r1][i] = contents'[r2][j]
        PROVE  r1 = r2 /\ i = j
    <3>1. CASE r1 = q /\ r2 = q
      BY <2>4, <2>6, <3>1 DEF IInv, ListsWellFormed, Disjoint
    <3>2. CASE r1 = q /\ r2 # q
      BY <2>4, <2>6, <3>2 DEF IInv, ListsWellFormed, Disjoint
    <3>3. CASE r1 # q /\ r2 = q
      BY <2>4, <2>6, <3>3 DEF IInv, ListsWellFormed, Disjoint
    <3>4. CASE r1 # q /\ r2 # q
      BY <2>4, <2>6, <3>4 DEF IInv, ListsWellFormed, Disjoint
    <3>5. QED
      BY <3>1, <3>2, <3>3, <3>4
  <2>7. QED
    BY <2>5, <2>6 DEF Disjoint
<1>7. ASSUME NEW r \in Queues PROVE Linked(r)'
  <2>1. Linked(r) /\ contents[r] \in Seq(Frames)
    BY DEF IInv, TypeOK, ListsWellFormed
  <2>2. CASE r # q
    <3>1. /\ contents'[r] = contents[r] /\ head'[r] = head[r]
          /\ tail'[r] = tail[r] /\ frames'[r] = frames[r]
      BY <1>1, <2>2 DEF IInv, TypeOK, TakeFirst, Unlink
    <3>2. \A i \in 1..Len(contents[r]) : next'[contents[r][i]] = next[contents[r][i]]
      BY <1>1, <1>2, <1>3, <2>1, <2>2, SeqBasics
         DEF IInv, TypeOK, ListsWellFormed, Disjoint
    <3>3. QED
      BY <2>1, <3>1, <3>2, SeqBasics DEF Linked
  <2>3. CASE r = q /\ Len(c) = 1
    <3>1. next[c[1]] = NULL /\ Tail(c) = <<>>
      BY <1>1, <2>3, TailElements, SeqBasics DEF Linked
    <3>2. /\ contents'[q] = <<>> /\ head'[q] = NULL /\ tail'[q] = NULL
          /\ frames'[q] = 0
      BY <1>1, <1>3, <2>3, <3>1
    <3>3. QED
      BY <2>3, <3>2 DEF Linked
  <2>4. CASE r = q /\ Len(c) > 1
    <3>1. next[c[1]] = c[2] /\ c[2] \in Frames
      BY <1>1, <2>4, SeqBasics DEF Linked
    <3>2. head'[q] = c[2] /\ tail'[q] = c[Len(c)]
      BY <1>1, <1>3, <3>1, QueueAssumption DEF Linked
    <3>3. \A i \in 2..Len(c) : next'[c[i]] = next[c[i]]
      BY <1>1, <1>2, <1>3, <1>5, SeqBasics DEF IInv, TypeOK
    <3>4. /\ next'[c[Len(c)]] = NULL
          /\ \A i \in 1..(Len(c) - 2) : next'[Tail(c)[i]] = Tail(c)[i + 1]
      BY <1>1, <1>2, <2>4, <3>3, TailElements DEF Linked
    <3>5. /\ Tail(c) # <<>> /\ Len(Tail(c)) = Len(c) - 1
          /\ Tail(c)[1] = c[2] /\ Tail(c)[Len(c) - 1] = c[Len(c)]
      <4>1. 1 \in 1..(Len(c) - 1) /\ Len(c) - 1 \in 1..(Len(c) - 1)
        BY <1>2, <2>4
      <4>2. Len(Tail(c)) = Len(c) - 1 /\ Tail(c) \in Seq(Frames)
        BY <1>1, TailElements
      <4>3. Tail(c)[1] = c[2] /\ Tail(c)[Len(c) - 1] = c[Len(c)]
        BY <1>1, <1>2, <4>1, TailElements
      <4>4. Tail(c) # <<>>
        <5> DEFINE n == Len(c)
        <5>1. n \in Nat /\ n > 1
          BY <1>2, <2>4
        <5> HIDE DEF n
        <5>2. n # 1
          BY <5>1
        <5>3. QED
          BY <1>1, <5>2, TailEmpty DEF n
      <4>5. QED
        BY <4>2, <4>3, <4>4
    <3>6. /\ contents'[q] = Tail(c)
          /\ frames'[q] = Len(Tail(c))
          /\ head'[q] = Tail(c)[1]
          /\ tail'[q] = Tail(c)[Len(Tail(c))]
          /\ next'[tail'[q]] = NULL
          /\ Tail(c) # <<>>
      BY <1>1, <1>2, <1>3, <2>4, <3>2, <3>4, <3>5
    <3>7. \A i \in 1..(Len(Tail(c)) - 1) : next'[Tail(c)[i]] = Tail(c)[i + 1]
      BY <1>2, <2>4, <3>4, <3>5
    <3>8. QED
      BY <2>4, <3>6, <3>7 DEF Linked
  <2>5. Len(c) = 1 \/ Len(c) > 1
    <3> DEFINE n == Len(c)
    <3>1. n \in Nat \ {0}
      BY <1>2
    <3> HIDE DEF n
    <3>2. n = 1 \/ n > 1
      BY <3>1
    <3>3. QED
      BY <3>2 DEF n
  <2>6. QED
    BY <2>2, <2>3, <2>4, <2>5
<1>8. QED
  BY <1>4, <1>6, <1>7 DEF IInv, ListsWellFormed

LEMMA RecycleStep ==
    ASSUME IInv, NEW f \in Frames, Recycle(f)
    PROVE  IInv'
<1>1. PICK p \in Pointer : next' = [next EXCEPT ![f] = p]
  BY DEF Recycle
<1>2. TypeOK'
  BY <1>1 DEF IInv, TypeOK, Recycle
<1>3. \A r \in Queues : \A i \in 1..Len(contents[r]) :
         next'[contents[r][i]] = next[contents[r][i]] /\ contents[r][i] \in Frames
  BY <1>1, SeqBasics DEF IInv, TypeOK, ListsWellFormed, Disjoint, Recycle
<1>4. Disjoint'
  BY DEF IInv, ListsWellFormed, Disjoint, Recycle
<1>5. ASSUME NEW r \in Queues PROVE Linked(r)'
  BY <1>3, SeqBasics, SMTT(30) DEF IInv, TypeOK, ListsWellFormed, Linked, Recycle
<1>6. QED
  BY <1>2, <1>4, <1>5 DEF IInv, ListsWellFormed

\* The actions that leave the fields of the lists alone.
LEMMA UnchangedStep ==
    ASSUME IInv, UNCHANGED <<listVars, held, contents>>,
           ret' \in Pointer \cup {0, -1}, draining' \in Queues \cup {NULL}
    PROVE  IInv'
  BY DEF IInv, TypeOK, ListsWellFormed, Linked, Disjoint, listVars, Pointer

LEMMA NextIInv == IInv /\ [Next]_vars => IInv'
<1> SUFFICES ASSUME IInv, [Next]_vars PROVE IInv'
  OBVIOUS
<1>1. ASSUME NEW q \in Queues, NEW f \in Frames, Enqueue(q, f) PROVE IInv'
  BY <1>1, EnqueueStep
<1>2. ASSUME NEW q \in Queues, NEW f \in Frames, EnqueueFull(q, f) PROVE IInv'
  BY <1>2, UnchangedStep DEF EnqueueFull, IInv, TypeOK
<1>3. ASSUME NEW q \in Queues, Dequeue(q) PROVE IInv'
  <2>1. draining' \in Queues \cup {NULL}
    BY <1>3 DEF Dequeue
  <2>2. CASE TakeFirst(q)
    BY <2>1, <2>2, TakeFirstStep
  <2>3. CASE TakeNone(q)
    BY <2>1, <2>3, UnchangedStep DEF TakeNone, Pointer
  <2>4. QED
    BY <1>3, <2>2, <2>3 DEF Dequeue
<1>4. ASSUME NEW q \in Queues, Peek(q) PROVE IInv'
  <2>1. ret' \in Pointer
    BY <1>4 DEF Peek, IInv, TypeOK, Pointer
  <2>2. QED
    BY <1>4, <2>1, UnchangedStep DEF Peek
<1>5. ASSUME NEW q \in Queues, BeginEmpty(q) PROVE IInv'
  BY <1>5, UnchangedStep DEF BeginEmpty, IInv, TypeOK
<1>6. ASSUME NEW q \in Queues, DrainStep(q) PROVE IInv'
  <2>1. CASE TakeFirst(q) /\ UNCHANGED draining
    BY <2>1, TakeFirstStep DEF IInv, TypeOK
  <2>2. CASE TakeNone(q) /\ draining' = NULL
    BY <2>2, UnchangedStep DEF TakeNone, Pointer
  <2>3. QED
    BY <1>6, <2>1, <2>2 DEF DrainStep
<1>7. ASSUME NEW f \in Frames, Recycle(f) PROVE IInv'
  BY <1>7, RecycleStep
<1>8. CASE UNCHANGED vars
  BY <1>8, UnchangedStep DEF vars, listVars, IInv, TypeOK
<1>9. QED
  BY <1>1, <1>2, <1>3, <1>4, <1>5, <1>6, <1>7, <1>8 DEF Next

(* Every variable has its type: links lead to frames, counters count.      *)
THEOREM TypesHold == Spec => []TypeOK
<1>1. IInv => TypeOK
  BY DEF IInv
<1>2. QED
  BY InitIInv, NextIInv, <1>1, PTL DEF Spec

(* The lists are well formed in every reachable state: counter, head, tail *)
(* and the next pointers of all queues agree, and no frame is in two lists  *)
(* (xcan_enqueue, xcan_dequeue and xcan_queue_empty of xcan_queue.h).       *)
THEOREM QueuesWellFormed == Spec => []ListsWellFormed
<1>1. IInv => ListsWellFormed
  BY DEF IInv
<1>2. QED
  BY InitIInv, NextIInv, <1>1, PTL DEF Spec

(* A queue with a limit never stores more frames than max_frames.          *)
WithinLimit == \A q \in Queues : MaxFrames[q] # 0 => frames[q] <= MaxFrames[q]

(* That follows from the test at the top of xcan_enqueue, the counter      *)
(* being that of the list.                                                 *)
THEOREM LimitKept == Spec => []WithinLimit
<1>1. Init => WithinLimit
  BY QueueAssumption DEF Init, WithinLimit
<1>2. IInv /\ WithinLimit /\ [Next]_vars => WithinLimit'
  <2> SUFFICES ASSUME IInv, WithinLimit, [Next]_vars, NEW r \in Queues, MaxFrames[r] # 0
               PROVE  frames'[r] <= MaxFrames[r]
    BY DEF WithinLimit
  <2>0. MaxFrames[r] \in Nat /\ frames \in [Queues -> Nat] /\ frames[r] <= MaxFrames[r]
    BY QueueAssumption DEF IInv, TypeOK, WithinLimit
  <2>1. ASSUME NEW q \in Queues, NEW f \in Frames, Enqueue(q, f)
        PROVE  frames'[r] <= MaxFrames[r]
    BY <2>0, <2>1 DEF Enqueue, QueueFull
  <2>2. ASSUME NEW q \in Queues, TakeFirst(q)
        PROVE  frames'[r] <= MaxFrames[r]
    BY <2>0, <2>2 DEF TakeFirst, Unlink
  <2>3. CASE UNCHANGED frames
    BY <2>0, <2>3
  <2>4. QED
    BY <2>1, <2>2, <2>3
       DEF Next, EnqueueFull, Dequeue, TakeNone, Peek, BeginEmpty, DrainStep, Recycle,
           vars, listVars
<1>3. QED
  BY InitIInv, NextIInv, <1>1, <1>2, PTL DEF Spec

(* What a turn of xcan_queue_empty does: it takes a frame out, and the      *)
(* counter stays a natural number, or it finds none and leaves an empty     *)
(* list: no head, no tail and a counter of 0.                               *)
Drained(q) ==
    \/ draining' = q /\ frames'[q] \in Nat /\ frames'[q] < frames[q]
    \/ /\ draining' = NULL
       /\ head'[q] = NULL /\ tail'[q] = NULL /\ frames'[q] = 0

(* Why EmptyEnds holds: the counter falls in every turn but the last, which *)
(* xcan_queue_empty reaches only with nothing left in the list, although    *)
(* xcan_dequeue returns NULL when head or counter says so.                  *)
THEOREM EmptyingEnds == Spec => [][\A q \in Queues : DrainStep(q) => Drained(q)]_vars
<1>1. ASSUME IInv, NEW q \in Queues, DrainStep(q)
      PROVE  Drained(q)
  <2>1. frames \in [Queues -> Nat] /\ draining = q
    BY <1>1 DEF IInv, TypeOK, DrainStep
  <2>2. CASE TakeFirst(q) /\ UNCHANGED draining
    BY <2>1, <2>2 DEF Drained, TakeFirst, Unlink, NothingToTake
  <2>3. CASE TakeNone(q) /\ draining' = NULL
    <3>1. contents[q] = <<>> /\ Linked(q)
      BY <1>1, <2>3, EmptyQueue DEF TakeNone, IInv, ListsWellFormed
    <3>2. head[q] = NULL /\ tail[q] = NULL /\ frames[q] = 0
      BY <3>1 DEF Linked
    <3> QED BY <2>3, <3>2 DEF Drained, TakeNone, listVars
  <2> QED BY <1>1, <2>2, <2>3 DEF DrainStep
<1>2. IInv => [\A q \in Queues : DrainStep(q) => Drained(q)]_vars
  BY <1>1
<1> QED BY InitIInv, NextIInv, <1>2, PTL DEF Spec

(* The linked lists implement the bounded FIFOs: every call of the source  *)
(* is a call of XcanFifo with the same result, or changes nothing there.   *)
THEOREM QueueImplementsFifo == Spec => FifoSpec
<1>1. Init => Fifo!Init
  BY DEF Init, Fifo!Init
<1>2. IInv /\ [Next]_vars => [Fifo!Next]_(Fifo!fifoVars)
  <2> SUFFICES ASSUME IInv, [Next]_vars PROVE [Fifo!Next]_(Fifo!fifoVars)
    OBVIOUS
  <2>1. ASSUME NEW q \in Queues PROVE Fifo!Full(q) <=> QueueFull(q)
    BY EmptyQueue DEF Fifo!Full, QueueFull
  <2>2. ASSUME NEW q \in Queues, NEW f \in Frames, Enqueue(q, f)
        PROVE  Fifo!Next
    <3>1. ~Fifo!Holding(f)
      BY <2>2 DEF Enqueue, Fifo!Holding, IInv, ListsWellFormed, Disjoint
    <3>2. Fifo!Put(q, f)
      BY <2>1, <2>2, <3>1 DEF Enqueue, Fifo!Put
    <3>3. QED
      BY <3>2 DEF Fifo!Next
  <2>3. ASSUME NEW q \in Queues, NEW f \in Frames, EnqueueFull(q, f)
        PROVE  Fifo!Next
    BY <2>1, <2>3 DEF EnqueueFull, Fifo!Refuse, Fifo!Next
  <2>4. ASSUME NEW q \in Queues, TakeFirst(q)
        PROVE  Fifo!Next
    <3>1. contents[q] # <<>> /\ contents[q] \in Seq(Frames) /\ head[q] = Head(contents[q])
      BY <2>4, EmptyQueue, TailElements DEF TakeFirst, IInv, TypeOK
    <3>2. QED
      BY <2>4, <3>1 DEF TakeFirst, Fifo!Get, Fifo!Next
  <2>5. ASSUME NEW q \in Queues, TakeNone(q)
        PROVE  Fifo!Next
    BY <2>5, EmptyQueue DEF TakeNone, Fifo!Look, Fifo!Next
  <2>6. ASSUME NEW q \in Queues, Peek(q)
        PROVE  Fifo!Next
    <3>1. contents[q] # <<>> => head[q] = Head(contents[q])
      BY EmptyQueue, TailElements DEF IInv, TypeOK
    <3>2. QED
      BY <2>6, <3>1, EmptyQueue DEF Peek, Fifo!Look, Fifo!Next
  <2>7. CASE UNCHANGED <<contents, ret>>
    BY <2>7 DEF Fifo!fifoVars
  <2>8. QED
    BY <2>2, <2>3, <2>4, <2>5, <2>6, <2>7
       DEF Next, Dequeue, BeginEmpty, DrainStep, Recycle, vars
<1>3. QED
  BY InitIInv, NextIInv, <1>1, <1>2, PTL DEF Spec, FifoSpec, Fifo!Spec
=============================================================================
