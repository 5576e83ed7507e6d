--------------------------- MODULE XcanFrameProofs ----------------------------
(***************************************************************************)
(* Proofs about XcanFrame, for any number of frames and payloads.  What    *)
(* the usage count counts is inductive once it is known that whoever holds *)
(* a frame holds its payload; that a payload with deep copies is not freed *)
(* too early follows while the uint8_t count does not wrap.                *)
(***************************************************************************)
EXTENDS XcanFrame, FiniteSetTheorems, TLAPS

HeldHasData == \A f \in held : data[f] \in Payloads
HolderAllocated == \A f \in Holding : data[f] \in allocated

IInv == TypeOK /\ HeldHasData /\ HolderAllocated /\ CountedUses

(* As many uses as memory allows fit into the count.                       *)
CountFits == Cardinality(Frames) + MaxCopies <= 256

LEMMA Wraps == \A x \in Int : /\ ((x % 256) + 1) % 256 = (x + 1) % 256
                              /\ ((x % 256) - 1) % 256 = (x - 1) % 256
OBVIOUS

LEMMA HoldersFinite ==
    ASSUME TypeOK, NEW p
    PROVE  /\ IsFiniteSet(Holders(p)) /\ Cardinality(Holders(p)) \in Nat
           /\ Cardinality(Holders(p)) <= Cardinality(Frames) /\ Cardinality(Frames) \in Nat
<1>1. Holders(p) \in SUBSET Frames
  BY DEF TypeOK, Holders, Holding
<1> QED BY <1>1, FrameAssumption, FS_Subset, FS_CardinalityType

(* A free descriptor is held by nobody.                                    *)
LEMMA FreeNotHeld == HeldHasData => \A f \in FreeFrames : f \notin held
BY FrameAssumption DEF HeldHasData, FreeFrames

LEMMA InitIInv == Init => IInv
<1> SUFFICES ASSUME Init PROVE IInv
  OBVIOUS
<1>1. TypeOK
  <2>1. data \in [Frames -> Payloads \cup {NULL}] /\ count \in [Payloads -> 0..255]
    BY DEF Init
  <2>2. copied \in [Payloads -> 0..MaxCopies]
    BY FrameAssumption DEF Init
  <2>3. faulted \in BOOLEAN
    BY DEF Init
  <2> QED BY <2>1, <2>2, <2>3 DEF Init, TypeOK
<1> QED BY <1>1 DEF Init, IInv, HeldHasData, HolderAllocated, CountedUses, Holding

-----------------------------------------------------------------------------
(* One lemma for each operation: what it does to the types, and to the     *)
(* holders of every payload.                                               *)
LEMMA AllocKeeps ==
    ASSUME IInv, NEW f \in Frames, NEW p \in Payloads, Alloc(f, p)
    PROVE  IInv'
<1> USE DEF IInv
<1>1. f \notin held /\ p \notin allocated
  BY FreeNotHeld DEF Alloc, FreePayloads
<1>2. TypeOK'
  BY FrameAssumption DEF Alloc, TypeOK
<1>3. HeldHasData' /\ HolderAllocated'
  BY <1>1 DEF Alloc, TypeOK, HeldHasData, HolderAllocated, Holding
<1>4. Holders(p)' = {f}
  BY <1>1 DEF Alloc, TypeOK, HolderAllocated, Holders, Holding
<1>5. \A q \in allocated : q # p /\ Holders(q)' = Holders(q)
  BY <1>1 DEF Alloc, TypeOK, Holders, Holding
<1>6. CountedUses'
  <2>1. Cardinality(Holders(p)') = 1
    BY <1>4, FS_Singleton
  <2>2. count'[p] = 0 /\ copied'[p] = 0 /\ p \notin deep'
    BY DEF Alloc, TypeOK
  <2>3. count'[p] = (1 + copied'[p] - 1) % 256
    BY <2>2
  <2>4. \A q \in allocated : /\ count'[q] = count[q] /\ copied'[q] = copied[q]
                             /\ (q \in deep') = (q \in deep)
    BY <1>5 DEF Alloc, TypeOK
  <2>5. allocated' = allocated \cup {p}
    BY DEF Alloc
  <2> QED BY <1>5, <2>1, <2>2, <2>3, <2>4, <2>5 DEF CountedUses
<1> QED BY <1>2, <1>3, <1>6

LEMMA CopyKeeps ==
    ASSUME IInv, NEW f \in Frames, NEW g \in Frames, Copy(f, g)
    PROVE  IInv'
<1> USE DEF IInv
<1>0. PICK p \in Payloads : p = data[f]
  BY DEF Copy, HeldHasData, Holding
<1>1. g \notin held /\ p \in allocated
  BY <1>0, FreeNotHeld DEF Copy, TypeOK, HolderAllocated
<1>2. TypeOK'
  BY <1>0, <1>1 DEF Copy, CopyOf, TypeOK
<1>3. HeldHasData' /\ HolderAllocated'
  BY <1>0, <1>1 DEF Copy, CopyOf, TypeOK, HeldHasData, HolderAllocated, Holding
<1>4. Holders(p)' = Holders(p) \cup {g} /\ g \notin Holders(p)
  BY <1>0, <1>1 DEF Copy, CopyOf, TypeOK, Holders, Holding
<1>5. \A q \in allocated : q # p => Holders(q)' = Holders(q)
  BY <1>0, <1>1 DEF Copy, CopyOf, TypeOK, Holders, Holding
<1>6. CountedUses'
  <2>1. Cardinality(Holders(p)') = Cardinality(Holders(p)) + 1
    BY <1>4, HoldersFinite, FS_AddElement
  <2>2. count'[p] = (count[p] + 1) % 256
    BY <1>0, <1>1 DEF Copy, CopyOf, TypeOK
  <2>3. \A q \in allocated : q # p => count'[q] = count[q]
    BY <1>0, <1>1 DEF Copy, CopyOf, TypeOK
  <2>4. UNCHANGED <<allocated, copied, deep>>
    BY DEF Copy
  <2>5. Cardinality(Holders(p)) \in Int /\ copied[p] \in Int
    BY <1>1, HoldersFinite DEF TypeOK
  <2>6. count'[p] = (Cardinality(Holders(p)) + 1 + copied[p] - (IF p \in deep THEN 0 ELSE 1)) % 256
    BY <1>1, <2>2, <2>5, Wraps DEF CountedUses
  <2> QED BY <1>5, <2>1, <2>3, <2>4, <2>6 DEF CountedUses
<1> QED BY <1>2, <1>3, <1>6

LEMMA DeepCopyKeeps ==
    ASSUME IInv, NEW f \in Frames, NEW g \in Frames, NEW p \in Payloads, DeepCopy(f, g, p)
    PROVE  IInv'
<1> USE DEF IInv, DeepStart
<1>0. PICK o \in Payloads : o = data[f]
  BY DEF DeepCopy, HeldHasData, Holding
<1>1. g \notin held /\ p \notin allocated /\ o \in allocated /\ o # p
  BY <1>0, FreeNotHeld DEF DeepCopy, TypeOK, HolderAllocated, FreePayloads
<1>2. TypeOK'
  <2>1. count' \in [Payloads -> 0..255]
    <3> DEFINE n == (count[o] + 1) % 256
    <3>1. count[o] \in Int
      BY DEF TypeOK
    <3>2. n \in 0..255 /\ 1 \in 0..255
      BY <3>1
    <3>3. count' = [count EXCEPT ![o] = n, ![p] = 1]
      BY <1>0 DEF DeepCopy
    <3> HIDE DEF n
    <3> QED BY <3>2, <3>3 DEF TypeOK
  <2>2. copied' \in [Payloads -> 0..MaxCopies]
    BY <1>0, <1>1, FrameAssumption DEF DeepCopy, TypeOK
  <2> QED BY <2>1, <2>2, ZenonT(60) DEF DeepCopy, TypeOK
<1>3. HeldHasData' /\ HolderAllocated'
  BY <1>0, <1>1 DEF DeepCopy, TypeOK, HeldHasData, HolderAllocated, Holding
<1>4. Holders(p)' = {g}
  BY <1>0, <1>1 DEF DeepCopy, TypeOK, HolderAllocated, Holders, Holding
<1>5. \A q \in allocated : q # p /\ Holders(q)' = Holders(q)
  BY <1>0, <1>1 DEF DeepCopy, TypeOK, Holders, Holding
<1>6. CountedUses'
  <2>1. Cardinality(Holders(p)') = 1
    BY <1>4, FS_Singleton
  <2>2. count'[p] = 1 /\ copied'[p] = 0 /\ p \in deep'
    BY <1>0, <1>1 DEF DeepCopy, TypeOK
  <2>3. count'[p] = (1 + copied'[p] - 0) % 256
    BY <2>2
  <2>4. \A q \in allocated : (q \in deep') = (q \in deep)
    BY <1>5 DEF DeepCopy
  <2>5. \A q \in allocated : q # o => count'[q] = count[q] /\ copied'[q] = copied[q]
    BY <1>0, <1>1 DEF DeepCopy, TypeOK
  <2>6. count'[o] = (count[o] + 1) % 256 /\ copied'[o] = copied[o] + 1
    BY <1>0, <1>1 DEF DeepCopy, TypeOK
  <2>7. Cardinality(Holders(o)) \in Int /\ copied[o] \in Int
    BY <1>1, HoldersFinite DEF TypeOK
  <2>8. count'[o] = (Cardinality(Holders(o)) + copied'[o] - (IF o \in deep THEN 0 ELSE 1)) % 256
    <3> DEFINE n == Cardinality(Holders(o)) + copied[o] - (IF o \in deep THEN 0 ELSE 1)
    <3>1. count[o] = n % 256 /\ n \in Int
      BY <1>1, <2>7 DEF CountedUses
    <3>2. count'[o] = (n + 1) % 256
      BY <2>6, <3>1, Wraps
    <3>3. n + 1 = Cardinality(Holders(o)) + copied'[o] - (IF o \in deep THEN 0 ELSE 1)
      BY <2>6, <2>7
    <3> QED BY <3>2, <3>3
  <2>9. allocated' = allocated \cup {p}
    BY DEF DeepCopy
  <2> QED BY <1>5, <2>1, <2>2, <2>3, <2>4, <2>5, <2>8, <2>9 DEF CountedUses
<1> QED BY <1>2, <1>3, <1>6

LEMMA DiscardKeeps ==
    ASSUME IInv, NEW f \in Frames, Discard(f)
    PROVE  IInv'
<1> USE DEF IInv, OneLess
<1>0. PICK p \in Payloads : p = data[f]
  BY DEF Discard, HeldHasData, Holding
<1>1. f \in held /\ f \notin stale /\ p \in allocated /\ f \in Holders(p)
  BY <1>0 DEF Discard, TypeOK, HolderAllocated, Holders, Holding
<1>2. count' \in [Payloads -> 0..255]
  BY <1>0, <1>1 DEF Discard, TypeOK
<1>3. \A q \in allocated : q # p => count'[q] = count[q]
  BY <1>0, <1>1 DEF Discard, TypeOK
<1>4. count'[p] = (count[p] - 1) % 256
  BY <1>0, <1>1 DEF Discard, TypeOK
<1>5. UNCHANGED <<deep, copied, faulted>> /\ held' = held \ {f}
  BY DEF Discard
<1>6. CASE LastUse(p)
  <2>1. /\ allocated' = allocated \ {p} /\ data' = [data EXCEPT ![f] = NULL]
        /\ stale' = stale \cup (Holders(p) \ {f})
    BY <1>0, <1>6 DEF Discard
  <2>2. TypeOK'
    BY <1>0, <1>1, <1>2, <1>5, <2>1 DEF TypeOK, Holders, Holding
  <2>3. HeldHasData' /\ HolderAllocated'
    BY <1>0, <1>1, <1>5, <2>1 DEF TypeOK, HeldHasData, HolderAllocated, Holders, Holding
  <2>4. \A q \in allocated' : q # p /\ Holders(q)' = Holders(q)
    <3> SUFFICES ASSUME NEW q \in allocated' PROVE q # p /\ Holders(q)' = Holders(q)
      OBVIOUS
    <3>1. q # p
      BY <2>1
    <3>2. q # NULL
      BY <2>1, FrameAssumption DEF TypeOK
    <3> QED BY <1>0, <1>1, <1>5, <2>1, <3>1, <3>2 DEF TypeOK, Holders, Holding
  <2>5. CountedUses'
    BY <1>0, <1>3, <1>5, <2>1, <2>4 DEF CountedUses
  <2> QED BY <2>2, <2>3, <2>5
<1>7. CASE ~LastUse(p)
  <2>1. UNCHANGED <<allocated, data, stale>>
    BY <1>0, <1>7 DEF Discard
  <2>2. TypeOK'
    BY <1>0, <1>1, <1>2, <1>5, <2>1 DEF TypeOK
  <2>3. HeldHasData' /\ HolderAllocated'
    BY <1>5, <2>1 DEF HeldHasData, HolderAllocated, Holding
  <2>4. Holders(p)' = Holders(p) \ {f}
    BY <1>5, <2>1 DEF Holders, Holding
  <2>5. \A q \in allocated : q # p => Holders(q)' = Holders(q)
    BY <1>0, <1>5, <2>1 DEF Holders, Holding
  <2>6. CountedUses'
    <3>1. Cardinality(Holders(p)') = Cardinality(Holders(p)) - 1
      BY <1>1, <2>4, HoldersFinite, FS_RemoveElement
    <3>2. Cardinality(Holders(p)) \in Int /\ copied[p] \in Int
      BY <1>1, HoldersFinite DEF TypeOK
    <3>3. count'[p] = (Cardinality(Holders(p)) - 1 + copied[p] - (IF p \in deep THEN 0 ELSE 1)) % 256
      BY <1>1, <1>4, <3>2, Wraps DEF CountedUses
    <3> QED BY <1>0, <1>3, <1>5, <2>1, <2>5, <3>1, <3>3 DEF CountedUses
  <2> QED BY <2>2, <2>3, <2>6
<1> QED BY <1>6, <1>7

LEMMA FaultKeeps == IInv /\ (Fault \/ UNCHANGED vars) => IInv'
<1> SUFFICES ASSUME IInv, Fault \/ UNCHANGED vars PROVE IInv'
  OBVIOUS
<1>1. UNCHANGED <<data, count, allocated, held, stale, deep, copied>>
  BY DEF Fault, vars
<1>2. faulted' \in BOOLEAN
  BY DEF Fault, vars, IInv, TypeOK
<1>3. TypeOK'
  BY <1>1, <1>2 DEF IInv, TypeOK
<1> QED BY <1>1, <1>3 DEF IInv, HeldHasData, HolderAllocated, CountedUses, Holders, Holding

LEMMA StepKeepsIInv == IInv /\ [Next]_vars => IInv'
<1> SUFFICES ASSUME IInv, [Next]_vars PROVE IInv'
  OBVIOUS
<1>1. CASE AllocFails \/ DeepCopyFails \/ UseFreed \/ UNCHANGED vars
  BY <1>1, FaultKeeps DEF AllocFails, DeepCopyFails, UseFreed
<1>2. CASE \E f \in Frames, p \in Payloads : Alloc(f, p)
  BY <1>2, AllocKeeps
<1>3. CASE \E f, g \in Frames : Copy(f, g) \/ \E p \in Payloads : DeepCopy(f, g, p)
  BY <1>3, CopyKeeps, DeepCopyKeeps
<1>4. CASE \E f \in Frames : Discard(f)
  BY <1>4, DiscardKeeps
<1> QED BY <1>1, <1>2, <1>3, <1>4 DEF Next

-----------------------------------------------------------------------------
(* What a discard finds that frees a payload, when the count has not       *)
(* wrapped: the number of its holders.                                     *)
LEMMA LastUseHolders ==
    ASSUME IInv, CountFits, NEW f \in Frames, Discard(f), LastUse(data[f])
    PROVE  LET h == Cardinality(Holders(data[f])) IN
           /\ f \in Holders(data[f]) /\ h \in Nat
           /\ IF data[f] \in deep \/ copied[data[f]] > 0 THEN h = 1 ELSE h = 2
<1> DEFINE p == data[f]
           h == Cardinality(Holders(p))
<1>1. p \in allocated /\ p \in Payloads /\ f \in Holders(p)
  BY DEF IInv, Discard, TypeOK, HolderAllocated, Holders, Holding
<1>2. h \in Nat /\ h <= Cardinality(Frames) /\ Cardinality(Frames) \in Nat
  BY HoldersFinite DEF IInv
<1>3. h # 0
  BY <1>1, HoldersFinite, FS_EmptySet DEF IInv
<1>4. copied[p] \in 0..MaxCopies /\ MaxCopies \in Nat
  BY <1>1, FrameAssumption DEF IInv, TypeOK
<1>5. 1 = (h + copied[p] - (IF p \in deep THEN 0 ELSE 1)) % 256
  BY <1>1 DEF IInv, CountedUses, LastUse
<1> HIDE DEF p, h
<1>6. h + copied[p] <= 256
  BY <1>2, <1>4 DEF CountFits
<1>7. h + copied[p] - (IF p \in deep THEN 0 ELSE 1) = 1
  BY <1>2, <1>3, <1>4, <1>5, <1>6
<1>8. f \in Holders(p) /\ h \in Nat /\ IF p \in deep \/ copied[p] > 0 THEN h = 1 ELSE h = 2
  BY <1>1, <1>2, <1>3, <1>4, <1>7
<1> QED BY <1>8 DEF p, h

(* Only the discard of its last use frees a payload.                       *)
LEMMA OnlyDiscardFrees ==
    ASSUME [Next]_vars, NEW p \in allocated \ allocated'
    PROVE  \E f \in Frames : Discard(f) /\ data[f] = p /\ LastUse(p) /\ held' = held \ {f}
<1>1. Next
  BY DEF vars
<1>2. ~(AllocFails \/ DeepCopyFails \/ UseFreed)
  BY DEF AllocFails, DeepCopyFails, UseFreed, Fault
<1>3. \A f \in Frames, q \in Payloads : ~Alloc(f, q)
  BY DEF Alloc
<1>4. PICK f \in Frames : Discard(f)
  <2>1. CASE \E f \in Frames, q \in Payloads : Alloc(f, q)
    BY <1>3, <2>1
  <2>2. CASE \E f, g \in Frames : Copy(f, g) \/ \E q \in Payloads : DeepCopy(f, g, q)
    BY <2>2 DEF Copy, DeepCopy
  <2> QED BY <1>1, <1>2, <2>1, <2>2 DEF Next
<1> QED BY <1>4 DEF Discard

(* The two lemmas together.                                                *)
LEMMA FreedHolders ==
    ASSUME IInv, CountFits, [Next]_vars, NEW p \in allocated \ allocated'
    PROVE  /\ p \in deep \/ copied[p] > 0 => Holders(p) \subseteq held \ held'
           /\ Cardinality(Holders(p) \cap held') <= 1
<1>1. PICK f \in Frames : Discard(f) /\ data[f] = p /\ LastUse(p) /\ held' = held \ {f}
  BY OnlyDiscardFrees
<1>2. /\ f \in Holders(p)
      /\ IF p \in deep \/ copied[p] > 0 THEN Cardinality(Holders(p)) = 1
                                        ELSE Cardinality(Holders(p)) = 2
  BY <1>1, LastUseHolders
<1>3. Holders(p) \cap held' = Holders(p) \ {f}
  BY <1>1 DEF Holders, Holding
<1>4. Cardinality(Holders(p) \ {f}) = Cardinality(Holders(p)) - 1
  BY <1>2, HoldersFinite, FS_RemoveElement DEF IInv
<1>5. ASSUME p \in deep \/ copied[p] > 0 PROVE Holders(p) \subseteq held \ held'
  <2>1. PICK x : Holders(p) = {x}
    BY <1>2, <1>5, HoldersFinite, FS_Singleton DEF IInv
  <2>2. Holders(p) = {f}
    BY <1>2, <2>1
  <2>3. f \in held
    BY <1>2 DEF Holders, Holding
  <2> QED BY <1>1, <2>2, <2>3
<1> QED BY <1>2, <1>3, <1>4, <1>5

-----------------------------------------------------------------------------
LEMMA IInvHolds == Spec => []IInv
BY InitIInv, StepKeepsIInv, PTL DEF Spec

(* Every variable keeps its type.                                          *)
THEOREM TypesHold == Spec => []TypeOK
BY IInvHolds, PTL DEF IInv

(* The usage count counts the frames that hold a payload and its deep      *)
(* copies, modulo 256, whatever is copied and discarded in which order     *)
(* (xcan_frame_copy, xcan_frame_deepcopy, xcan_frame_discard).             *)
THEOREM UsesCounted == Spec => []CountedUses
BY IInvHolds, PTL DEF IInv

(* With memory for so few frames that the uint8_t count cannot wrap, only  *)
(* the last frame's discard frees a payload with deep copies ...           *)
THEOREM DeepCopiesAreSafe == CountFits /\ Spec => DeepCopiesSafe
<1>1. CountFits /\ IInv /\ [Next]_vars
         => [\A p \in allocated \ allocated' :
                p \in deep \/ copied[p] > 0 => Holders(p) \subseteq held \ held']_vars
  BY FreedHolders
<1>2. CASE CountFits
  <2>1. IInv /\ [Next]_vars
         => [\A p \in allocated \ allocated' :
                p \in deep \/ copied[p] > 0 => Holders(p) \subseteq held \ held']_vars
    BY <1>1, <1>2
  <2> QED BY <2>1, IInvHolds, PTL DEF Spec, DeepCopiesSafe
<1>3. CASE ~CountFits
  BY <1>3
<1> QED BY <1>2, <1>3

(* ... and no discard frees a payload that two more frames hold.           *)
THEOREM OneGoesStale == CountFits /\ Spec => OneStaleAtMost
<1>1. CountFits /\ IInv /\ [Next]_vars
         => [\A p \in allocated \ allocated' : Cardinality(Holders(p) \cap held') <= 1]_vars
  BY FreedHolders
<1>2. CASE CountFits
  <2>1. IInv /\ [Next]_vars
         => [\A p \in allocated \ allocated' : Cardinality(Holders(p) \cap held') <= 1]_vars
    BY <1>1, <1>2
  <2> QED BY <2>1, IInvHolds, PTL DEF Spec, OneStaleAtMost
<1>3. CASE ~CountFits
  BY <1>3
<1> QED BY <1>2, <1>3
=============================================================================
