----------------------------- MODULE XcanFrame ------------------------------
(***************************************************************************)
(* stack/xcan_frame.c: frame descriptors and the payload buffers they      *)
(* share.  The usage count of a payload is a byte behind it, so a shallow  *)
(* copy shares the count together with the payload.                        *)
(*                                                                         *)
(* The callers keep their side: who got a frame from xcan_frame_alloc,     *)
(* _copy or _deepcopy holds it, and discards it once.  Memory comes zeroed *)
(* and as large as was asked for (XCAN_ZALLOC).                            *)
(***************************************************************************)
EXTENDS Integers, FiniteSets

CONSTANTS Frames,   \* the descriptors there is memory for
          Payloads, \* the payload buffers there is memory for
          NULL,
          MaxCopies \* bound: deep copies taken of one payload

ASSUME FrameAssumption ==
    IsFiniteSet(Frames) /\ NULL \notin Payloads /\ MaxCopies \in Nat

VARIABLES data,      \* f->data; NULL: the descriptor is free memory
          count,     \* usage_count byte of every payload, a uint8_t
          allocated, \* the payloads that are not free memory
          held,      \* frames somebody has still to discard
          stale,     \* those of them whose payload was freed meanwhile
          deep,      \* history: the payloads xcan_frame_deepcopy made
          copied,    \* history: how often a payload was deep-copied
          faulted    \* a NULL or a freed payload was written to

vars == <<data, count, allocated, held, stale, deep, copied, faulted>>

Init ==
    /\ data = [f \in Frames |-> NULL] /\ count = [p \in Payloads |-> 0]
    /\ allocated = {} /\ held = {} /\ stale = {} /\ deep = {}
    /\ copied = [p \in Payloads |-> 0] /\ faulted = FALSE

FreeFrames == {f \in Frames : data[f] = NULL}
FreePayloads == Payloads \ allocated

Holding == held \ stale
Holders(p) == {f \in Holding : data[f] = p}
Fault == /\ faulted' = TRUE
         /\ UNCHANGED <<data, count, allocated, held, stale, deep, copied>>

-----------------------------------------------------------------------------
\* Mutated forms of the definitions below, used by the mutants of the project.
OneLess_Signed(c) == c - 1
DeepStart_Zero == 0
LastUse_OneLeft(p) == count[p] <= 2
-----------------------------------------------------------------------------
(* xcan_frame_alloc: a payload's count starts with 0 uses.                 *)
Alloc(f, p) ==
    /\ ~faulted /\ f \in FreeFrames /\ p \in FreePayloads
    /\ data' = [data EXCEPT ![f] = p]
    /\ count' = [count EXCEPT ![p] = 0]
    /\ allocated' = allocated \cup {p} /\ held' = held \cup {f}
    /\ deep' = deep \ {p} /\ copied' = [copied EXCEPT ![p] = 0]
    /\ UNCHANGED <<stale, faulted>>

(* No memory for the payload: the descriptor is freed, and then filled in. *)
AllocFails == ~faulted /\ FreeFrames # {} /\ FreePayloads = {} /\ Fault

(* What a copy g of f is: the same payload, with one use more.             *)
CopyOf(f, g) ==
    /\ data' = [data EXCEPT ![g] = data[f]]
    /\ count' = [count EXCEPT ![data[f]] = (@ + 1) % 256]
    /\ held' = held \cup {g}

(* xcan_frame_copy; without memory for a descriptor it returns NULL.       *)
Copy(f, g) ==
    /\ ~faulted /\ f \in Holding /\ g \in FreeFrames
    /\ CopyOf(f, g)
    /\ UNCHANGED <<allocated, stale, deep, copied, faulted>>

DeepStart == 1

(* xcan_frame_deepcopy: xcan_frame_copy counts a use of f's payload, and   *)
(* then the copy gets a payload of its own.                                *)
DeepCopy(f, g, p) ==
    /\ ~faulted /\ f \in Holding /\ g \in FreeFrames /\ p \in FreePayloads
    /\ copied[data[f]] < MaxCopies
    /\ data' = [data EXCEPT ![g] = p]
    /\ count' = [count EXCEPT ![data[f]] = (@ + 1) % 256, ![p] = DeepStart]
    /\ held' = held \cup {g} /\ allocated' = allocated \cup {p}
    /\ deep' = deep \cup {p}
    /\ copied' = [copied EXCEPT ![data[f]] = @ + 1, ![p] = 0]
    /\ UNCHANGED <<stale, faulted>>

(* Neither result is looked at before memory is copied to it.              *)
DeepCopyFails ==
    ~faulted /\ Holding # {} /\ (FreeFrames = {} \/ FreePayloads = {}) /\ Fault

LastUse(p) == count[p] = 1
OneLess(c) == (c - 1) % 256 \* *(f->usage_count) += -1

(* xcan_frame_discard: the discard that takes the count to 0 frees the     *)
(* payload and the descriptor, any other one frees nothing.                *)
Discard(f) ==
    LET p == data[f] IN
    /\ ~faulted /\ f \in Holding
    /\ held' = held \ {f}
    /\ count' = [count EXCEPT ![p] = OneLess(@)]
    /\ IF LastUse(p)
       THEN /\ allocated' = allocated \ {p} /\ data' = [data EXCEPT ![f] = NULL]
            /\ stale' = stale \cup (Holders(p) \ {f})
       ELSE UNCHANGED <<allocated, data, stale>>
    /\ UNCHANGED <<deep, copied, faulted>>

(* Using a frame whose payload was freed reads or writes free memory.      *)
UseFreed == ~faulted /\ stale # {} /\ Fault

Next ==
    \/ \E f \in Frames, p \in Payloads : Alloc(f, p)
    \/ \E f, g \in Frames : Copy(f, g) \/ \E p \in Payloads : DeepCopy(f, g, p)
    \/ \E f \in Frames : Discard(f)
    \/ AllocFails \/ DeepCopyFails \/ UseFreed

Spec == Init /\ [][Next]_vars

-----------------------------------------------------------------------------
TypeOK ==
    /\ data \in [Frames -> Payloads \cup {NULL}] /\ count \in [Payloads -> 0..255]
    /\ allocated \subseteq Payloads /\ deep \subseteq Payloads
    /\ stale \subseteq held /\ held \subseteq Frames
    /\ copied \in [Payloads -> 0..MaxCopies] /\ faulted \in BOOLEAN

(* What the usage count counts, whatever is copied and discarded in which  *)
(* order: the frames that hold a payload, one of them for nothing when     *)
(* xcan_frame_alloc made it, and every deep copy that was taken of it.     *)
CountedUses ==
    \A p \in allocated :
        count[p] = (Cardinality(Holders(p)) + copied[p] - (IF p \in deep THEN 0 ELSE 1)) % 256

(* Payloads that xcan_frame_deepcopy made, or took a copy of, are never    *)
(* freed too early: the discard that frees one is that of its last frame.  *)
DeepCopiesSafe ==
    [][\A p \in allocated \ allocated' :
          p \in deep \/ copied[p] > 0 => Holders(p) \subseteq held \ held']_vars

(* No other payload is freed while more than one frame still holds it.     *)
OneStaleAtMost ==
    [][\A p \in allocated \ allocated' : Cardinality(Holders(p) \cap held') <= 1]_vars
=============================================================================
