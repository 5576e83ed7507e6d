------------------------------ MODULE KeyStore ------------------------------
(***************************************************************************)
(* What the gateway may expect of the key slots that hsm_she.c sets up:    *)
(* the master key is set once and guards the others, and a slot gets the   *)
(* wrong key only after a key derivation failed.  Hsm is the dialogue with *)
(* the security module that has to implement it.                           *)
(***************************************************************************)
CONSTANTS Slots, MASTER

VARIABLES store,   \* what every slot holds: "empty", its "own" key or a "foreign" one
          garbled  \* has a derivation failed since the slots were empty?

storeVars == <<store, garbled>>

Init == store = [s \in Slots |-> "empty"] /\ garbled = FALSE

(* A user key can be replaced, and a wrong one repaired, but only with the *)
(* right master key in its slot.  After a failed derivation a message may  *)
(* pass for one under the empty master key.                                *)
MayLoad(s) ==
    \/ store[MASTER] = "empty" /\ (s = MASTER \/ garbled)
    \/ store[MASTER] = "own" /\ s # MASTER

Load(s) == MayLoad(s) /\ store' = [store EXCEPT ![s] = "own"] /\ UNCHANGED garbled

Spoil(s) ==
    /\ garbled /\ MayLoad(s)
    /\ store' = [store EXCEPT ![s] = "foreign"] /\ UNCHANGED garbled

Garble == garbled' = TRUE /\ UNCHANGED store

(* All keys go at once, and with them what a failed derivation has spoilt. *)
Erase ==
    /\ store[MASTER] = "own"
    /\ store' = [s \in Slots |-> "empty"] /\ garbled' = FALSE

Next == Garble \/ Erase \/ \E s \in Slots : Load(s) \/ Spoil(s)

Spec == Init /\ [][Next]_storeVars
=============================================================================
