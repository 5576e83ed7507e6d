-------------------------------- MODULE Hsm ---------------------------------
(***************************************************************************)
(* _old/Framework/security/hsm_she.c: the keys HSM_initialise puts into    *)
(* the security module at every start, and HSM_EraseKeys.  One task runs   *)
(* it, call by call of the security driver; each of these may fail, and    *)
(* the gateway may lose its power between any two of them.                 *)
(*                                                                         *)
(* Cryptography is symbolic: a derived key is the key and the constant it  *)
(* was derived with, a cipher text or a MAC is what it was made from.  The *)
(* security module is not part of the repository: it is what the messages  *)
(* M1 to M3 are computed for, and the comments in hsm_she.h say of it.     *)
(***************************************************************************)
EXTENDS Integers, Sequences

CONSTANTS JunkCounters, \* counters a message may decrypt to under a wrong key
          MaxFaults,    \* bound: failing calls of the security driver
          MaxResets,    \* bound: losses of power
          MaxErases     \* bound: calls of HSM_EraseKeys

ASSUME HsmAssumption ==
    /\ JunkCounters \subseteq Nat \ {0} /\ \A c \in JunkCounters : c < 2^28
    /\ MaxFaults \in Nat /\ MaxResets \in Nat /\ MaxErases \in Nat

MASTER == "MASTER_ECU"
Slots == {MASTER, "KEY_1", "BOOT_MAC"}
g_emptyKey == "emptyKey"
g_authIdKey == "authIdKey"
Junk == "junk"  \* any other 16 bytes

Derive(key, constant) == [of |-> key, with |-> constant]
Plain(key) == Derive(key, "nothing")
Garbage == Plain(Junk)
Blank == [key |-> g_emptyKey, counter |-> 0]

VARIABLES slot,     \* the security module: key and counter in every slot
          ram,      \* SECURITY_RAM_KEY
          rng, up,  \* did SECURITY_InitRng and SECURITY_Init succeed?
          op, pc,   \* the function that runs, its next call of the driver
          call,     \* how many keys HSM_initialise has loaded or tried to
          k1, k2,   \* locals: derived keys (k of HSM_EraseKeys is in k1)
          m2, mac,  \* locals: the encrypted key; m3, or auth of HSM_EraseKeys
          uid,      \* local: does uid hold the id of the device?
          ret,      \* what HSM_LoadKey or HSM_EraseKeys returned last
          clean,    \* history: no call has failed since op began
          garbled,  \* history: a derivation failed since the slots were empty
          faults, resets, erases \* counters for the bounds

module == <<slot, ram, rng, up>>
locals == <<k1, k2, m2, mac, uid>>
counts == <<resets, erases>>
vars == <<module, op, pc, call, locals, ret, clean, garbled, faults, counts>>

Init ==
    /\ slot = [s \in Slots |-> Blank] /\ ram = Garbage /\ rng = FALSE /\ up = FALSE
    /\ op = "start" /\ pc = "off" /\ call = 0
    /\ k1 = Garbage /\ k2 = Garbage /\ uid = FALSE
    /\ m2 = [by |-> Garbage, key |-> Junk, counter |-> 0]
    /\ mac = [by |-> Garbage, id |-> "none", over |-> m2, uid |-> FALSE]
    /\ ret = FALSE /\ clean = TRUE /\ garbled = FALSE
    /\ faults = 0 /\ resets = 0 /\ erases = 0

(* A call of the driver; none works when SECURITY_Init has failed.         *)
Works == up /\ UNCHANGED <<clean, faults>>
Fails ==
    /\ clean' = FALSE
    /\ IF up THEN faults < MaxFaults /\ faults' = faults + 1 ELSE UNCHANGED faults

-----------------------------------------------------------------------------
\* Mutated forms of the definitions below, used by the mutants of the project.
AfterFailure_GoesOn(next) == pc' = next /\ UNCHANGED <<call, ret>>
KeyOf_MasterLast == <<
    [id |-> "KEY_1",    key |-> "userKey",   counter |-> 3, auth |-> g_authIdKey],
    [id |-> "BOOT_MAC", key |-> "userKey",   counter |-> 2, auth |-> g_authIdKey],
    [id |-> MASTER,     key |-> g_authIdKey, counter |-> 1, auth |-> g_emptyKey] >>
PlainK_Skipped ==
    /\ pc = "plainK" /\ pc' = "dbgChal"
    /\ UNCHANGED <<module, op, call, locals, ret, clean, garbled, faults, counts>>
Return_OneTooMany(result) ==
    /\ ret' = result
    /\ IF op = "start" /\ call <= 3
       THEN pc' = "deriveK1" /\ call' = call + 1
       ELSE pc' = "idle" /\ UNCHANGED call
-----------------------------------------------------------------------------
(* The calls of HSM_LoadKey and HSM_SetAuthKey in HSM_initialise: the key, *)
(* its slot and counter, and the key the messages are derived from.        *)
KeyOf == <<
    [id |-> MASTER,     key |-> g_authIdKey, counter |-> 1, auth |-> g_emptyKey],
    [id |-> "KEY_1",    key |-> "userKey",   counter |-> 3, auth |-> g_authIdKey],
    [id |-> "BOOT_MAC", key |-> "userKey",   counter |-> 2, auth |-> g_authIdKey] >>

This == KeyOf[call]

(* HSM_initialise ignores what the calls return, and makes the next one.   *)
Return(result) ==
    /\ ret' = result
    /\ IF op = "start" /\ call < Len(KeyOf)
       THEN pc' = "deriveK1" /\ call' = call + 1
       ELSE pc' = "idle" /\ UNCHANGED call

(* if(stat != STATUS_SUCCESS) return: `next' is what would come next.      *)
AfterFailure(next) == Return(FALSE)

(* HSM_DeriveKey, whose result nobody looks at: when it fails, the local   *)
(* keeps what was on the stack.                                            *)
DerivesFrom(key, constant, old, k) ==
    \/ Works /\ k = Derive(key, constant) /\ UNCHANGED garbled
    \/ Fails /\ k \in {old, Garbage} /\ garbled' = TRUE

LoadPlainKey(k, next) ==
    /\ \/ Works /\ ram' = k /\ pc' = next /\ UNCHANGED <<call, ret>>
       \/ Fails /\ AfterFailure(next) /\ UNCHANGED ram
    /\ UNCHANGED <<slot, rng, up, op, locals, garbled, counts>>

-----------------------------------------------------------------------------
\* HSM_initialise

(* SECURITY_Init, the results of which are ignored, too.                   *)
Start ==
    /\ pc = "off" /\ op' = "start" /\ pc' = "deriveK1" /\ call' = 1
    /\ \/ up' = TRUE /\ clean' = TRUE /\ UNCHANGED faults
       \/ up' = FALSE /\ clean' = FALSE /\ faults < MaxFaults /\ faults' = faults + 1
    /\ UNCHANGED <<slot, ram, rng, locals, ret, garbled, counts>>

\* HSM_ComputeM1M2M3
DeriveK1 ==
    /\ pc = "deriveK1" /\ pc' = "deriveK2"
    /\ DerivesFrom(This.auth, "enc", k1, k1')
    /\ UNCHANGED <<module, op, call, k2, m2, mac, uid, ret, counts>>

DeriveK2 ==
    /\ pc = "deriveK2" /\ pc' = "plainK1"
    /\ DerivesFrom(This.auth, "mac", k2, k2')
    /\ UNCHANGED <<module, op, call, k1, m2, mac, uid, ret, counts>>

PlainK1 == pc = "plainK1" /\ LoadPlainKey(k1, "encrypt")

(* The counter takes 28 bits of M2.                                        *)
Encrypt ==
    /\ pc = "encrypt"
    /\ \/ /\ Works /\ pc' = "plainK2" /\ UNCHANGED <<call, ret>>
          /\ m2' = [by |-> ram, key |-> This.key, counter |-> This.counter % 2^28]
       \/ Fails /\ AfterFailure("plainK2") /\ UNCHANGED m2
    /\ UNCHANGED <<module, op, k1, k2, mac, uid, garbled, counts>>

PlainK2 == pc = "plainK2" /\ LoadPlainKey(k2, "mac")

Mac(id) == [by |-> ram, id |-> id, over |-> m2, uid |-> FALSE]

GenerateMac ==
    /\ pc = "mac"
    /\ \/ Works /\ mac' = Mac(This.id) /\ pc' = "loadKey" /\ UNCHANGED <<call, ret>>
       \/ Fails /\ AfterFailure("loadKey") /\ UNCHANGED mac
    /\ UNCHANGED <<module, op, k1, k2, m2, uid, garbled, counts>>

(* The security module loads what M2 decrypts to if M3 is right for the    *)
(* master key and the counter grows.                                       *)
Contents ==
    IF m2.by = Derive(slot[MASTER].key, "enc")
    THEN {[key |-> m2.key, counter |-> m2.counter]}
    ELSE {[key |-> Junk, counter |-> c] : c \in JunkCounters}

Accepts(c) ==
    /\ mac.by = Derive(slot[MASTER].key, "mac") /\ mac.id = This.id /\ mac.over = m2
    /\ c.counter > slot[This.id].counter

Loads(c) == Accepts(c) /\ slot' = [slot EXCEPT ![This.id] = c]

(* A call that times out may have loaded the key nevertheless.             *)
LoadKey ==
    /\ pc = "loadKey"
    /\ \E c \in Contents :
          \/ Works /\ Loads(c) /\ Return(TRUE)
          \/ Works /\ ~Accepts(c) /\ Return(FALSE) /\ UNCHANGED slot
          \/ Fails /\ Return(FALSE) /\ (Loads(c) \/ UNCHANGED slot)
    /\ UNCHANGED <<ram, rng, up, op, locals, garbled, counts>>

-----------------------------------------------------------------------------
\* HSM_EraseKeys

EraseKeys ==
    /\ pc = "idle" /\ erases < MaxErases /\ erases' = erases + 1
    /\ op' = "erase" /\ pc' = "initRng" /\ clean' = TRUE
    /\ UNCHANGED <<module, call, locals, ret, garbled, faults, resets>>

InitRng ==
    /\ pc = "initRng" /\ pc' = "getId"
    /\ (Works /\ rng' = TRUE) \/ (Fails /\ UNCHANGED rng)
    /\ UNCHANGED <<slot, ram, up, op, call, locals, ret, garbled, counts>>

(* HSM_GetUID: its result is ignored, and when it fails so is what uid is. *)
GetId ==
    /\ pc = "getId"
    /\ \/ Works /\ uid' = TRUE /\ pc' = "plainAuth"
       \/ Fails /\ uid' \in {uid, FALSE} /\ pc' = "deriveK"
    /\ UNCHANGED <<module, op, call, k1, k2, m2, mac, ret, garbled, counts>>

PlainAuth ==
    /\ pc = "plainAuth"
    /\ \/ Works /\ ram' = Plain(g_authIdKey) /\ pc' = "verifyMac"
       \/ Fails /\ pc' = "deriveK" /\ UNCHANGED ram
    /\ UNCHANGED <<slot, rng, up, op, call, locals, ret, garbled, counts>>

VerifyMac ==
    /\ pc = "verifyMac" /\ pc' = "deriveK"
    /\ Works \/ Fails
    /\ UNCHANGED <<module, op, call, locals, ret, garbled, counts>>

DeriveK ==
    /\ pc = "deriveK" /\ pc' = "plainK"
    /\ DerivesFrom(g_authIdKey, "debug", k1, k1')
    /\ UNCHANGED <<module, op, call, k2, m2, mac, uid, ret, counts>>

PlainK == pc = "plainK" /\ LoadPlainKey(k1, "dbgChal")

DbgChal ==
    /\ pc = "dbgChal"
    /\ \/ Works /\ rng /\ pc' = "dbgMac" /\ UNCHANGED <<call, ret>>
       \/ Works /\ ~rng /\ Return(FALSE)
       \/ Fails /\ AfterFailure("dbgMac")
    /\ UNCHANGED <<module, op, locals, garbled, counts>>

DbgMac ==
    /\ pc = "dbgMac"
    /\ \/ Works /\ mac' = [Mac("debug") EXCEPT !.uid = uid] /\ pc' = "dbgAuth"
          /\ UNCHANGED <<call, ret>>
       \/ Fails /\ AfterFailure("dbgAuth") /\ UNCHANGED mac
    /\ UNCHANGED <<module, op, k1, k2, m2, uid, garbled, counts>>

Authentic == mac.by = Derive(slot[MASTER].key, "debug") /\ mac.id = "debug" /\ mac.uid

Erases == Authentic /\ slot' = [s \in Slots |-> Blank] /\ garbled' = FALSE

DbgAuth ==
    /\ pc = "dbgAuth"
    /\ \/ Works /\ Erases /\ Return(TRUE)
       \/ Works /\ ~Authentic /\ Return(FALSE) /\ UNCHANGED <<slot, garbled>>
       \/ Fails /\ Return(FALSE) /\ (Erases \/ UNCHANGED <<slot, garbled>>)
    /\ UNCHANGED <<ram, rng, up, op, locals, counts>>

-----------------------------------------------------------------------------
(* The power goes: all but the slots is lost.                              *)
Reset ==
    /\ pc # "off" /\ resets < MaxResets /\ resets' = resets + 1
    /\ pc' = "off" /\ call' = 0 /\ up' = FALSE /\ rng' = FALSE /\ ram' = Garbage
    /\ k1' = Garbage /\ k2' = Garbage /\ uid' = FALSE
    /\ UNCHANGED <<slot, op, m2, mac, ret, clean, garbled, faults, erases>>

Load == DeriveK1 \/ DeriveK2 \/ PlainK1 \/ Encrypt \/ PlainK2 \/ GenerateMac \/ LoadKey
EraseStep == InitRng \/ GetId \/ PlainAuth \/ VerifyMac \/ DeriveK \/ PlainK
                \/ DbgChal \/ DbgMac \/ DbgAuth
Next == Start \/ Load \/ EraseKeys \/ EraseStep \/ Reset

Spec == Init /\ [][Next]_vars

-----------------------------------------------------------------------------
Keys == {g_emptyKey, g_authIdKey, "userKey", Junk}
RamKeys == [of : Keys, with : {"enc", "mac", "debug", "nothing"}]
Counters == {0, 1, 2, 3} \cup JunkCounters
Ciphers == [by : RamKeys, key : Keys, counter : Counters]

TypeOK ==
    /\ slot \in [Slots -> [key : Keys, counter : Counters]]
    /\ ram \in RamKeys /\ k1 \in RamKeys /\ k2 \in RamKeys /\ m2 \in Ciphers
    /\ mac \in [by : RamKeys, id : Slots \cup {"none", "debug"}, over : Ciphers, uid : BOOLEAN]
    /\ rng \in BOOLEAN /\ up \in BOOLEAN /\ uid \in BOOLEAN /\ ret \in BOOLEAN
    /\ clean \in BOOLEAN /\ garbled \in BOOLEAN
    /\ op \in {"start", "erase"} /\ call \in 0..Len(KeyOf)
    /\ pc \in {"off", "idle", "deriveK1", "deriveK2", "plainK1", "encrypt", "plainK2", "mac",
               "loadKey", "initRng", "getId", "plainAuth", "verifyMac", "deriveK", "plainK",
               "dbgChal", "dbgMac", "dbgAuth"}
    /\ faults \in 0..MaxFaults /\ resets \in 0..MaxResets /\ erases \in 0..MaxErases

OwnKey(s) == IF s = MASTER THEN g_authIdKey ELSE "userKey"

(* Whatever failed or was cut off in earlier starts, and whether the keys  *)
(* were there or erased: a start in which every call of the driver works   *)
(* leaves every key in its slot - unless a failed derivation has spoilt    *)
(* one, which the counters may then keep from being repaired.              *)
CleanStartProvisions ==
    op = "start" /\ pc = "idle" /\ clean /\ ~garbled =>
        \A s \in Slots : slot[s].key = OwnKey(s)

(* HSM_EraseKeys called when the master key is the one it knows erases it  *)
(* if every call works, and it reports success only when all keys are gone *)
(* - though it goes on with whatever HSM_GetUID has left in uid.           *)
CleanEraseErases ==
    op = "erase" /\ pc = "idle" =>
        /\ clean => slot[MASTER].key # g_authIdKey
        /\ ret => \A s \in Slots : slot[s] = Blank

(* The dialogue implements KeyStore: whatever fails, and wherever it is    *)
(* cut off, the master key is set once, the others are loaded only under   *)
(* it, and no slot gets a wrong key unless a derivation failed.            *)
Stored(s) == IF slot[s] = Blank THEN "empty"
             ELSE IF slot[s].key = OwnKey(s) THEN "own" ELSE "foreign"
Store == INSTANCE KeyStore WITH store <- [s \in Slots |-> Stored(s)]
StoreSpec == Store!Spec
=============================================================================
