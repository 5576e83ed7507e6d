------------------------------ MODULE HsmProofs -------------------------------
(***************************************************************************)
(* Proofs about Hsm: whatever calls fail and wherever the power goes, the  *)
(* dialogue with the security module implements KeyStore, and a start in   *)
(* which every call works leaves the keys in their slots.  The argument    *)
(* follows the two derived keys through k1, k2, the RAM key and the        *)
(* messages that are made with it.                                         *)
(***************************************************************************)
EXTENDS Hsm, TLAPS

LoadPcs == {"deriveK1", "deriveK2", "plainK1", "encrypt", "plainK2", "mac", "loadKey"}
ErasePcs == {"initRng", "getId", "plainAuth", "verifyMac", "deriveK", "plainK",
             "dbgChal", "dbgMac", "dbgAuth"}

(* Which function is running tells the program counter.                    *)
Control ==
    /\ pc \in LoadPcs => op = "start" /\ call \in 1..3
    /\ pc \in ErasePcs => op = "erase"

(* The keys the program ever derives, and those HSM_initialise may have in *)
(* its locals before it has set the master key, and afterwards.            *)
Known == {Derive(k, w) : k \in {g_emptyKey, g_authIdKey}, w \in {"enc", "mac"}}
            \cup {Derive(g_authIdKey, "debug"), Plain(g_authIdKey), Garbage}

Usual(k, w) ==
    \/ k = Garbage \/ k = Derive(g_emptyKey, w)
    \/ call # 1 /\ k = Derive(g_authIdKey, w)

KeysKnown ==
    /\ k1 \in Known /\ k2 \in Known /\ ram \in Known /\ mac.by \in Known
    /\ pc = "off" => k1 = Garbage /\ k2 = Garbage
    /\ pc \in LoadPcs => Usual(k1, "enc") /\ Usual(k2, "mac")

(* What the RAM key and the messages are made of on the way to LoadKey.    *)
Messages ==
    /\ pc = "encrypt" => ram = k1
    /\ pc \in {"plainK2", "mac", "loadKey"} =>
          m2.by = k1 /\ m2.key = This.key /\ m2.counter = This.counter
    /\ pc = "mac" => ram = k2
    /\ pc = "loadKey" => mac.by = k2 /\ mac.id = This.id /\ mac.over = m2

(* Without a failed derivation the locals hold what was to be derived.     *)
Exact ==
    /\ ~garbled /\ pc \in LoadPcs \ {"deriveK1"} => k1 = Derive(This.auth, "enc")
    /\ ~garbled /\ pc \in LoadPcs \ {"deriveK1", "deriveK2"} => k2 = Derive(This.auth, "mac")

(* A slot holds its own key, or none, or junk after a failed derivation.   *)
SlotsSound ==
    \A s \in Slots : \/ slot[s] = Blank
                     \/ slot[s].key = OwnKey(s)
                     \/ slot[s].key = Junk /\ garbled

Dialogue == TypeOK /\ Control /\ KeysKnown /\ Messages /\ Exact /\ SlotsSound

-----------------------------------------------------------------------------
\* Facts about the constants of the program.

LEMMA Derivations ==
    \A x, y, c, d : Derive(x, c) = Derive(y, d) <=> x = y /\ c = d
BY DEF Derive

LEMMA KeyNames ==
    /\ g_emptyKey # g_authIdKey /\ g_emptyKey # Junk /\ g_authIdKey # Junk
    /\ g_emptyKey # "userKey" /\ Junk # "userKey" /\ g_authIdKey # "userKey"
    /\ \A s \in Slots : OwnKey(s) # g_emptyKey /\ OwnKey(s) # Junk
    /\ OwnKey(MASTER) = g_authIdKey /\ MASTER \in Slots
BY DEF g_emptyKey, g_authIdKey, Junk, OwnKey, MASTER, Slots

LEMMA KeyList ==
    /\ Len(KeyOf) = 3
    /\ \A j \in 1..3 :
          /\ KeyOf[j].id \in Slots /\ KeyOf[j].key = OwnKey(KeyOf[j].id)
          /\ KeyOf[j].id = MASTER <=> j = 1
          /\ KeyOf[j].auth = IF j = 1 THEN g_emptyKey ELSE g_authIdKey
          /\ KeyOf[j].counter \in 1..3 /\ KeyOf[j].counter % 2^28 = KeyOf[j].counter
    /\ \A s \in Slots : \E j \in 1..3 : KeyOf[j].id = s
BY DEF KeyOf, OwnKey, Slots, MASTER, g_emptyKey, g_authIdKey

LEMMA KnownTypes ==
    /\ Known \subseteq RamKeys /\ Garbage \in Known /\ Plain(g_authIdKey) \in Known
    /\ \A k \in {g_emptyKey, g_authIdKey}, w \in {"enc", "mac"} : Derive(k, w) \in Known
    /\ Derive(g_authIdKey, "debug") \in Known
    /\ \A s \in Slots : OwnKey(s) \in Keys
    /\ Junk \in Keys /\ g_emptyKey \in Keys
BY DEF Known, RamKeys, Keys, Derive, Plain, Garbage, OwnKey, Slots, MASTER, g_emptyKey,
       g_authIdKey, Junk

LEMMA Counting ==
    /\ Counters \subseteq Int /\ 0 \in Counters /\ 1..3 \subseteq Counters
    /\ JunkCounters \subseteq Counters
    /\ Blank \in [key : Keys, counter : Counters] /\ Blank.counter = 0
    /\ Blank.key = g_emptyKey
<1>1. JunkCounters \subseteq Int
  BY HsmAssumption
<1>2. \A x \in 1..3 : x = 1 \/ x = 2 \/ x = 3
  OBVIOUS
<1>3. Blank \in [key : Keys, counter : Counters] /\ Blank.counter = 0 /\ Blank.key = g_emptyKey
  BY KnownTypes DEF Counters, Blank
<1> QED BY <1>1, <1>2, <1>3 DEF Counters

LEMMA Bounds == MaxFaults \in Nat /\ MaxResets \in Nat /\ MaxErases \in Nat
BY HsmAssumption, Zenon

(* The MACs that are right for a master key.                               *)
LEMMA RightMac ==
    ASSUME NEW k \in Known, NEW s, k = Derive(s, "mac") \/ k = Derive(s, "debug")
    PROVE  /\ s = g_emptyKey \/ s = g_authIdKey
           /\ k = Derive(s, "debug") => s = g_authIdKey
BY Derivations DEF Known, Plain, Garbage

-----------------------------------------------------------------------------
(* What Return does, in HSM_initialise and in HSM_EraseKeys.               *)
LEMMA Returning ==
    ASSUME TypeOK, Control, NEW r \in BOOLEAN, Return(r), pc \in LoadPcs \cup ErasePcs
    PROVE  /\ ret' = r
           /\ \/ pc' = "idle" /\ call' = call /\ (op = "start" => call = 3)
              \/ pc' = "deriveK1" /\ call' = call + 1 /\ call \in 1..2 /\ op = "start"
BY KeyList DEF Return, TypeOK, Control, ErasePcs, LoadPcs

LEMMA InitDialogue == Init => Dialogue
<1> SUFFICES ASSUME Init PROVE Dialogue
  OBVIOUS
<1>1. Garbage \in RamKeys /\ 0 \in Counters /\ Junk \in Keys
  BY KnownTypes, Counting
<1>2. m2 \in Ciphers
  BY <1>1 DEF Init, Ciphers
<1>3. mac \in [by : RamKeys, id : Slots \cup {"none", "debug"}, over : Ciphers, uid : BOOLEAN]
  BY <1>1, <1>2 DEF Init
<1>4. slot \in [Slots -> [key : Keys, counter : Counters]]
  BY Counting DEF Init
<1>5. /\ rng \in BOOLEAN /\ up \in BOOLEAN /\ uid \in BOOLEAN /\ ret \in BOOLEAN
      /\ clean \in BOOLEAN /\ garbled \in BOOLEAN
  BY DEF Init
<1>6. call \in 0..Len(KeyOf) /\ faults \in 0..MaxFaults /\ resets \in 0..MaxResets
      /\ erases \in 0..MaxErases
  BY Bounds, KeyList DEF Init
<1>7. TypeOK
  BY <1>1, <1>2, <1>3, <1>4, <1>5, <1>6 DEF Init, TypeOK
<1>8. KeysKnown /\ Control /\ Messages /\ Exact
  BY KnownTypes DEF Init, KeysKnown, Control, Messages, Exact, LoadPcs, ErasePcs
<1>9. SlotsSound
  BY DEF Init, SlotsSound
<1> QED BY <1>7, <1>8, <1>9 DEF Dialogue
-----------------------------------------------------------------------------
\* Every step keeps the types and the control.

LEMMA ThisKey ==
    ASSUME Control, pc \in LoadPcs
    PROVE  /\ This.id \in Slots /\ This.key = OwnKey(This.id) /\ This.counter \in 1..3
           /\ This.counter % 2^28 = This.counter /\ (This.id = MASTER <=> call = 1)
           /\ This.auth = IF call = 1 THEN g_emptyKey ELSE g_authIdKey
BY KeyList DEF This, Control

LEMMA CallTypes ==
    ASSUME TypeOK, Control, NEW r \in BOOLEAN,
           (Works \/ Fails) /\ (Return(r) \/ UNCHANGED <<call, ret>>), pc \in LoadPcs \cup ErasePcs
    PROVE  /\ clean' \in BOOLEAN /\ faults' \in 0..MaxFaults
           /\ call' \in 0..Len(KeyOf) /\ ret' \in BOOLEAN
<1>1. clean' \in BOOLEAN
  BY DEF Works, Fails, TypeOK
<1>2. faults' \in 0..MaxFaults
  BY Bounds DEF Works, Fails, TypeOK
<1>3. call' \in 0..Len(KeyOf) /\ ret' \in BOOLEAN
  BY Returning, KeyList DEF TypeOK
<1> QED BY <1>1, <1>2, <1>3

LEMMA StartKeepsTypes == TypeOK /\ Start => TypeOK'
<1> SUFFICES ASSUME TypeOK, Start PROVE TypeOK'
  OBVIOUS
<1>1. up' \in BOOLEAN /\ clean' \in BOOLEAN /\ UNCHANGED <<slot, ram, rng, locals, ret, garbled, counts>>
  BY DEF Start
<1>2. faults' \in 0..MaxFaults
  BY Bounds DEF Start, TypeOK
<1>3. op' = "start" /\ pc' = "deriveK1" /\ call' \in 0..Len(KeyOf)
  BY KeyList DEF Start
<1> QED BY <1>1, <1>2, <1>3 DEF TypeOK, locals, counts

LEMMA LoadKeepsTypes == Dialogue /\ Load => TypeOK'
<1> SUFFICES ASSUME Dialogue, Load PROVE TypeOK'
  OBVIOUS
<1> USE DEF Dialogue
<1>0. pc \in LoadPcs /\ UNCHANGED <<rng, up, op, uid, counts>>
  BY DEF Load, DeriveK1, DeriveK2, PlainK1, PlainK2, LoadPlainKey, Encrypt, GenerateMac,
         LoadKey, LoadPcs, locals, module
<1>1. ASSUME NEW r \in BOOLEAN, (Works \/ Fails) /\ (Return(r) \/ UNCHANGED <<call, ret>>)
      PROVE  /\ clean' \in BOOLEAN /\ faults' \in 0..MaxFaults
             /\ call' \in 0..Len(KeyOf) /\ ret' \in BOOLEAN
  BY <1>0, <1>1, CallTypes
<1>2. ASSUME NEW r \in BOOLEAN, Return(r) PROVE pc' \in {"idle", "deriveK1"}
  BY <1>2 DEF Return
<1>3. CASE DeriveK1 \/ DeriveK2
  <2>1. Derive(This.auth, "enc") \in RamKeys /\ Derive(This.auth, "mac") \in RamKeys /\ Garbage \in RamKeys
    BY <1>0, ThisKey, KnownTypes
  <2>2. (Works \/ Fails) /\ UNCHANGED <<call, ret>>
    BY <1>3 DEF DeriveK1, DeriveK2, DerivesFrom
  <2>3. k1' \in RamKeys /\ k2' \in RamKeys
    BY <1>3, <2>1 DEF DeriveK1, DeriveK2, DerivesFrom, TypeOK
  <2>4. garbled' \in BOOLEAN /\ pc' \in {"deriveK2", "plainK1"}
    BY <1>3 DEF DeriveK1, DeriveK2, DerivesFrom, TypeOK
  <2>5. UNCHANGED <<slot, ram, m2, mac>>
    BY <1>3 DEF DeriveK1, DeriveK2, module
  <2> QED BY <1>0, <1>1, <2>2, <2>3, <2>4, <2>5 DEF TypeOK, counts
<1>4. CASE PlainK1 \/ PlainK2
  <2>1. (Works \/ Fails) /\ (Return(FALSE) \/ UNCHANGED <<call, ret>>)
    BY <1>4 DEF PlainK1, PlainK2, LoadPlainKey, AfterFailure
  <2>2. pc' \in {"encrypt", "mac", "idle", "deriveK1"} /\ ram' \in RamKeys
    BY <1>2, <1>4 DEF PlainK1, PlainK2, LoadPlainKey, AfterFailure, TypeOK
  <2>3. UNCHANGED <<slot, k1, k2, m2, mac, garbled>>
    BY <1>4 DEF PlainK1, PlainK2, LoadPlainKey, locals
  <2> QED BY <1>0, <1>1, <2>1, <2>2, <2>3, ZenonT(40) DEF TypeOK, counts
<1>5. CASE Encrypt
  <2>1. (Works \/ Fails) /\ (Return(FALSE) \/ UNCHANGED <<call, ret>>)
    BY <1>5 DEF Encrypt, AfterFailure
  <2>2. pc' \in {"plainK2", "idle", "deriveK1"}
    BY <1>2, <1>5 DEF Encrypt, AfterFailure
  <2>3. m2' \in Ciphers
    <3>1. This.key \in Keys /\ This.counter % 2^28 \in Counters
      BY <1>0, ThisKey, KnownTypes, Counting
    <3> QED BY <1>5, <3>1 DEF Encrypt, Ciphers, TypeOK
  <2>4. UNCHANGED <<slot, ram, k1, k2, mac, garbled>>
    BY <1>5 DEF Encrypt, module
  <2> QED BY <1>0, <1>1, <2>1, <2>2, <2>3, <2>4, ZenonT(40) DEF TypeOK, counts
<1>6. CASE GenerateMac
  <2>1. (Works \/ Fails) /\ (Return(FALSE) \/ UNCHANGED <<call, ret>>)
    BY <1>6 DEF GenerateMac, AfterFailure
  <2>2. pc' \in {"loadKey", "idle", "deriveK1"}
    BY <1>2, <1>6 DEF GenerateMac, AfterFailure
  <2>3. mac' \in [by : RamKeys, id : Slots \cup {"none", "debug"}, over : Ciphers, uid : BOOLEAN]
    <3>1. This.id \in Slots
      BY <1>0, ThisKey
    <3>2. Mac(This.id) \in [by : RamKeys, id : Slots \cup {"none", "debug"},
                            over : Ciphers, uid : BOOLEAN]
      BY <3>1 DEF Mac, TypeOK
    <3>3. mac' = Mac(This.id) \/ mac' = mac
      BY <1>6 DEF GenerateMac
    <3> QED BY <3>2, <3>3 DEF TypeOK
  <2>4. UNCHANGED <<slot, ram, k1, k2, m2, garbled>>
    BY <1>6 DEF GenerateMac, module
  <2> QED BY <1>0, <1>1, <2>1, <2>2, <2>3, <2>4 DEF TypeOK, counts
<1>7. CASE LoadKey
  <2>1. PICK r \in BOOLEAN : (Works \/ Fails) /\ Return(r)
    BY <1>7 DEF LoadKey
  <2>2. slot' \in [Slots -> [key : Keys, counter : Counters]]
    <3>1. Contents \subseteq [key : Keys, counter : Counters]
      BY Counting, KnownTypes DEF Contents, TypeOK, Ciphers
    <3> QED BY <1>7, <3>1 DEF LoadKey, Loads, TypeOK
  <2>3. UNCHANGED <<ram, k1, k2, m2, mac, garbled>>
    BY <1>7 DEF LoadKey, locals
  <2> QED BY <1>0, <1>1, <1>2, <2>1, <2>2, <2>3 DEF TypeOK, counts
<1> QED BY <1>3, <1>4, <1>5, <1>6, <1>7 DEF Load

LEMMA EraseKeepsTypes == Dialogue /\ EraseStep => TypeOK'
<1> SUFFICES ASSUME Dialogue, EraseStep PROVE TypeOK'
  OBVIOUS
<1> USE DEF Dialogue
<1>0. pc \in ErasePcs /\ UNCHANGED <<up, op, k2, m2, counts>>
  BY DEF EraseStep, InitRng, GetId, PlainAuth, VerifyMac, DeriveK, PlainK, LoadPlainKey,
         DbgChal, DbgMac, DbgAuth, ErasePcs, locals, module
<1>1. ASSUME NEW r \in BOOLEAN, (Works \/ Fails) /\ (Return(r) \/ UNCHANGED <<call, ret>>)
      PROVE  /\ clean' \in BOOLEAN /\ faults' \in 0..MaxFaults
             /\ call' \in 0..Len(KeyOf) /\ ret' \in BOOLEAN
  BY <1>0, <1>1, CallTypes
<1>2. ASSUME NEW r \in BOOLEAN, Return(r) PROVE pc' \in {"idle", "deriveK1"}
  BY <1>2 DEF Return
<1>3. CASE InitRng \/ GetId \/ VerifyMac
  <2>1. (Works \/ Fails) /\ UNCHANGED <<call, ret>>
    BY <1>3 DEF InitRng, GetId, VerifyMac
  <2>2. rng' \in BOOLEAN /\ uid' \in BOOLEAN
    BY <1>3 DEF InitRng, GetId, VerifyMac, TypeOK, module, locals
  <2>3. pc' \in {"getId", "plainAuth", "deriveK"} /\ UNCHANGED <<slot, ram, k1, mac, garbled>>
    BY <1>3 DEF InitRng, GetId, VerifyMac, module, locals
  <2> QED BY <1>0, <1>1, <2>1, <2>2, <2>3 DEF TypeOK, counts
<1>4. CASE PlainAuth
  <2>1. (Works \/ Fails) /\ UNCHANGED <<call, ret>>
    BY <1>4 DEF PlainAuth
  <2>2. ram' \in RamKeys
    BY <1>4, KnownTypes DEF PlainAuth, TypeOK
  <2>3. pc' \in {"verifyMac", "deriveK"} /\ UNCHANGED <<slot, rng, locals, garbled>>
    BY <1>4 DEF PlainAuth
  <2> QED BY <1>0, <1>1, <2>1, <2>2, <2>3 DEF TypeOK, counts, locals
<1>5. CASE DeriveK
  <2>1. (Works \/ Fails) /\ UNCHANGED <<call, ret>>
    BY <1>5 DEF DeriveK, DerivesFrom
  <2>2. k1' \in RamKeys
    BY <1>5, KnownTypes DEF DeriveK, DerivesFrom, TypeOK
  <2>3. garbled' \in BOOLEAN
    BY <1>5 DEF DeriveK, DerivesFrom, TypeOK
  <2>4. pc' = "plainK" /\ UNCHANGED <<slot, ram, rng, mac, uid>>
    BY <1>5 DEF DeriveK, module
  <2> QED BY <1>0, <1>1, <2>1, <2>2, <2>3, <2>4 DEF TypeOK, counts
<1>6. CASE PlainK \/ DbgChal
  <2>1. (Works \/ Fails) /\ (Return(FALSE) \/ UNCHANGED <<call, ret>>)
    BY <1>6 DEF PlainK, DbgChal, LoadPlainKey, AfterFailure
  <2>2. pc' \in {"dbgChal", "dbgMac", "idle", "deriveK1"}
    BY <1>2, <1>6 DEF PlainK, DbgChal, LoadPlainKey, AfterFailure
  <2>3. ram' \in RamKeys /\ UNCHANGED <<slot, rng, locals, garbled>>
    BY <1>6 DEF PlainK, DbgChal, LoadPlainKey, TypeOK, module
  <2> QED BY <1>0, <1>1, <2>1, <2>2, <2>3, ZenonT(40) DEF TypeOK, counts, locals
<1>7. CASE DbgMac
  <2>1. (Works \/ Fails) /\ (Return(FALSE) \/ UNCHANGED <<call, ret>>)
    BY <1>7 DEF DbgMac, AfterFailure
  <2>2. pc' \in {"dbgAuth", "idle", "deriveK1"}
    BY <1>2, <1>7 DEF DbgMac, AfterFailure
  <2>3. mac' \in [by : RamKeys, id : Slots \cup {"none", "debug"}, over : Ciphers, uid : BOOLEAN]
    BY <1>7 DEF DbgMac, Mac, TypeOK
  <2>4. UNCHANGED <<slot, ram, rng, k1, uid, garbled>>
    BY <1>7 DEF DbgMac, module
  <2> QED BY <1>0, <1>1, <2>1, <2>2, <2>3, <2>4 DEF TypeOK, counts
<1>8. CASE DbgAuth
  <2>1. PICK r \in BOOLEAN : (Works \/ Fails) /\ Return(r)
    BY <1>8 DEF DbgAuth
  <2>2. slot' \in [Slots -> [key : Keys, counter : Counters]]
    BY <1>8, Counting DEF DbgAuth, Erases, TypeOK
  <2>3. garbled' \in BOOLEAN
    BY <1>8 DEF DbgAuth, Erases, TypeOK
  <2>4. UNCHANGED <<ram, rng, k1, mac, uid>>
    BY <1>8 DEF DbgAuth, locals
  <2> QED BY <1>0, <1>1, <1>2, <2>1, <2>2, <2>3, <2>4 DEF TypeOK, counts
<1> QED BY <1>3, <1>4, <1>5, <1>6, <1>7, <1>8 DEF EraseStep

LEMMA OthersKeepTypes == TypeOK /\ (EraseKeys \/ Reset \/ UNCHANGED vars) => TypeOK'
<1> SUFFICES ASSUME TypeOK, EraseKeys \/ Reset \/ UNCHANGED vars PROVE TypeOK'
  OBVIOUS
<1>1. CASE EraseKeys
  <2>1. erases' \in 0..MaxErases
    BY <1>1, Bounds DEF EraseKeys, TypeOK
  <2> QED BY <1>1, <2>1 DEF EraseKeys, TypeOK, module, locals
<1>2. CASE Reset
  <2>1. resets' \in 0..MaxResets /\ call' \in 0..Len(KeyOf)
    BY <1>2, Bounds, KeyList DEF Reset, TypeOK
  <2>2. ram' \in RamKeys /\ k1' \in RamKeys /\ k2' \in RamKeys
    BY <1>2, KnownTypes DEF Reset
  <2>3. up' \in BOOLEAN /\ rng' \in BOOLEAN /\ uid' \in BOOLEAN
    BY <1>2 DEF Reset
  <2> QED BY <1>2, <2>1, <2>2, <2>3 DEF Reset, TypeOK
<1>3. CASE UNCHANGED vars
  BY <1>3 DEF vars, TypeOK, module, locals, counts
<1> QED BY <1>1, <1>2, <1>3

-----------------------------------------------------------------------------
\* Every step keeps the keys and the messages what they are.

LEMMA ControlKept == Dialogue /\ [Next]_vars => Control'
<1> SUFFICES ASSUME Dialogue, [Next]_vars PROVE Control'
  OBVIOUS
<1> USE DEF Dialogue, Control
<1>1. CASE Start
  BY <1>1 DEF Start, LoadPcs, ErasePcs
<1>2. CASE Load
  <2>1. pc \in LoadPcs /\ op' = op
    BY <1>2 DEF Load, DeriveK1, DeriveK2, PlainK1, PlainK2, LoadPlainKey, Encrypt,
                GenerateMac, LoadKey, LoadPcs
  <2>2. (\E r \in BOOLEAN : Return(r)) \/ (pc' \in LoadPcs /\ call' = call)
    BY <1>2 DEF Load, DeriveK1, DeriveK2, PlainK1, PlainK2, LoadPlainKey, Encrypt,
                GenerateMac, LoadKey, AfterFailure, LoadPcs
  <2>3. CASE \E r \in BOOLEAN : Return(r)
    BY <2>1, <2>3, Returning DEF LoadPcs, ErasePcs
  <2> QED BY <2>1, <2>2, <2>3 DEF LoadPcs, ErasePcs
<1>3. CASE EraseStep
  <2>1. pc \in ErasePcs /\ op' = op
    BY <1>3 DEF EraseStep, InitRng, GetId, PlainAuth, VerifyMac, DeriveK, PlainK,
                LoadPlainKey, DbgChal, DbgMac, DbgAuth, ErasePcs
  <2>2. (\E r \in BOOLEAN : Return(r)) \/ pc' \in ErasePcs
    BY <1>3 DEF EraseStep, InitRng, GetId, PlainAuth, VerifyMac, DeriveK, PlainK,
                LoadPlainKey, DbgChal, DbgMac, DbgAuth, AfterFailure, ErasePcs
  <2>3. CASE \E r \in BOOLEAN : Return(r)
    BY <2>1, <2>3, Returning DEF LoadPcs, ErasePcs
  <2> QED BY <2>1, <2>2, <2>3 DEF LoadPcs, ErasePcs
<1>4. CASE EraseKeys \/ Reset
  BY <1>4 DEF EraseKeys, Reset, LoadPcs, ErasePcs
<1>5. CASE UNCHANGED vars
  BY <1>5 DEF vars
<1> QED BY <1>1, <1>2, <1>3, <1>4, <1>5 DEF Next

(* A call of HSM_LoadKey that ends is followed by the next one, for which  *)
(* the usual keys stay the usual keys.                                     *)
LEMMA NextCall ==
    ASSUME Dialogue, NEW r \in BOOLEAN, Return(r), pc \in LoadPcs \cup ErasePcs
    PROVE  /\ pc' \in {"idle", "deriveK1"}
           /\ pc' = "deriveK1" => pc \in LoadPcs /\ call' # 1
<1>1. \/ pc' = "idle"
      \/ pc' = "deriveK1" /\ call' = call + 1 /\ call \in 1..2 /\ op = "start"
  BY Returning DEF Dialogue
<1> QED BY <1>1 DEF Dialogue, Control

LEMMA KeysKept == Dialogue /\ [Next]_vars => KeysKnown'
<1> SUFFICES ASSUME Dialogue, [Next]_vars PROVE KeysKnown'
  OBVIOUS
<1> USE DEF Dialogue, KeysKnown
<1>1. CASE Start
  BY <1>1 DEF Start, Usual, locals
<1>2. CASE DeriveK1 \/ DeriveK2
  <2>1. pc \in LoadPcs /\ This.auth = IF call = 1 THEN g_emptyKey ELSE g_authIdKey
    BY <1>2, ThisKey DEF DeriveK1, DeriveK2, LoadPcs
  <2>2. k1' = k1 \/ k1' = Garbage \/ k1' = Derive(This.auth, "enc")
    BY <1>2 DEF DeriveK1, DeriveK2, DerivesFrom
  <2>3. k2' = k2 \/ k2' = Garbage \/ k2' = Derive(This.auth, "mac")
    BY <1>2 DEF DeriveK1, DeriveK2, DerivesFrom
  <2>4. pc' # "off" /\ UNCHANGED <<ram, mac, call>>
    BY <1>2 DEF DeriveK1, DeriveK2, module
  <2> QED BY <2>1, <2>2, <2>3, <2>4, KnownTypes DEF Usual
<1>3. CASE PlainK1 \/ PlainK2 \/ Encrypt \/ GenerateMac \/ LoadKey
  <2>1. pc \in LoadPcs /\ UNCHANGED <<k1, k2>>
    BY <1>3 DEF PlainK1, PlainK2, LoadPlainKey, Encrypt, GenerateMac, LoadKey, LoadPcs, locals
  <2>2. ram' \in Known /\ mac'.by \in Known
    <3>1. ram' = ram \/ ram' = k1 \/ ram' = k2
      BY <1>3 DEF PlainK1, PlainK2, LoadPlainKey, Encrypt, GenerateMac, LoadKey, module
    <3>2. mac' = mac \/ mac' = Mac(This.id)
      BY <1>3 DEF PlainK1, PlainK2, LoadPlainKey, Encrypt, GenerateMac, LoadKey, locals
    <3> QED BY <3>1, <3>2 DEF Mac
  <2>3. (\E r \in BOOLEAN : Return(r)) \/ (pc' \in LoadPcs /\ call' = call)
    BY <1>3 DEF PlainK1, PlainK2, LoadPlainKey, Encrypt, GenerateMac, LoadKey, AfterFailure, LoadPcs
  <2>4. CASE pc' \in LoadPcs /\ call' = call
    BY <2>1, <2>2, <2>4 DEF LoadPcs, Usual
  <2>5. CASE \E r \in BOOLEAN : Return(r)
    <3>1. pc' \in {"idle", "deriveK1"} /\ (pc' = "deriveK1" => call' # 1)
      BY <2>1, <2>5, NextCall
    <3> QED BY <2>1, <2>2, <3>1 DEF LoadPcs, Usual
  <2> QED BY <2>3, <2>4, <2>5
<1>4. CASE EraseStep
  <2>1. pc \in ErasePcs /\ k2' = k2
    BY <1>4 DEF EraseStep, InitRng, GetId, PlainAuth, VerifyMac, DeriveK, PlainK,
                LoadPlainKey, DbgChal, DbgMac, DbgAuth, ErasePcs, locals
  <2>2. k1' \in Known
    BY <1>4, KnownTypes DEF EraseStep, InitRng, GetId, PlainAuth, VerifyMac, DeriveK,
                DerivesFrom, PlainK, LoadPlainKey, DbgChal, DbgMac, DbgAuth, locals
  <2>3. ram' \in Known
    BY <1>4, KnownTypes DEF EraseStep, InitRng, GetId, PlainAuth, VerifyMac, DeriveK,
                PlainK, LoadPlainKey, DbgChal, DbgMac, DbgAuth, module
  <2>4. mac'.by \in Known
    <3>1. mac' = mac \/ (mac' = [Mac("debug") EXCEPT !.uid = uid])
      BY <1>4 DEF EraseStep, InitRng, GetId, PlainAuth, VerifyMac, DeriveK, PlainK,
                LoadPlainKey, DbgChal, DbgMac, DbgAuth, locals
    <3> QED BY <3>1 DEF Mac
  <2>5. (\E r \in BOOLEAN : Return(r)) \/ pc' \in ErasePcs
    BY <1>4 DEF EraseStep, InitRng, GetId, PlainAuth, VerifyMac, DeriveK, PlainK,
                LoadPlainKey, DbgChal, DbgMac, DbgAuth, AfterFailure, ErasePcs
  <2>6. pc' \notin LoadPcs \cup {"off"}
    <3>1. CASE \E r \in BOOLEAN : Return(r)
      <4>1. pc \notin LoadPcs
        BY <2>1 DEF ErasePcs, LoadPcs
      <4> QED BY <2>1, <3>1, <4>1, NextCall DEF LoadPcs
    <3> QED BY <2>5, <3>1 DEF ErasePcs, LoadPcs
  <2> QED BY <2>1, <2>2, <2>3, <2>4, <2>6
<1>5. CASE EraseKeys \/ Reset
  BY <1>5, KnownTypes DEF EraseKeys, Reset, LoadPcs, module, locals
<1>6. CASE UNCHANGED vars
  BY <1>6 DEF vars, module, locals, Usual
<1> QED BY <1>1, <1>2, <1>3, <1>4, <1>5, <1>6 DEF Next, Load

LEMMA MessagesKept == Dialogue /\ [Next]_vars => Messages' /\ Exact'
<1> SUFFICES ASSUME Dialogue, [Next]_vars PROVE Messages' /\ Exact'
  OBVIOUS
<1> USE DEF Dialogue
<1>0. ASSUME pc' \notin LoadPcs \/ pc' = "deriveK1" PROVE Messages' /\ Exact'
  BY <1>0 DEF Messages, Exact, LoadPcs
<1>1. ASSUME NEW r \in BOOLEAN, Return(r) PROVE Messages' /\ Exact'
  BY <1>0, <1>1 DEF Return, LoadPcs
<1>2. CASE DeriveK1
  BY <1>2, ThisKey DEF DeriveK1, DerivesFrom, Messages, Exact, This, LoadPcs
<1>3. CASE DeriveK2
  BY <1>3, ThisKey DEF DeriveK2, DerivesFrom, Messages, Exact, This, LoadPcs
<1>4. CASE PlainK1 \/ PlainK2
  BY <1>1, <1>4 DEF PlainK1, PlainK2, LoadPlainKey, AfterFailure, Messages, Exact, This,
                    LoadPcs, locals
<1>5. CASE Encrypt
  <2>1. This.counter % 2^28 = This.counter
    BY <1>5, ThisKey DEF Encrypt, LoadPcs
  <2>2. CASE pc' = "plainK2" /\ call' = call
    <3>1. /\ m2' = [by |-> ram, key |-> This.key, counter |-> This.counter % 2^28]
          /\ This' = This /\ ram = k1 /\ UNCHANGED <<ram, k1, k2, garbled>>
      BY <1>1, <1>5, <2>2 DEF Encrypt, AfterFailure, Return, Messages, This, module
    <3> QED BY <1>5, <2>1, <2>2, <3>1 DEF Encrypt, Messages, Exact, LoadPcs
  <2> QED BY <1>1, <1>5, <2>2 DEF Encrypt, AfterFailure
<1>6. CASE GenerateMac
  <2>1. CASE pc' = "loadKey" /\ call' = call
    <3>1. /\ mac' = Mac(This.id)
          /\ This' = This /\ ram = k2 /\ UNCHANGED <<ram, k1, k2, m2, garbled>>
      BY <1>6, <2>1 DEF GenerateMac, AfterFailure, Return, Messages, This, module
    <3>2. mac'.by = k2 /\ mac'.id = This.id /\ mac'.over = m2
      BY <3>1 DEF Mac
    <3> QED BY <1>6, <2>1, <3>1, <3>2 DEF GenerateMac, Messages, Exact, LoadPcs
  <2> QED BY <1>1, <1>6, <2>1 DEF GenerateMac, AfterFailure
<1>7. CASE LoadKey
  BY <1>1, <1>7 DEF LoadKey
<1>8. CASE EraseStep
  BY <1>0, <1>1, <1>8 DEF EraseStep, InitRng, GetId, PlainAuth, VerifyMac, DeriveK, PlainK,
        LoadPlainKey, DbgChal, DbgMac, DbgAuth, AfterFailure, LoadPcs
<1>9. CASE Start \/ EraseKeys \/ Reset
  BY <1>0, <1>9 DEF Start, EraseKeys, Reset, LoadPcs
<1>10. CASE UNCHANGED vars
  BY <1>10 DEF vars, module, locals, Messages, Exact, This
<1> QED BY <1>2, <1>3, <1>4, <1>5, <1>6, <1>7, <1>8, <1>9, <1>10 DEF Next, Load

-----------------------------------------------------------------------------
\* What a key is loaded as.

(* A key that the security module accepts is loaded under the master key   *)
(* that may load it, and it is the wrong one only after a failure.         *)
LEMMA Loading ==
    ASSUME Dialogue, pc = "loadKey", NEW c \in Contents, Accepts(c)
    PROVE  /\ \/ slot[MASTER].key = g_emptyKey /\ (This.id = MASTER \/ garbled)
              \/ slot[MASTER].key = g_authIdKey /\ This.id # MASTER
           /\ c.key = OwnKey(This.id) \/ (c.key = Junk /\ garbled)
<1> USE DEF Dialogue
<1>1. /\ This.id \in Slots /\ This.key = OwnKey(This.id) /\ (This.id = MASTER <=> call = 1)
      /\ This.auth = IF call = 1 THEN g_emptyKey ELSE g_authIdKey
  BY ThisKey DEF LoadPcs
<1>2. m2.by = k1 /\ m2.key = This.key /\ mac.by = k2 /\ Usual(k2, "mac") /\ k2 \in Known
  BY DEF Messages, KeysKnown, LoadPcs
<1>3. ~garbled => k1 = Derive(This.auth, "enc") /\ k2 = Derive(This.auth, "mac")
  BY DEF Exact, LoadPcs
<1>4. k2 = Derive(slot[MASTER].key, "mac")
  BY <1>2 DEF Accepts
<1>5. \/ slot[MASTER].key = g_emptyKey /\ (This.id = MASTER \/ garbled)
      \/ slot[MASTER].key = g_authIdKey /\ This.id # MASTER
  <2>1. slot[MASTER].key = g_emptyKey \/ slot[MASTER].key = g_authIdKey
    BY <1>2, <1>4, RightMac
  <2>2. CASE slot[MASTER].key = g_emptyKey
    BY <1>1, <1>3, <1>4, <2>2, Derivations, KeyNames
  <2>3. CASE slot[MASTER].key = g_authIdKey
    BY <1>1, <1>2, <1>4, <2>3, Derivations, KeyNames DEF Usual, Garbage, Plain
  <2> QED BY <2>1, <2>2, <2>3
<1>6. CASE m2.by = Derive(slot[MASTER].key, "enc")
  BY <1>1, <1>2, <1>5, <1>6 DEF Contents
<1>7. CASE m2.by # Derive(slot[MASTER].key, "enc")
  <2>1. garbled
    BY <1>2, <1>3, <1>4, <1>7, Derivations
  <2>2. c.key = Junk
    BY <1>7 DEF Contents
  <2> QED BY <1>5, <2>1, <2>2
<1> QED BY <1>6, <1>7

(* What a step does to the slots.                                          *)
LEMMA SlotSteps ==
    ASSUME Dialogue, [Next]_vars
    PROVE  \/ UNCHANGED slot /\ (garbled' = garbled \/ garbled' = TRUE)
           \/ Erases
           \/ /\ pc = "loadKey" /\ garbled' = garbled
              /\ \E c \in Contents : Loads(c)
<1>1. CASE Start \/ EraseKeys \/ Reset \/ UNCHANGED vars
  BY <1>1 DEF Start, EraseKeys, Reset, vars, module
<1>2. CASE LoadKey
  BY <1>2 DEF LoadKey
<1>3. CASE DeriveK1 \/ DeriveK2 \/ PlainK1 \/ Encrypt \/ PlainK2 \/ GenerateMac
  BY <1>3 DEF DeriveK1, DeriveK2, DerivesFrom, PlainK1, Encrypt, PlainK2, GenerateMac,
              LoadPlainKey, module
<1>4. CASE DbgAuth
  BY <1>4 DEF DbgAuth
<1>5. CASE InitRng \/ GetId \/ PlainAuth \/ VerifyMac \/ DeriveK \/ PlainK \/ DbgChal \/ DbgMac
  BY <1>5 DEF InitRng, GetId, PlainAuth, VerifyMac, DeriveK, DerivesFrom, PlainK,
              LoadPlainKey, DbgChal, DbgMac, module
<1> QED BY <1>1, <1>2, <1>3, <1>4, <1>5 DEF Next, Load, EraseStep

LEMMA SlotsKept == Dialogue /\ [Next]_vars => SlotsSound'
<1> SUFFICES ASSUME Dialogue, [Next]_vars PROVE SlotsSound'
  OBVIOUS
<1>1. CASE UNCHANGED slot /\ (garbled' = garbled \/ garbled' = TRUE)
  BY <1>1 DEF Dialogue, SlotsSound
<1>2. CASE Erases
  BY <1>2 DEF Erases, SlotsSound
<1>3. CASE pc = "loadKey" /\ garbled' = garbled /\ \E c \in Contents : Loads(c)
  <2>1. PICK c \in Contents : Accepts(c) /\ slot' = [slot EXCEPT ![This.id] = c]
    BY <1>3 DEF Loads
  <2>2. c.key = OwnKey(This.id) \/ (c.key = Junk /\ garbled)
    BY <1>3, <2>1, Loading
  <2> QED BY <1>3, <2>1, <2>2 DEF Dialogue, SlotsSound, TypeOK
<1> QED BY <1>1, <1>2, <1>3, SlotSteps

LEMMA DialogueKept == Dialogue /\ [Next]_vars => Dialogue'
<1>1. Dialogue /\ [Next]_vars => TypeOK'
  BY StartKeepsTypes, LoadKeepsTypes, EraseKeepsTypes, OthersKeepTypes DEF Next, Dialogue
<1> QED BY <1>1, ControlKept, KeysKept, MessagesKept, SlotsKept DEF Dialogue

LEMMA DialogueHolds == Spec => []Dialogue
BY InitDialogue, DialogueKept, PTL DEF Spec

(* Every variable keeps its type.                                          *)
THEOREM TypesHold == Spec => []TypeOK
BY DialogueHolds, PTL DEF Dialogue

-----------------------------------------------------------------------------
\* The refinement.

LEMMA StoredKeys ==
    ASSUME Dialogue, NEW s \in Slots
    PROVE  /\ Stored(s) = "empty" <=> slot[s].key = g_emptyKey
           /\ Stored(s) = "own" <=> slot[s].key = OwnKey(s)
           /\ Stored(s) \in {"empty", "own", "foreign"}
BY KeyNames, Counting DEF Dialogue, SlotsSound, Stored

LEMMA StepStores ==
    Dialogue /\ Dialogue' /\ [Next]_vars => [Store!Next]_Store!storeVars
<1> SUFFICES ASSUME Dialogue, Dialogue', [Next]_vars
             PROVE  [Store!Next]_Store!storeVars
  OBVIOUS
<1> DEFINE store == [s \in Slots |-> Stored(s)]
<1>1. CASE UNCHANGED slot /\ (garbled' = garbled \/ garbled' = TRUE)
  <2>1. store' = store
    BY <1>1 DEF Stored
  <2> QED BY <1>1, <2>1 DEF Store!Next, Store!Garble, Store!storeVars
<1>2. CASE Erases
  <2>1. slot[MASTER].key = g_authIdKey
    BY <1>2, RightMac DEF Erases, Authentic, Dialogue, KeysKnown
  <2>2. store[MASTER] = "own"
    BY <2>1, StoredKeys, KeyNames
  <2>3. store' = [s \in Slots |-> "empty"]
    BY <1>2 DEF Erases, Stored
  <2> QED BY <1>2, <2>2, <2>3 DEF Erases, Store!Next, Store!Erase
<1>3. CASE pc = "loadKey" /\ garbled' = garbled /\ \E c \in Contents : Loads(c)
  <2>1. PICK c \in Contents : Accepts(c) /\ slot' = [slot EXCEPT ![This.id] = c]
    BY <1>3 DEF Loads
  <2>2. /\ \/ slot[MASTER].key = g_emptyKey /\ (This.id = MASTER \/ garbled)
           \/ slot[MASTER].key = g_authIdKey /\ This.id # MASTER
        /\ c.key = OwnKey(This.id) \/ (c.key = Junk /\ garbled)
    BY <1>3, <2>1, Loading
  <2>3. PICK i \in Slots : i = This.id
    BY <1>3, ThisKey DEF Dialogue, LoadPcs
  <2>4. Store!MayLoad(i)
    BY <2>2, <2>3, StoredKeys, KeyNames DEF Store!MayLoad
  <2>5. slot'[i] = c /\ \A s \in Slots : s # i => slot'[s] = slot[s]
    BY <2>1, <2>3 DEF Dialogue, TypeOK
  <2>6. \A s \in Slots : s # i => Stored(s)' = Stored(s)
    BY <2>5 DEF Stored
  <2>7. CASE c.key = OwnKey(i)
    <3>1. Stored(i)' = "own"
      BY <2>5, <2>7, KeyNames, Counting DEF Stored
    <3>2. store' = [store EXCEPT ![i] = "own"]
      BY <2>6, <3>1
    <3> QED BY <1>3, <2>4, <3>2 DEF Store!Next, Store!Load
  <2>8. CASE c.key = Junk /\ garbled
    <3>1. Stored(i)' = "foreign"
      BY <2>5, <2>8, KeyNames, Counting DEF Stored
    <3>2. store' = [store EXCEPT ![i] = "foreign"]
      BY <2>6, <3>1
    <3> QED BY <1>3, <2>4, <2>8, <3>2 DEF Store!Next, Store!Spoil
  <2> QED BY <2>2, <2>3, <2>7, <2>8
<1> QED BY <1>1, <1>2, <1>3, SlotSteps

(* HSM_initialise and HSM_EraseKeys implement the key store of KeyStore,   *)
(* whatever calls fail and wherever they are cut off.                      *)
THEOREM ImplementsKeyStore == Spec => StoreSpec
<1>1. Init => Store!Init
  BY DEF Init, Store!Init, Stored
<1> QED BY <1>1, DialogueHolds, StepStores, PTL DEF Spec, StoreSpec, Store!Spec

-----------------------------------------------------------------------------
\* A start in which every call works.

(* The keys the calls of HSM_LoadKey have left behind so far.              *)
Provided ==
    op = "start" /\ clean /\ ~garbled /\ pc \in LoadPcs \cup {"idle"} =>
        \A j \in 1..3 : j < call \/ pc = "idle" => slot[KeyOf[j].id].key = KeyOf[j].key

(* When all has worked, the key is in its slot after LoadKey: either it is *)
(* loaded, or its counter was too small, and then it was there before.     *)
LEMMA CleanLoad ==
    ASSUME Dialogue, Provided, LoadKey, clean', ~garbled'
    PROVE  /\ clean /\ ~garbled
           /\ slot'[This.id].key = This.key
           /\ \A s \in Slots : slot[s].key = OwnKey(s) => slot'[s].key = OwnKey(s)
<1> USE DEF Dialogue
<1>1. clean /\ ~garbled /\ op = "start" /\ pc = "loadKey"
  BY DEF LoadKey, Works, Fails, Control, LoadPcs
<1>2. /\ This.id \in Slots /\ This.key = OwnKey(This.id) /\ (This.id = MASTER <=> call = 1)
      /\ This.counter \in 1..3 /\ This.auth = IF call = 1 THEN g_emptyKey ELSE g_authIdKey
  BY <1>1, ThisKey DEF LoadPcs
<1>3. PICK c \in Contents : Loads(c) \/ (~Accepts(c) /\ UNCHANGED slot)
  BY <1>1 DEF LoadKey, Fails
<1>4. CASE Loads(c)
  <2>1. slot' = [slot EXCEPT ![This.id] = c] /\ c.key = OwnKey(This.id)
    BY <1>1, <1>4, Loading, KeyNames DEF Loads
  <2> QED BY <1>1, <1>2, <2>1 DEF TypeOK
<1>5. CASE ~Accepts(c) /\ UNCHANGED slot
  <2>1. m2.by = Derive(This.auth, "enc") /\ mac.by = Derive(This.auth, "mac")
        /\ mac.id = This.id /\ mac.over = m2 /\ m2.counter = This.counter
    BY <1>1 DEF Exact, Messages, LoadPcs
  <2>2. CASE slot[This.id].key = OwnKey(This.id)
    BY <1>1, <1>2, <1>5, <2>2
  <2>3. CASE slot[This.id] = Blank
    <3>1. slot[MASTER].key = This.auth
      <4>1. CASE call = 1
        BY <1>2, <2>3, <4>1, Counting
      <4>2. CASE call # 1
        <5>1. 1 \in 1..3 /\ 1 < call
          BY <1>1, <4>2 DEF Control, LoadPcs
        <5>2. slot[KeyOf[1].id].key = KeyOf[1].key
          BY <1>1, <5>1 DEF Provided, LoadPcs
        <5> QED BY <1>2, <4>2, <5>1, <5>2, KeyList, KeyNames
      <4> QED BY <4>1, <4>2
    <3>2. c.counter = This.counter
      BY <2>1, <3>1 DEF Contents
    <3>3. Accepts(c)
      BY <1>2, <2>1, <2>3, <3>1, <3>2, Counting DEF Accepts
    <3> QED BY <1>5, <3>3
  <2> QED BY <1>1, <1>2, <2>2, <2>3 DEF SlotsSound
<1> QED BY <1>3, <1>4, <1>5

LEMMA ProvidedKept == Dialogue /\ Provided /\ [Next]_vars => Provided'
<1> SUFFICES ASSUME Dialogue, Provided, [Next]_vars,
                    op' = "start", clean', ~garbled', pc' \in LoadPcs \cup {"idle"},
                    NEW j \in 1..3, j < call' \/ pc' = "idle"
             PROVE  slot'[KeyOf[j].id].key = KeyOf[j].key
  BY DEF Provided
<1>1. CASE Start
  BY <1>1 DEF Start, LoadPcs
<1>2. CASE LoadKey
  <2>1. pc = "loadKey" /\ op = "start" /\ call \in 1..3
    BY <1>2 DEF LoadKey, Dialogue, Control, LoadPcs
  <2>2. j < call \/ j = call
    <3>1. PICK r \in BOOLEAN : Return(r)
      BY <1>2 DEF LoadKey
    <3>2. \/ pc' = "idle" /\ call = 3
          \/ pc' = "deriveK1" /\ call' = call + 1
      BY <2>1, <3>1, Returning DEF Dialogue, LoadPcs
    <3> QED BY <2>1, <3>2
  <2>3. CASE j = call
    BY <1>2, <2>3, CleanLoad DEF This
  <2>4. CASE j < call
    <3>1. clean /\ ~garbled /\ \A s \in Slots : slot[s].key = OwnKey(s) => slot'[s].key = OwnKey(s)
      BY <1>2, CleanLoad
    <3>2. slot[KeyOf[j].id].key = KeyOf[j].key
      BY <2>1, <2>4, <3>1 DEF Provided, LoadPcs
    <3> QED BY <3>1, <3>2, KeyList
  <2> QED BY <2>2, <2>3, <2>4
<1>3. CASE DeriveK1 \/ DeriveK2 \/ PlainK1 \/ Encrypt \/ PlainK2 \/ GenerateMac
  <2>1. /\ clean /\ ~garbled /\ op = "start" /\ pc \in LoadPcs
        /\ call' = call /\ pc' \in LoadPcs /\ slot' = slot
    <3>1. CASE DeriveK1 \/ DeriveK2
      <4>1. /\ op' = op /\ pc \in LoadPcs /\ call' = call /\ pc' \in LoadPcs /\ slot' = slot
        BY <3>1 DEF DeriveK1, DeriveK2, module, LoadPcs
      <4>2. Works /\ garbled' = garbled
        BY <3>1 DEF DeriveK1, DeriveK2, DerivesFrom, Fails
      <4> QED BY <4>1, <4>2 DEF Works
    <3>2. CASE PlainK1 \/ Encrypt \/ PlainK2 \/ GenerateMac
      <4>1. /\ op' = op /\ pc \in LoadPcs /\ slot' = slot /\ garbled' = garbled
        BY <3>2 DEF PlainK1, Encrypt, PlainK2, GenerateMac, LoadPlainKey, module, LoadPcs
      <4>2. Works /\ call' = call /\ pc' \in LoadPcs
        BY <3>2 DEF PlainK1, Encrypt, PlainK2, GenerateMac, LoadPlainKey, Fails, LoadPcs
      <4> QED BY <4>1, <4>2 DEF Works
    <3> QED BY <1>3, <3>1, <3>2
  <2> QED BY <2>1 DEF Provided, LoadPcs
<1>4. CASE EraseStep
  BY <1>4 DEF EraseStep, InitRng, GetId, PlainAuth, VerifyMac, DeriveK, PlainK,
              LoadPlainKey, DbgChal, DbgMac, DbgAuth, Dialogue, Control, ErasePcs
<1>5. CASE EraseKeys \/ Reset
  BY <1>5 DEF EraseKeys, Reset, LoadPcs
<1>6. CASE UNCHANGED vars
  BY <1>6 DEF vars, module, Provided
<1> QED BY <1>1, <1>2, <1>3, <1>4, <1>5, <1>6 DEF Next, Load

(* Whatever went wrong in earlier starts, one in which every call works    *)
(* leaves every key in its slot, unless a failed derivation has spoilt it. *)
THEOREM CleanStart == Spec => []CleanStartProvisions
<1>1. Init => Provided
  BY DEF Init, Provided, LoadPcs
<1>2. Dialogue /\ Provided => CleanStartProvisions
  <2> SUFFICES ASSUME Provided, op = "start", pc = "idle", clean, ~garbled, NEW s \in Slots
               PROVE  slot[s].key = OwnKey(s)
    BY DEF CleanStartProvisions
  <2>1. PICK j \in 1..3 : KeyOf[j].id = s
    BY KeyList
  <2> QED BY <2>1, KeyList DEF Provided
<1> QED BY <1>1, <1>2, DialogueHolds, ProvidedKept, PTL DEF Spec

-----------------------------------------------------------------------------
\* HSM_EraseKeys, when every call works.

Erasing ==
    op = "erase" /\ clean =>
        /\ pc \in ErasePcs \ {"initRng"} => rng
        /\ pc \in ErasePcs \ {"initRng", "getId"} => uid
        /\ pc \in {"plainK", "dbgChal", "dbgMac"} => k1 = Derive(g_authIdKey, "debug")
        /\ pc \in {"dbgChal", "dbgMac"} => ram = k1
        /\ pc = "dbgAuth" => mac.by = Derive(g_authIdKey, "debug") /\ mac.id = "debug" /\ mac.uid

LEMMA ErasingKept ==
    Dialogue /\ Erasing /\ CleanEraseErases /\ [Next]_vars => Erasing' /\ CleanEraseErases'
<1> SUFFICES ASSUME Dialogue, Erasing, CleanEraseErases, [Next]_vars
             PROVE  Erasing' /\ CleanEraseErases'
  OBVIOUS
<1>0. ASSUME op' # "erase" \/ pc' = "off" PROVE Erasing' /\ CleanEraseErases'
  BY <1>0 DEF Erasing, CleanEraseErases, ErasePcs
<1>1. CASE Start \/ Reset
  BY <1>0, <1>1 DEF Start, Reset
<1>2. CASE Load
  BY <1>0, <1>2 DEF Load, DeriveK1, DeriveK2, PlainK1, PlainK2, LoadPlainKey, Encrypt,
                GenerateMac, LoadKey, LoadPcs, Dialogue, Control
<1>3. CASE EraseKeys
  BY <1>3 DEF EraseKeys, Erasing, CleanEraseErases, ErasePcs
<1>4. CASE UNCHANGED vars
  BY <1>4 DEF vars, module, locals, Erasing, CleanEraseErases
<1>5. CASE EraseStep
  <2>0. pc \in ErasePcs /\ op = "erase" /\ op' = "erase"
    BY <1>5 DEF EraseStep, InitRng, GetId, PlainAuth, VerifyMac, DeriveK, PlainK,
                LoadPlainKey, DbgChal, DbgMac, DbgAuth, ErasePcs, Dialogue, Control
  <2>1. ASSUME Fails, Return(FALSE) PROVE Erasing' /\ CleanEraseErases'
    BY <2>1 DEF Fails, Return, Erasing, CleanEraseErases
  <2>2. ASSUME Fails, pc' # "idle" PROVE Erasing' /\ CleanEraseErases'
    BY <2>2 DEF Fails, Erasing, CleanEraseErases
  <2>3. CASE InitRng \/ GetId \/ PlainAuth \/ VerifyMac \/ DeriveK
    <3>1. CASE Fails
      BY <2>2, <2>3, <3>1 DEF InitRng, GetId, PlainAuth, VerifyMac, DeriveK
    <3>2. CASE ~Fails
      <4>1. Works
        BY <2>3, <3>2 DEF InitRng, GetId, PlainAuth, VerifyMac, DeriveK, DerivesFrom
      <4> QED BY <2>0, <2>3, <3>2, <4>1
              DEF InitRng, GetId, PlainAuth, VerifyMac, DeriveK, DerivesFrom, Works,
                  Erasing, CleanEraseErases, ErasePcs, module, locals
    <3> QED BY <3>1, <3>2
  <2>4. CASE PlainK \/ DbgChal \/ DbgMac
    <3>1. CASE Fails /\ Return(FALSE)
      BY <2>1, <3>1
    <3>2. CASE Works /\ pc' # "idle"
      BY <2>0, <2>4, <3>2
         DEF PlainK, DbgChal, DbgMac, LoadPlainKey, AfterFailure, Return, Mac, Works,
             Erasing, CleanEraseErases, ErasePcs, module, locals
    <3>3. CASE DbgChal /\ Works /\ ~rng /\ Return(FALSE)
      BY <2>0, <3>3 DEF DbgChal, Works, Return, Erasing, CleanEraseErases, ErasePcs
    <3> QED BY <2>4, <3>1, <3>2, <3>3 DEF PlainK, DbgChal, DbgMac, LoadPlainKey, AfterFailure
  <2>5. CASE DbgAuth
    <3>1. CASE Fails /\ Return(FALSE)
      BY <2>1, <3>1
    <3>2. CASE Works /\ Erases /\ Return(TRUE)
      <4>1. \A s \in Slots : slot'[s] = Blank
        BY <3>2 DEF Erases
      <4>2. slot'[MASTER].key # g_authIdKey
        BY <4>1, KeyNames, Counting
      <4>3. pc' = "idle"
        BY <2>0, <3>2 DEF Return
      <4> QED BY <4>1, <4>2, <4>3 DEF Erasing, CleanEraseErases, ErasePcs
    <3>3. CASE Works /\ ~Authentic /\ Return(FALSE) /\ UNCHANGED <<slot, garbled>>
      <4>1. clean' => slot[MASTER].key # g_authIdKey
        BY <2>0, <2>5, <3>3 DEF DbgAuth, Works, Authentic, Erasing
      <4> QED BY <2>0, <3>3, <4>1 DEF Return, Erasing, CleanEraseErases, ErasePcs
    <3> QED BY <2>5, <3>1, <3>2, <3>3 DEF DbgAuth
  <2> QED BY <1>5, <2>3, <2>4, <2>5 DEF EraseStep
<1> QED BY <1>1, <1>2, <1>3, <1>4, <1>5 DEF Next

(* HSM_EraseKeys erases the keys when every call works and the master key  *)
(* is the one it knows, and reports success only when all keys are gone.   *)
THEOREM CleanErase == Spec => []CleanEraseErases
<1>1. Init => Erasing /\ CleanEraseErases
  BY DEF Init, Erasing, CleanEraseErases
<1> QED BY <1>1, DialogueHolds, ErasingKept, PTL DEF Spec
=============================================================================
