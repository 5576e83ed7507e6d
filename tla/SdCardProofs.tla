----------------------------- MODULE SdCardProofs -----------------------------
(***************************************************************************)
(* Proofs about SdCard, for any number of ECUs, any versions and any       *)
(* number of failing calls and losses of power: what the card holds after  *)
(* a start, what the faults cost, what a load brings back, and which       *)
(* firmware is found.  What is written to a file reaches it when it is     *)
(* closed: until then it is empty, and that is what the faults leave.      *)
(***************************************************************************)
EXTENDS SdCard, FiniteSetTheorems, TLAPS

StorePcs == {"mkdir", "create", "write", "close"}

(* Which operation is running tells the next call of the file system.      *)
Operations ==
    /\ pc \in StorePcs => op \in {"start", "store", "storeAll"}
    /\ pc \in {"search", "open"} => op = "search"
    /\ pc = "loadAll" => op = "loadAll"
    /\ pc = "mount" => op = "start"

(* A file is empty between f_open and f_close; otherwise it has what was   *)
(* written to it last.                                                     *)
FileContents ==
    /\ pc \in {"write", "close"} => file[cur] = Empty
    /\ pc = "close" => written[cur] \in Versions
    /\ \A e \in Ecus : Whole(e) => file[e] = written[e]

(* A start without errors has repaired the ECUs before cur.                *)
Repaired(e) == e \in dir /\ Whole(e)
StartRepairs ==
    op = "start" /\ pc \in StorePcs /\ clean =>
        /\ \A e \in Ecus : e < cur => Repaired(e)
        /\ pc # "mkdir" => cur \in dir

(* Between base and ver there is firmware for every version.               *)
Searching ==
    /\ pc = "search" => ver >= base + 1 /\ \A v \in (base + 1)..(ver - 1) : v \in fw[cur]
    /\ pc = "open" => /\ ver >= base /\ ver + 1 \notin fw[cur]
                      /\ \A v \in (base + 1)..ver : v \in fw[cur]

(* A card that breaks does so in the call that was going to write, not     *)
(* after an f_open that emptied the file: it empties no other one.         *)
DeadCard == broken => pc \notin {"write", "close"}

IInv == /\ TypeOK /\ Operations /\ FileContents /\ StartRepairs /\ RestartRepairs
        /\ Searching /\ LatestFound /\ DeadCard

-----------------------------------------------------------------------------
LEMMA Constants ==
    /\ NUM_OF_ECUS \in Nat \ {0} /\ Ecus \subseteq Nat /\ 0 \in Ecus
    /\ \A v \in Versions : v \in 0..255 /\ v # NoFile /\ v # Empty
    /\ NoFile # Empty /\ DefaultVersion \in Versions
    /\ \A e \in Ecus, f \in Firmware : f[e] \subseteq 0..255
    /\ MaxErrors \in Nat /\ MaxCrashes \in Nat
<1>1. NUM_OF_ECUS \in Nat \ {0} /\ MaxErrors \in Nat /\ MaxCrashes \in Nat
  BY SdAssumption
<1>2. Ecus \subseteq Nat /\ 0 \in Ecus
  BY <1>1 DEF Ecus
<1>3. \A v \in Versions : v \in 0..255 /\ v # NoFile /\ v # Empty
  BY SdAssumption DEF NoFile, Empty
<1>4. NoFile # Empty /\ DefaultVersion \in Versions
  BY SdAssumption DEF NoFile, Empty, DefaultVersion
<1>5. \A e \in Ecus, f \in Firmware : f[e] \subseteq 0..255
  BY SdAssumption, ZenonT(40) DEF Ecus
<1> QED BY <1>1, <1>2, <1>3, <1>4, <1>5

LEMMA Numbers ==
    /\ \A e \in Ecus : e \in Nat /\ e >= 0
    /\ \A e, f \in Ecus : e < f + 1 => e < f \/ e = f
    /\ \A v \in Versions : v \in Nat
BY SdAssumption DEF Ecus

LEMMA InitIInv == Init => IInv
<1> SUFFICES ASSUME Init PROVE IInv
  OBVIOUS
<1>1. TypeOK
  <2>1. ecu_list \in [Ecus -> Versions]
    BY Constants DEF Init
  <2>2. file \in [Ecus -> Versions \cup {NoFile, Empty}] /\ written \in [Ecus -> Versions \cup {NoFile}]
    BY DEF Init
  <2>3. clean \in BOOLEAN /\ broken \in BOOLEAN
    BY DEF Init
  <2>4. cur \in Ecus /\ errors \in 0..MaxErrors /\ crashes \in 0..MaxCrashes
    BY Constants DEF Init
  <2> QED BY <2>1, <2>2, <2>3, <2>4 DEF Init, TypeOK
<1>2. Operations /\ StartRepairs /\ RestartRepairs /\ Searching /\ LatestFound /\ DeadCard
  BY DEF Init, Operations, DeadCard, StartRepairs, RestartRepairs, Started, Searching, LatestFound, StorePcs
<1>3. FileContents
  BY Constants DEF Init, FileContents, Whole
<1> QED BY <1>1, <1>2, <1>3 DEF IInv

-----------------------------------------------------------------------------
(* A call that fails counts an error, unless the card was broken before.   *)
LEMMA ErrorsCount ==
    /\ Works => errors' = errors
    /\ Fails => \/ errors < MaxErrors /\ errors' = errors + 1
                \/ broken /\ errors' = errors
BY ZenonT(30) DEF Works, Fails

LEMMA FaultTypes ==
    ASSUME TypeOK, Works \/ Fails
    PROVE  errors' \in 0..MaxErrors /\ clean' \in BOOLEAN /\ broken' \in BOOLEAN
<1>1. errors' \in 0..MaxErrors
  <2>1. errors \in 0..MaxErrors /\ MaxErrors \in Nat
    BY Constants DEF TypeOK
  <2>2. errors' = errors \/ (errors < MaxErrors /\ errors' = errors + 1)
    BY ErrorsCount
  <2> QED BY <2>1, <2>2
<1>2. clean' \in BOOLEAN
  BY DEF Works, Fails, TypeOK
<1>3. broken' \in BOOLEAN
  BY DEF Works, Fails, TypeOK
<1> QED BY <1>1, <1>2, <1>3

(* SD_storeECU returns to its caller or goes on with the next ECU.         *)
LEMMA Returning ==
    ASSUME TypeOK, NEW s \in {"SUCCESS", "ERROR"}, StoreReturns(s)
    PROVE  /\ cur' \in Ecus /\ res' \in {res, "ERROR"}
           /\ \/ pc' = "idle" /\ cur' = cur /\ (op # "store" => cur = NUM_OF_ECUS - 1)
              \/ pc' = "mkdir" /\ cur' = cur + 1
BY Constants DEF TypeOK, StoreReturns, MoreToStore, Ecus

LEMMA TypesKept == IInv /\ [Next]_vars => TypeOK'
<1> SUFFICES ASSUME IInv, [Next]_vars PROVE TypeOK'
  OBVIOUS
<1> USE DEF IInv
<1>1. CASE PowerOn
  BY <1>1, Constants DEF PowerOn, TypeOK, card, search
<1>2. CASE Mount
  BY <1>2, FaultTypes, Constants DEF Mount, TypeOK, card, search
<1>3. CASE Mkdir
  <2>1. dir' \subseteq Ecus /\ (Works \/ Fails)
    BY <1>3 DEF Mkdir, MakeDir, TypeOK
  <2> QED BY <1>3, <2>1, FaultTypes DEF Mkdir, TypeOK, search
<1>4. CASE Create \/ Write \/ Close
  <2>1. Works \/ Fails
    BY <1>4 DEF Create, Write, Close, Written
  <2>2. /\ file' \in [Ecus -> Versions \cup {NoFile, Empty}]
        /\ written' \in [Ecus -> Versions \cup {NoFile}]
    BY <1>4 DEF Create, Write, Close, Written, TypeOK
  <2>3. UNCHANGED <<ecu_list, dir, fw, op, ver, base, crashes>>
    BY <1>4 DEF Create, Write, Close, search
  <2>4. \/ pc' \in {"write", "close"} /\ UNCHANGED <<cur, res>>
        \/ StoreReturns("SUCCESS") \/ StoreReturns("ERROR")
    BY <1>4 DEF Create, Write, Close
  <2>5. /\ pc' \in {"write", "close", "mkdir", "idle"}
        /\ cur' \in Ecus /\ res' \in {res, "ERROR"}
    BY <2>4, Returning DEF TypeOK
  <2> QED BY <2>1, <2>2, <2>3, <2>5, FaultTypes DEF TypeOK
<1>5. CASE LoadNext
  <2>1. Works \/ Fails
    BY <1>5 DEF LoadNext, ReadsECU
  <2>2. ecu_list' \in [Ecus -> Versions]
    BY <1>5 DEF LoadNext, ReadsECU, Whole, TypeOK
  <2>3. pc' \in {pc, "idle"}
    BY <1>5 DEF LoadNext
  <2> QED BY <1>5, <2>1, <2>2, <2>3, FaultTypes DEF LoadNext, TypeOK, card, search
<1>6. CASE SearchNext
  <2>1. (Works \/ Fails) /\ pc' \in {"search", "open"}
    BY <1>6 DEF SearchNext
  <2>2. ver' \in 0..256
    <3>1. cur \in Ecus /\ fw \in Firmware /\ ver \in 0..256 /\ base \in 0..255
      BY DEF TypeOK
    <3>2. ver >= base + 1
      BY <1>6 DEF SearchNext, Searching
    <3>3. ver \in fw[cur] => ver \in 0..255
      BY <3>1, Constants
    <3>4. ver \in 1..256 /\ (ver \in fw[cur] => ver <= 255)
      BY <3>1, <3>2, <3>3
    <3> QED BY <1>6, <3>4 DEF SearchNext, NextVersion, LastVersion
  <2> QED BY <1>6, <2>1, <2>2, FaultTypes DEF SearchNext, TypeOK, card
<1>7. CASE OpenFW
  BY <1>7, FaultTypes DEF OpenFW, TypeOK, card, search
<1>8. CASE Crash
  BY <1>8, Constants DEF Crash, TypeOK, card, search
<1>9. CASE StoreAllECU \/ LoadAllECU
  <2>1. cur' \in Ecus
    BY <1>9, Constants DEF StoreAllECU, LoadAllECU
  <2> QED BY <1>9, <2>1 DEF StoreAllECU, LoadAllECU, TypeOK, card, search, faults
<1>10. ASSUME NEW e \in Ecus, StoreECU(e) PROVE TypeOK'
  BY <1>10 DEF StoreECU, TypeOK, card, search, faults
<1>11. ASSUME NEW e \in Ecus, LoadECU(e) PROVE TypeOK'
  <2>1. Works \/ Fails
    BY <1>11 DEF LoadECU, ReadsECU
  <2>2. ecu_list' \in [Ecus -> Versions]
    BY <1>11 DEF LoadECU, ReadsECU, Whole, TypeOK
  <2> QED BY <1>11, <2>1, <2>2, FaultTypes DEF LoadECU, TypeOK, card, search
<1>12. ASSUME NEW e \in Ecus, OpenLatestFW(e) PROVE TypeOK'
  <2>1. ecu_list[e] \in 0..255
    <3>1. ecu_list[e] \in Versions
      BY DEF TypeOK
    <3> QED BY <3>1, Constants
  <2> QED BY <1>12, <2>1 DEF OpenLatestFW, TypeOK, card, faults
<1>13. ASSUME NEW e \in Ecus, NEW v \in Versions, Report(e, v) PROVE TypeOK'
  BY <1>13 DEF Report, TypeOK, card, search, faults
<1>14. CASE UNCHANGED vars
  BY <1>14 DEF vars, TypeOK, card, search, faults
<1> QED BY <1>1, <1>2, <1>3, <1>4, <1>5, <1>6, <1>7, <1>8, <1>9, <1>10, <1>11, <1>12,
           <1>13, <1>14 DEF Next, Step

-----------------------------------------------------------------------------
(* The steps of other operations than storing touch neither the card nor   *)
(* the control of a store.                                                 *)
LEMMA CardUntouched ==
    ASSUME IInv, [Next]_vars, ~(Mkdir \/ Create \/ Write \/ Close)
    PROVE  /\ UNCHANGED <<dir, file, fw, written>>
           /\ \/ pc \notin StorePcs \/ pc' = "off"
              \/ UNCHANGED <<pc, cur, op, clean>>
<1>1. UNCHANGED <<dir, file, fw, written>>
  <2>1. CASE \E e \in Ecus : \/ StoreECU(e) \/ LoadECU(e) \/ OpenLatestFW(e)
                            \/ \E v \in Versions : Report(e, v)
    BY <2>1 DEF StoreECU, LoadECU, OpenLatestFW, Report, card
  <2>2. CASE PowerOn \/ Mount \/ LoadNext \/ SearchNext \/ OpenFW \/ Crash \/ StoreAllECU
             \/ LoadAllECU \/ UNCHANGED vars
    BY <2>2 DEF PowerOn, Mount, LoadNext, SearchNext, OpenFW, Crash, StoreAllECU, LoadAllECU,
                vars, card
  <2> QED BY <2>1, <2>2 DEF Next, Step
<1>2. pc \notin StorePcs \/ pc' = "off" \/ UNCHANGED <<pc, cur, op, clean>>
  <2>1. CASE \E e \in Ecus : \/ StoreECU(e) \/ LoadECU(e) \/ OpenLatestFW(e)
                            \/ \E v \in Versions : Report(e, v)
    BY <2>1 DEF StoreECU, LoadECU, OpenLatestFW, Report, StorePcs, faults
  <2>2. CASE PowerOn \/ Mount \/ LoadNext \/ SearchNext \/ OpenFW \/ Crash \/ StoreAllECU
             \/ LoadAllECU \/ UNCHANGED vars
    BY <2>2 DEF PowerOn, Mount, LoadNext, SearchNext, OpenFW, Crash, StoreAllECU, LoadAllECU,
                StorePcs, vars, faults
  <2> QED BY <2>1, <2>2 DEF Next, Step
<1> QED BY <1>1, <1>2

LEMMA OperationsKept == IInv /\ [Next]_vars => Operations'
<1> SUFFICES ASSUME IInv, [Next]_vars PROVE Operations'
  OBVIOUS
<1> USE DEF IInv, Operations, StorePcs
<1>1. CASE PowerOn \/ Mount \/ Mkdir \/ LoadNext \/ SearchNext \/ OpenFW
  BY <1>1 DEF PowerOn, Mount, Mkdir, LoadNext, SearchNext, OpenFW
<1>2. CASE Create \/ Write \/ Close
  <2>1. pc \in StorePcs /\ op' = op
    BY <1>2 DEF Create, Write, Close
  <2>2. pc' \in {"write", "close", "mkdir", "idle"}
    BY <1>2 DEF Create, Write, Close, StoreReturns
  <2> QED BY <2>1, <2>2
<1>3. CASE Crash \/ StoreAllECU \/ LoadAllECU \/ UNCHANGED vars
  BY <1>3 DEF Crash, StoreAllECU, LoadAllECU, vars
<1>4. CASE \E e \in Ecus : \/ StoreECU(e) \/ LoadECU(e) \/ OpenLatestFW(e)
                          \/ \E v \in Versions : Report(e, v)
  BY <1>4 DEF StoreECU, LoadECU, OpenLatestFW, Report
<1> QED BY <1>1, <1>2, <1>3, <1>4 DEF Next, Step

LEMMA ContentsKept == IInv /\ [Next]_vars => FileContents'
<1> SUFFICES ASSUME IInv, [Next]_vars PROVE FileContents'
  OBVIOUS
<1> USE DEF IInv, FileContents
<1>0. cur \in Ecus /\ file \in [Ecus -> Versions \cup {NoFile, Empty}]
      /\ written \in [Ecus -> Versions \cup {NoFile}] /\ ecu_list \in [Ecus -> Versions]
  BY DEF TypeOK
<1>1. CASE ~(Mkdir \/ Create \/ Write \/ Close)
  <2>1. UNCHANGED <<file, written>> /\ (\/ pc \notin StorePcs \/ pc' = "off"
                                      \/ UNCHANGED <<pc, cur>>)
    BY <1>1, CardUntouched
  <2>2. pc \notin StorePcs => pc' \notin {"write", "close"}
    BY <1>1 DEF Next, Step, PowerOn, Mount, LoadNext, SearchNext, OpenFW, Crash, StoreAllECU,
                LoadAllECU, StoreECU, LoadECU, OpenLatestFW, Report, vars, StorePcs
  <2> QED BY <2>1, <2>2 DEF Whole, StorePcs
<1>2. CASE Mkdir
  BY <1>2 DEF Mkdir, Whole
<1>3. CASE Create
  <2>1. CASE pc' = "write"
    <3>1. file' = [file EXCEPT ![cur] = Empty] /\ UNCHANGED <<cur, written>>
      BY <1>3, <2>1 DEF Create, StoreReturns
    <3> QED BY <1>0, <2>1, <3>1, Constants DEF Whole
  <2>2. CASE pc' # "write"
    <3>1. pc' \notin {"write", "close"} /\ UNCHANGED <<file, written>>
      BY <1>3, <2>2 DEF Create, StoreReturns
    <3> QED BY <3>1 DEF Whole
  <2> QED BY <2>1, <2>2
<1>4. CASE Write
  <2>1. file[cur] = Empty /\ UNCHANGED file
    BY <1>4 DEF Write
  <2>2. CASE pc' = "close"
    <3>1. written' = [written EXCEPT ![cur] = ecu_list[cur]] /\ cur' = cur
      BY <1>4, <2>2 DEF Write, StoreReturns
    <3> QED BY <1>0, <2>1, <2>2, <3>1, Constants DEF Whole
  <2>3. CASE pc' # "close"
    <3>1. pc' \notin {"write", "close"} /\ UNCHANGED written
      BY <1>4, <2>3 DEF Write, StoreReturns
    <3> QED BY <2>1, <3>1 DEF Whole
  <2> QED BY <2>2, <2>3
<1>5. CASE Close
  <2>1. pc' \notin {"write", "close"} /\ UNCHANGED written
    BY <1>5 DEF Close, StoreReturns
  <2>2. file' = file \/ file' = [file EXCEPT ![cur] = written[cur]]
    BY <1>5 DEF Close, Written
  <2> QED BY <1>0, <2>1, <2>2 DEF Whole
<1> QED BY <1>1, <1>2, <1>3, <1>4, <1>5

LEMMA RepairsKept == IInv /\ [Next]_vars => StartRepairs' /\ RestartRepairs'
<1> SUFFICES ASSUME IInv, [Next]_vars PROVE StartRepairs' /\ RestartRepairs'
  OBVIOUS
<1> USE DEF IInv, StartRepairs, RestartRepairs
<1>0. /\ cur \in Ecus /\ file \in [Ecus -> Versions \cup {NoFile, Empty}]
      /\ written \in [Ecus -> Versions \cup {NoFile}] /\ dir \subseteq Ecus
  BY DEF TypeOK
<1>1. ASSUME ~clean' PROVE StartRepairs' /\ RestartRepairs'
  BY <1>1
<1>2. CASE PowerOn \/ Mount \/ Crash
  <2>1. CASE PowerOn
    BY <2>1 DEF PowerOn, Started, StorePcs
  <2>2. CASE Mount
    <3>1. pc = "mount" /\ op = "start" /\ op' = "start"
      BY <2>2 DEF Mount, Operations
    <3>2. CASE ~clean'
      BY <1>1, <3>2
    <3>3. CASE clean'
      <4>1. pc' = "mkdir" /\ cur' = 0
        BY <2>2, <3>3 DEF Mount, Fails
      <4>2. \A e \in Ecus : ~(e < 0)
        BY Numbers
      <4> QED BY <3>1, <4>1, <4>2 DEF Started
    <3> QED BY <3>2, <3>3
  <2>3. CASE Crash
    BY <2>3 DEF Crash, Started, StorePcs
  <2> QED BY <1>2, <2>1, <2>2, <2>3
<1>3. CASE Mkdir
  <2>1. pc = "mkdir" /\ pc' = "create" /\ UNCHANGED <<op, cur, file>>
    BY <1>3 DEF Mkdir
  <2>2. CASE Works /\ dir' = dir \cup {cur}
    BY <1>0, <2>1, <2>2 DEF Works, Started, Storing, Whole, Repaired, StorePcs
  <2>3. CASE Fails
    BY <1>1, <2>3 DEF Fails
  <2> QED BY <1>3, <2>2, <2>3 DEF Mkdir, MakeDir
<1>4. CASE Create
  <2>1. pc = "create" /\ op' = op /\ dir' = dir
    BY <1>4 DEF Create
  <2>2. CASE Fails
    BY <1>1, <2>2 DEF Fails
  <2>3. CASE Works /\ cur \notin dir
    <3>1. ~clean
      BY <1>0, <2>1, <2>3 DEF Started, StorePcs
    <3> QED BY <1>1, <2>3, <3>1 DEF Works
  <2>4. CASE /\ Works /\ cur \in dir /\ file' = [file EXCEPT ![cur] = Empty]
             /\ pc' = "write" /\ cur' = cur
    <3>1. \A e \in Ecus : e # cur => file'[e] = file[e]
      BY <1>0, <2>4
    <3>2. StartRepairs'
      BY <1>0, <2>1, <2>4, <3>1, Constants DEF Works, StorePcs, Whole, Repaired
    <3>3. RestartRepairs'
      BY <1>0, <2>1, <2>4, <3>1 DEF Works, Started, Storing, Whole, Operations, StorePcs
    <3> QED BY <3>2, <3>3
  <2> QED BY <1>4, <2>2, <2>3, <2>4 DEF Create
<1>5. CASE Write
  <2>1. pc = "write" /\ UNCHANGED <<op, dir, file>>
    BY <1>5 DEF Write
  <2>2. CASE Fails
    BY <1>1, <2>2 DEF Fails
  <2>3. CASE Works /\ pc' = "close" /\ cur' = cur
    BY <2>1, <2>3 DEF Works, Started, Storing, Whole, Repaired, StorePcs
  <2> QED BY <1>5, <2>2, <2>3 DEF Write
<1>6. CASE Close
  <2>1. pc = "close" /\ UNCHANGED <<op, dir>>
    BY <1>6 DEF Close
  <2>2. CASE Fails
    BY <1>1, <2>2 DEF Fails
  <2>3. CASE Works /\ file' = [file EXCEPT ![cur] = written[cur]]
    <3>1. \A e \in Ecus : Whole(e) \/ e = cur => Whole(e)'
      BY <1>0, <2>1, <2>3 DEF FileContents, Whole
    <3>2. op \in {"start", "store", "storeAll"}
      BY <2>1 DEF Operations, StorePcs
    <3>3. \/ pc' = "idle" /\ (op # "store" => cur = NUM_OF_ECUS - 1)
          \/ pc' = "mkdir" /\ cur' = cur + 1
      BY <1>6, Returning DEF Close
    <3>4. CASE op = "start"
      <4>1. clean => cur \in dir /\ \A e \in Ecus : e < cur => e \in dir /\ Whole(e)
        BY <2>1, <3>4 DEF StorePcs, Repaired
      <4>2. CASE pc' = "mkdir" /\ cur' = cur + 1
        <5>1. \A e \in Ecus : e < cur + 1 => e < cur \/ e = cur
          BY <1>0, Numbers
        <5> QED BY <2>1, <2>3, <3>1, <3>4, <4>1, <4>2, <5>1 DEF Works, Started, Repaired
      <4>3. CASE pc' = "idle" /\ cur = NUM_OF_ECUS - 1
        <5>1. \A e \in Ecus : e < cur \/ e = cur
          BY <4>3, Constants DEF Ecus
        <5> QED BY <1>0, <2>1, <2>3, <3>1, <3>4, <4>1, <4>3, <5>1 DEF Works, StorePcs
      <4> QED BY <3>3, <3>4, <4>2, <4>3
    <3>5. CASE op # "start"
      <4>1. clean => dir = Ecus /\ \A e \in Ecus : Whole(e) \/ e = cur
        BY <2>1, <3>5 DEF Started, Storing
      <4> QED BY <2>1, <2>3, <3>1, <3>5, <4>1 DEF Works
    <3> QED BY <3>4, <3>5
  <2> QED BY <1>6, <2>2, <2>3 DEF Close, Written
<1>7. CASE \/ \E e \in Ecus : \/ StoreECU(e) \/ LoadECU(e) \/ OpenLatestFW(e)
                              \/ \E v \in Versions : Report(e, v)
           \/ LoadNext \/ SearchNext \/ OpenFW \/ StoreAllECU \/ LoadAllECU \/ UNCHANGED vars
  <2>1. \/ UNCHANGED <<dir, file>> /\ (clean' => clean) /\ pc # "off"
        \/ UNCHANGED vars
    BY <1>7 DEF StoreECU, LoadECU, OpenLatestFW, Report, LoadNext, SearchNext, OpenFW, ReadsECU,
        StoreAllECU, LoadAllECU, Works, Fails, card, faults
  <2>2. \/ UNCHANGED <<pc, op, cur>>
        \/ pc \notin StorePcs \cup {"mount"} /\ Started /\ ~(op' = "start" /\ pc' \in StorePcs)
    BY <1>7 DEF StoreECU, LoadECU, OpenLatestFW, Report, LoadNext, SearchNext, OpenFW,
        StoreAllECU, LoadAllECU, StorePcs, vars, Started, Operations
  <2>3. CASE UNCHANGED <<pc, op, cur>>
    BY <2>1, <2>3 DEF vars, card, faults, Started, Storing, Whole, Repaired
  <2>4. CASE pc \notin StorePcs \cup {"mount"} /\ Started /\ ~(op' = "start" /\ pc' \in StorePcs)
    <3>1. \A e \in Ecus : ~Storing(e)
      BY <2>4 DEF Storing, StorePcs
    <3> QED BY <2>1, <2>4, <3>1 DEF vars, card, faults, Whole
  <2> QED BY <2>2, <2>3, <2>4
<1> QED BY <1>2, <1>3, <1>4, <1>5, <1>6, <1>7 DEF Next, Step

LEMMA SearchKept == IInv /\ [Next]_vars => Searching' /\ LatestFound'
<1> SUFFICES ASSUME IInv, [Next]_vars PROVE Searching' /\ LatestFound'
  OBVIOUS
<1> USE DEF IInv, Searching
<1>0. ver \in 0..256 /\ base \in 0..255
  BY DEF TypeOK
<1>1. CASE SearchNext
  <2>1. pc = "search" /\ UNCHANGED <<cur, base, fw>>
    BY <1>1 DEF SearchNext, card
  <2>2. CASE ver \in fw[cur] /\ ver' = ver + 1 /\ pc' = "search"
    BY <1>0, <2>1, <2>2 DEF LatestFound
  <2>3. CASE ver \notin fw[cur] /\ ver' = ver - 1 /\ pc' = "open"
    BY <1>0, <2>1, <2>3 DEF LatestFound
  <2>4. CASE UNCHANGED <<ver, pc>>
    BY <2>1, <2>4 DEF LatestFound
  <2> QED BY <1>1, <2>1, <2>2, <2>3, <2>4 DEF SearchNext, NextVersion, LastVersion
<1>2. CASE OpenFW
  <2>1. pc = "open" /\ pc' = "idle" /\ UNCHANGED <<cur, base, ver, fw>>
    BY <1>2 DEF OpenFW, card, search
  <2>2. /\ res' = "FR_OK" => ver \in fw[cur]
        /\ res' = "FR_NO_FILE" => ver \notin fw[cur]
    BY <1>0, <1>2, <2>1 DEF OpenFW
  <2>3. res' = "FR_NO_FILE" => ver = base
    BY <1>0, <2>1, <2>2
  <2> QED BY <1>0, <2>1, <2>2, <2>3 DEF LatestFound
<1>3. ASSUME NEW e \in Ecus, OpenLatestFW(e) PROVE Searching' /\ LatestFound'
  <2>1. PICK b \in Nat : b = ecu_list[e]
    BY Numbers DEF TypeOK
  <2>2. base' = b /\ ver' = b + 1 /\ pc' = "search"
    BY <1>3, <2>1 DEF OpenLatestFW
  <2>3. \A v \in (b + 1)..((b + 1) - 1) : FALSE
    OBVIOUS
  <2> QED BY <2>2, <2>3 DEF LatestFound
<1>4. CASE Mkdir \/ Create \/ Write \/ Close
  <2>1. op \in {"start", "store", "storeAll"} /\ op' = op
    BY <1>4 DEF Mkdir, Create, Write, Close, Operations, StorePcs
  <2>2. pc' \notin {"search", "open"}
    BY <1>4 DEF Mkdir, Create, Write, Close, StoreReturns
  <2> QED BY <2>1, <2>2 DEF LatestFound
<1>5. CASE PowerOn \/ Mount \/ Crash \/ StoreAllECU \/ LoadAllECU \/ LoadNext
           \/ \E e \in Ecus : StoreECU(e) \/ LoadECU(e)
  BY <1>5 DEF PowerOn, Mount, Crash, StoreAllECU, LoadAllECU, LoadNext, StoreECU, LoadECU,
              LatestFound, Operations
<1>6. CASE UNCHANGED vars \/ \E e \in Ecus, v \in Versions : Report(e, v)
  <2>1. UNCHANGED <<pc, op, cur, ver, base, res, fw>>
    BY <1>6 DEF vars, Report, card, search
  <2> QED BY <2>1 DEF LatestFound
<1> QED BY <1>1, <1>2, <1>3, <1>4, <1>5, <1>6 DEF Next, Step

(* A file is emptied, and written, only by a call that worked.             *)
LEMMA DeadCardKept == IInv /\ [Next]_vars => DeadCard'
<1> SUFFICES ASSUME IInv, [Next]_vars PROVE DeadCard'
  OBVIOUS
<1> USE DEF IInv, DeadCard
<1>1. CASE Create
  BY <1>1 DEF Create, Works, StoreReturns
<1>2. CASE Write
  BY <1>2 DEF Write, Works, StoreReturns
<1>3. CASE Close
  BY <1>3 DEF Close, StoreReturns
<1>4. CASE PowerOn \/ Mount \/ Mkdir \/ LoadNext \/ SearchNext \/ OpenFW
  BY <1>4 DEF PowerOn, Mount, Mkdir, LoadNext, SearchNext, OpenFW
<1>5. CASE Crash \/ StoreAllECU \/ LoadAllECU \/ UNCHANGED vars
  BY <1>5 DEF Crash, StoreAllECU, LoadAllECU, vars, faults
<1>6. CASE \E e \in Ecus : \/ StoreECU(e) \/ LoadECU(e) \/ OpenLatestFW(e)
                          \/ \E v \in Versions : Report(e, v)
  BY <1>6 DEF StoreECU, LoadECU, OpenLatestFW, Report, faults
<1> QED BY <1>1, <1>2, <1>3, <1>4, <1>5, <1>6 DEF Next, Step

LEMMA IInvHolds == Spec => []IInv
<1>1. IInv /\ [Next]_vars => IInv'
  BY TypesKept, OperationsKept, ContentsKept, RepairsKept, SearchKept, DeadCardKept DEF IInv
<1> QED BY <1>1, InitIInv, PTL DEF Spec

-----------------------------------------------------------------------------
Lost == {e \in Ecus : file[e] = Empty /\ ~Storing(e)}

LEMMA EcusFinite == IsFiniteSet(Ecus) /\ \A S \in SUBSET Ecus : IsFiniteSet(S)
<1>1. IsFiniteSet(Ecus)
  <2>1. 0 \in Int /\ NUM_OF_ECUS - 1 \in Int
    BY Constants
  <2> QED BY <2>1, FS_Interval DEF Ecus
<1> QED BY <1>1, FS_Subset

(* A step empties no file for good, but one that fails or loses the power  *)
(* gives up the one it was writing, and that failure is a new one.         *)
LEMMA LostInAStep ==
    ASSUME IInv, Next
    PROVE  \/ Lost' \subseteq Lost /\ errors' + crashes' \in {errors + crashes, errors + crashes + 1}
           \/ Lost' \subseteq Lost \cup {cur} /\ errors' + crashes' = errors + crashes + 1
<1> USE DEF IInv
<1>0. /\ errors \in Nat /\ crashes \in Nat /\ cur \in Ecus
      /\ (Works => errors' = errors) /\ (Fails => errors' \in {errors, errors + 1})
      /\ (Fails /\ pc \in {"write", "close"} => errors' = errors + 1)
  <2>1. errors \in Nat /\ crashes \in Nat /\ cur \in Ecus
    BY Constants DEF TypeOK
  <2>2. Fails => errors' \in {errors, errors + 1}
    BY ErrorsCount
  <2>3. Fails /\ pc \in {"write", "close"} => errors' = errors + 1
    BY ErrorsCount, Zenon DEF DeadCard
  <2> QED BY <2>1, <2>2, <2>3, ErrorsCount
<1>a. pc \in StorePcs => op \in {"start", "store", "storeAll"}
  BY DEF Operations
<1>1. CASE Create
  <2>1. UNCHANGED <<op, crashes>> /\ pc \notin {"write", "close"}
    BY <1>1 DEF Create
  <2>2. CASE Works /\ file' = [file EXCEPT ![cur] = Empty] /\ pc' = "write" /\ cur' = cur
    <3>1. \A e \in Ecus : e # cur => file'[e] = file[e]
      BY <2>2 DEF TypeOK
    <3>2. Lost' \subseteq Lost
      BY <1>0, <1>1, <1>a, <2>1, <2>2, <3>1 DEF Create, Lost, Storing, StorePcs
    <3> QED BY <1>0, <2>1, <2>2, <3>2
  <2>3. CASE (Works \/ Fails) /\ UNCHANGED file
    <3>1. Lost' \subseteq Lost
      BY <2>1, <2>3 DEF Lost, Storing
    <3> QED BY <1>0, <2>1, <2>3, <3>1
  <2> QED BY <1>1, <2>2, <2>3 DEF Create
<1>2. CASE Write
  <2>1. UNCHANGED <<op, crashes, file>> /\ pc = "write" /\ op \in {"start", "store", "storeAll"}
    BY <1>2, <1>a DEF Write, StorePcs
  <2>2. CASE Works /\ pc' = "close" /\ cur' = cur
    <3>1. Lost' \subseteq Lost
      BY <2>1, <2>2 DEF Lost, Storing
    <3> QED BY <1>0, <2>1, <2>2, <3>1
  <2>3. CASE Fails
    <3>1. Lost' \subseteq Lost \cup {cur}
      BY <2>1 DEF Lost, Storing
    <3> QED BY <1>0, <2>1, <2>3, <3>1
  <2> QED BY <1>2, <2>2, <2>3 DEF Write
<1>3. CASE Close
  <2>1. UNCHANGED <<op, crashes>> /\ pc = "close" /\ op \in {"start", "store", "storeAll"}
    BY <1>3, <1>a DEF Close, StorePcs
  <2>2. CASE Written
    <3>1. file'[cur] # Empty /\ \A e \in Ecus : e # cur => file'[e] = file[e]
      BY <1>0, <2>1, <2>2, Constants DEF Written, FileContents, TypeOK
    <3>2. Lost' \subseteq Lost
      BY <2>1, <3>1 DEF Lost, Storing
    <3> QED BY <1>0, <2>1, <2>2, <3>2 DEF Written
  <2>3. CASE Fails /\ UNCHANGED file
    <3>1. Lost' \subseteq Lost \cup {cur}
      BY <2>1, <2>3 DEF Lost, Storing
    <3> QED BY <1>0, <2>1, <2>3, <3>1
  <2> QED BY <1>3, <2>2, <2>3 DEF Close
<1>4. CASE Crash
  <2>1. Lost' \subseteq Lost \cup {cur}
    BY <1>4 DEF Crash, card, Lost, Storing
  <2> QED BY <1>0, <1>4, <2>1 DEF Crash
<1>5. CASE \/ PowerOn \/ Mount \/ Mkdir \/ LoadNext \/ SearchNext \/ OpenFW
           \/ StoreAllECU \/ LoadAllECU
           \/ \E e \in Ecus : \/ StoreECU(e) \/ LoadECU(e) \/ OpenLatestFW(e)
                              \/ \E v \in Versions : Report(e, v)
  <2>1. crashes' = crashes /\ (errors' = errors \/ errors' = errors + 1)
    BY <1>0, <1>5 DEF PowerOn, Mount, Mkdir, MakeDir, LoadNext, ReadsECU, SearchNext,
          OpenFW, StoreAllECU, LoadAllECU, StoreECU, LoadECU, OpenLatestFW, Report, faults
  <2>2. file' = file
    BY <1>5 DEF PowerOn, Mount, Mkdir, LoadNext, SearchNext, OpenFW, StoreAllECU, LoadAllECU,
          StoreECU, LoadECU, OpenLatestFW, Report, card
  <2>3. \A e \in Ecus : Storing(e) => Storing(e)'
    BY <1>5 DEF PowerOn, Mount, Mkdir, LoadNext, SearchNext, OpenFW, StoreAllECU, LoadAllECU,
          StoreECU, LoadECU, OpenLatestFW, Report, Storing
  <2>4. Lost' \subseteq Lost
    BY <2>2, <2>3 DEF Lost
  <2> QED BY <1>0, <2>1, <2>4
<1> QED BY <1>1, <1>2, <1>3, <1>4, <1>5 DEF Next, Step

LEMMA CostKept == IInv /\ EachFaultCostsOne /\ [Next]_vars => EachFaultCostsOne'
<1> SUFFICES ASSUME IInv, EachFaultCostsOne, [Next]_vars PROVE EachFaultCostsOne'
  OBVIOUS
<1>1. Cardinality(Lost) <= errors + crashes
  BY DEF EachFaultCostsOne, Lost
<1>2. PICK L : L = Lost'
  OBVIOUS
<1>3. SUFFICES Cardinality(L) <= errors' + crashes'
  BY <1>2 DEF EachFaultCostsOne, Lost
<1>4. errors \in Nat /\ crashes \in Nat /\ cur \in Ecus /\ Lost \subseteq Ecus
  BY DEF IInv, TypeOK, Lost
<1>5. IsFiniteSet(Lost) /\ Cardinality(Lost) \in Nat
  BY <1>4, EcusFinite, FS_CardinalityType
<1>6. /\ IsFiniteSet(Lost \cup {cur}) /\ Cardinality(Lost \cup {cur}) \in Nat
      /\ Cardinality(Lost \cup {cur}) <= Cardinality(Lost) + 1
  BY <1>5, FS_AddElement, FS_CardinalityType
<1>7. CASE Next
  <2>1. CASE L \subseteq Lost /\ errors' + crashes' \in {errors + crashes, errors + crashes + 1}
    <3>1. Cardinality(L) <= Cardinality(Lost) /\ Cardinality(L) \in Nat
      BY <1>5, <2>1, FS_Subset, FS_CardinalityType
    <3> QED BY <1>1, <1>4, <1>5, <2>1, <3>1
  <2>2. CASE L \subseteq Lost \cup {cur} /\ errors' + crashes' = errors + crashes + 1
    <3>1. Cardinality(L) <= Cardinality(Lost \cup {cur}) /\ Cardinality(L) \in Nat
      BY <1>6, <2>2, FS_Subset, FS_CardinalityType
    <3> QED BY <1>1, <1>4, <1>5, <1>6, <2>2, <3>1
  <2> QED BY <1>2, <1>7, <2>1, <2>2, LostInAStep
<1>8. CASE UNCHANGED vars
  <2>1. L = Lost /\ errors' = errors /\ crashes' = crashes
    BY <1>2, <1>8 DEF vars, card, faults, Lost, Storing
  <2> QED BY <1>1, <2>1
<1> QED BY <1>7, <1>8

-----------------------------------------------------------------------------
(* Every variable has its type, in every run on any number of ECUs.        *)
THEOREM TypesHold == Spec => []TypeOK
BY IInvHolds, PTL DEF IInv

(* A start without errors repairs what earlier crashes and errors left:    *)
(* SD_initialise stores every ECU again (sdhc.c).                          *)
THEOREM StartsRepair == Spec => []RestartRepairs
BY IInvHolds, PTL DEF IInv

(* What SD_openLatestFW opens is the last of an unbroken row of versions,  *)
(* whatever the ECU reports while it searches.                             *)
THEOREM LatestIsFound == Spec => []LatestFound
BY IInvHolds, PTL DEF IInv

(* However many calls fail and however often the power goes, each costs    *)
(* the copy of one ECU at most: SD_storeECU empties one file at a time.    *)
(* A card that breaks for good counts once.                                *)
THEOREM FaultsCostOne == Spec => []EachFaultCostsOne
<1>1. Init => EachFaultCostsOne
  <2> SUFFICES ASSUME Init PROVE EachFaultCostsOne
    OBVIOUS
  <2>1. {e \in Ecus : file[e] = Empty /\ ~Storing(e)} = {}
    BY DEF Init, NoFile, Empty
  <2>2. Cardinality({}) = 0 /\ errors = 0 /\ crashes = 0
    BY FS_EmptySet DEF Init
  <2>3. 0 <= 0 + 0
    OBVIOUS
  <2> QED BY <2>1, <2>2, <2>3, Zenon DEF EachFaultCostsOne
<1> QED BY <1>1, CostKept, IInvHolds, PTL DEF Spec

(* A load that succeeds brings back what was stored last, one that fails   *)
(* changes nothing (SD_loadECU), after any crashes and errors.             *)
THEOREM LoadsGiveWritten == Spec => LoadGivesWritten
<1>1. ASSUME IInv, NEW e \in Ecus, LoadECU(e)
      PROVE  ecu_list'[e] = IF res' = "SUCCESS" THEN written[e] ELSE ecu_list[e]
  <2>1. ecu_list \in [Ecus -> Versions] /\ (Whole(e) => file[e] = written[e])
    BY <1>1 DEF IInv, TypeOK, FileContents
  <2> QED BY <1>1, <2>1 DEF LoadECU, ReadsECU
<1>2. IInv => [\A e \in Ecus : LoadECU(e) =>
                  ecu_list'[e] = IF res' = "SUCCESS" THEN written[e] ELSE ecu_list[e]]_vars
  BY <1>1
<1> QED BY <1>2, IInvHolds, PTL DEF LoadGivesWritten

(* What a turn of the loop of SD_openLatestFW does: it ends the search, it  *)
(* counts an error, it goes on to a higher version, of which there are 256, *)
(* or its error lasts: the card is broken, or it has found no directory and *)
(* a call has failed before.                                                *)
Nearer ==
    \/ pc' = "open"
    \/ errors' = errors + 1 /\ errors' <= MaxErrors
    \/ ver' = ver + 1 /\ ver' <= 256
    \/ broken \/ (cur \notin dir /\ ~clean)

(* Why LatestEnds holds, and with it what it leaves out: while no error     *)
(* lasts the version grows, up to the width of fw_version, and after a      *)
(* clean start the directory is there.                                      *)
THEOREM SearchAdvances == Spec => [][SearchNext => Nearer]_vars
<1>1. ASSUME IInv, SearchNext
      PROVE  Nearer
  <2>1. /\ cur \in Ecus /\ fw \in Firmware /\ errors \in 0..MaxErrors
        /\ pc = "search" /\ op = "search"
    BY <1>1 DEF IInv, TypeOK, Operations, SearchNext
  <2>2. CASE ver \in fw[cur] /\ ver' = ver + 1
    <3>1. ver \in 0..255
      BY <2>1, <2>2, Constants
    <3> QED BY <2>2, <3>1 DEF Nearer
  <2>3. CASE cur \notin dir
    <3>1. ~clean
      BY <1>1, <2>1, <2>3 DEF IInv, RestartRepairs, Started
    <3> QED BY <2>3, <3>1 DEF Nearer
  <2>4. CASE Fails
    <3>1. errors < MaxErrors /\ errors' = errors + 1 => errors' <= MaxErrors
      BY <2>1, Constants
    <3> QED BY <2>4, <3>1, ErrorsCount, Zenon DEF Nearer
  <2> QED BY <1>1, <2>2, <2>3, <2>4 DEF SearchNext, NextVersion, Nearer
<1>2. IInv => [SearchNext => Nearer]_vars
  BY <1>1
<1> QED BY <1>2, IInvHolds, PTL
=============================================================================
