------------------------------- MODULE SdCard -------------------------------
(***************************************************************************)
(* _old/Framework/interfaces/sdhc/sdhc.c: the copy of ecu_list on the SD   *)
(* card, one file per ECU in a directory of its own, and the search for    *)
(* the latest firmware next to it.  One task calls it; the gateway task    *)
(* changes ecu_list meanwhile, and the power may go at any time.           *)
(*                                                                         *)
(* An ECU is its fw_version here, the one field the code looks at.         *)
(* The file system is not part of the repository.  A call of it may fail,  *)
(* once or from then on (the card was taken out, or gave up) until power   *)
(* is lost and may be back with another card; f_open with FA_CREATE_ALWAYS *)
(* empties the file, and f_close gives it the size of what was written.    *)
(***************************************************************************)
EXTENDS Integers, FiniteSets

CONSTANTS NUM_OF_ECUS,
          Versions,   \* versions an ECU may report
          Firmware,   \* firmware files there may be: sets of versions per ECU
          MaxErrors,  \* bound: failing calls, those of a broken card apart
          MaxCrashes  \* bound: losses of power

ASSUME SdAssumption ==
    /\ NUM_OF_ECUS \in Nat \ {0} /\ Versions \subseteq 0..255 /\ 1 \in Versions
    /\ Firmware \subseteq [0..(NUM_OF_ECUS - 1) -> SUBSET (0..255)]
    /\ MaxErrors \in Nat /\ MaxCrashes \in Nat

Ecus == 0..(NUM_OF_ECUS - 1)
NoFile == -2
Empty == -1

VARIABLES ecu_list,  \* fw_version of every ECU, in RAM
          dir,       \* the ECUs whose directory exists
          file,      \* <ecu>/<ecu>.bin: NoFile, Empty or the version in it
          fw,        \* the versions of the firmware files of every ECU
          pc,        \* the next call of the file system, "idle" or "off"
          op,        \* the operation of the module that makes it
          cur,       \* ecu_id, or the loop variable over the ECUs
          ver, base, \* ver_pointer, current_ecu_ver of SD_openLatestFW
          res,       \* what the last operation returned
          written,   \* history: what SD_storeECU wrote last
          broken,    \* every call of the file system fails
          clean,     \* history: no call failed since the power is on
          errors, crashes \* counters for the bounds

card  == <<dir, file, fw, written>>
search == <<ver, base>>
faults == <<broken, clean, errors, crashes>>
vars == <<ecu_list, card, pc, op, cur, search, res, faults>>

DefaultVersion == 1  \* ecu_table.c

Init ==
    /\ ecu_list = [e \in Ecus |-> DefaultVersion]
    /\ fw \in Firmware /\ dir = {e \in Ecus : fw[e] # {}}
    /\ file = [e \in Ecus |-> NoFile] /\ written = file
    /\ pc = "off" /\ op = "start" /\ cur = 0 /\ ver = 0 /\ base = 0 /\ res = "none"
    /\ broken = FALSE /\ clean = TRUE /\ errors = 0 /\ crashes = 0

(* A call of the file system works, or fails: by itself, which may be the  *)
(* first time of many, or because the card is broken.                      *)
Works == ~broken /\ UNCHANGED <<broken, errors, clean>>
Fails ==
    /\ clean' = FALSE
    /\ \/ errors < MaxErrors /\ errors' = errors + 1 /\ broken' \in {broken, TRUE}
       \/ broken /\ UNCHANGED <<broken, errors>>

-----------------------------------------------------------------------------
\* Mutated forms of the definitions below, used by the mutants of the project.
MoreToStore_OneTooMany == op # "store" /\ cur + 1 <= NUM_OF_ECUS
MakeDir_Dropped == Works /\ UNCHANGED dir
Written_NotClosed == Works /\ UNCHANGED file
ReadsECU_AnyFile(e) == Works /\ e \in dir /\ file[e] # NoFile
NextVersion_SameAgain == ver
LastVersion_NotBack == ver
-----------------------------------------------------------------------------
\* SD_initialise

(* The RAM is initialised again when the power is back, with a card that   *)
(* works or with the broken one.                                           *)
PowerOn ==
    /\ pc = "off" /\ pc' = "mount" /\ op' = "start"
    /\ ecu_list' = [e \in Ecus |-> DefaultVersion]
    /\ clean' = TRUE /\ broken' \in {broken, FALSE}
    /\ UNCHANGED <<card, cur, search, res, errors, crashes>>

(* SD_initCard; when it fails SD_initialise ends, and says nothing.        *)
Mount ==
    /\ pc = "mount"
    /\ \/ Works /\ pc' = "mkdir" /\ cur' = 0 /\ res' = "SUCCESS"
       \/ Fails /\ pc' = "idle" /\ UNCHANGED <<cur, res>>
    /\ UNCHANGED <<ecu_list, card, op, search, crashes>>

-----------------------------------------------------------------------------
\* SD_storeECU and SD_storeAllECU (which SD_initialise calls, too)

StoreECU(e) ==
    /\ pc = "idle" /\ pc' = "mkdir" /\ op' = "store" /\ cur' = e /\ res' = "SUCCESS"
    /\ UNCHANGED <<ecu_list, card, search, faults>>

StoreAllECU ==
    /\ pc = "idle" /\ pc' = "mkdir" /\ op' = "storeAll" /\ cur' = 0 /\ res' = "SUCCESS"
    /\ UNCHANGED <<ecu_list, card, search, faults>>

MoreToStore == op # "store" /\ cur + 1 < NUM_OF_ECUS

(* SD_storeECU returns: to its caller, or to the loop of SD_storeAllECU,   *)
(* which remembers an error and goes on.                                   *)
StoreReturns(status) ==
    /\ res' = IF status = "ERROR" THEN "ERROR" ELSE res
    /\ IF MoreToStore THEN cur' = cur + 1 /\ pc' = "mkdir"
       ELSE pc' = "idle" /\ UNCHANGED cur

\* Its result is overwritten by the next one.
MakeDir == (Works /\ dir' = dir \cup {cur}) \/ (Fails /\ UNCHANGED dir)
Mkdir ==
    /\ pc = "mkdir" /\ pc' = "create" /\ MakeDir
    /\ UNCHANGED <<ecu_list, file, fw, written, op, cur, search, res, crashes>>

(* A file that cannot be opened is not an error for SD_storeECU.           *)
Create ==
    /\ pc = "create"
    /\ \/ /\ Works /\ cur \in dir /\ file' = [file EXCEPT ![cur] = Empty]
          /\ pc' = "write" /\ UNCHANGED <<cur, res>>
       \/ Works /\ cur \notin dir /\ StoreReturns("SUCCESS") /\ UNCHANGED file
       \/ Fails /\ StoreReturns("SUCCESS") /\ UNCHANGED file
    /\ UNCHANGED <<ecu_list, dir, fw, written, op, search, crashes>>

(* Too few bytes written is an error, and the file is not closed.          *)
Write ==
    /\ pc = "write"
    /\ \/ /\ Works /\ written' = [written EXCEPT ![cur] = ecu_list[cur]]
          /\ pc' = "close" /\ UNCHANGED <<cur, res>>
       \/ Fails /\ StoreReturns("ERROR") /\ UNCHANGED written
    /\ UNCHANGED <<ecu_list, dir, file, fw, op, search, crashes>>

\* The result of f_close is not looked at.
Written == Works /\ file' = [file EXCEPT ![cur] = written[cur]]
Close ==
    /\ pc = "close" /\ StoreReturns("SUCCESS")
    /\ Written \/ (Fails /\ UNCHANGED file)
    /\ UNCHANGED <<ecu_list, dir, fw, written, op, search, crashes>>

-----------------------------------------------------------------------------
(* SD_loadECU and SD_loadAllECU.  f_open, f_read and f_close of one file   *)
(* are one step: they leave the card as it is, and a store cannot come in  *)
(* between, as it is the same task that would call it.                     *)

Whole(e) == file[e] \in Versions

\* What f_read finds: too few bytes are an error, and leave ecu_list alone.
ReadsECU(e) == Works /\ e \in dir /\ Whole(e)

LoadECU(e) ==
    /\ pc = "idle" /\ op' = "load" /\ cur' = e
    /\ \/ ReadsECU(e) /\ ecu_list' = [ecu_list EXCEPT ![e] = file[e]] /\ res' = "SUCCESS"
       \/ /\ Fails \/ (Works /\ ~Whole(e))
          /\ res' = "ERROR" /\ UNCHANGED ecu_list
    /\ UNCHANGED <<card, pc, search, crashes>>

LoadAllECU ==
    /\ pc = "idle" /\ pc' = "loadAll" /\ op' = "loadAll" /\ cur' = 0 /\ res' = "SUCCESS"
    /\ UNCHANGED <<ecu_list, card, search, faults>>

Missing(e) == e \in dir /\ file[e] = NoFile  \* FR_NO_FILE, not FR_NO_PATH

(* One turn of while(1): the file that is opened is always the one of      *)
(* current_ecu, as it is next_ecu that is counted up.                      *)
LoadNext ==
    /\ pc = "loadAll"
    /\ \/ /\ ReadsECU(cur) /\ ecu_list' = [ecu_list EXCEPT ![cur] = file[cur]]
          /\ UNCHANGED pc
       \/ Works /\ Missing(cur) /\ pc' = "idle" /\ UNCHANGED ecu_list
       \/ /\ Fails \/ (Works /\ ~Whole(cur) /\ ~Missing(cur))
          /\ UNCHANGED <<ecu_list, pc>>
    /\ UNCHANGED <<card, op, cur, search, res, crashes>>

-----------------------------------------------------------------------------
\* SD_openLatestFW

OpenLatestFW(e) ==
    /\ pc = "idle" /\ pc' = "search" /\ op' = "search" /\ cur' = e /\ res' = "none"
    /\ base' = ecu_list[e] /\ ver' = ecu_list[e] + 1
    /\ UNCHANGED <<ecu_list, card, faults>>

NextVersion == ver + 1
LastVersion == ver - 1

(* One turn of while(1): only FR_NO_FILE ends it.  FR_NO_PATH, where there *)
(* is no directory, and the errors of a call that fails have it try again. *)
SearchNext ==
    /\ pc = "search"
    /\ \/ Works /\ ver \in fw[cur] /\ ver' = NextVersion /\ UNCHANGED pc
       \/ Works /\ cur \in dir /\ ver \notin fw[cur] /\ ver' = LastVersion /\ pc' = "open"
       \/ Works /\ cur \notin dir /\ UNCHANGED <<ver, pc>>
       \/ Fails /\ UNCHANGED <<ver, pc>>
    /\ UNCHANGED <<ecu_list, card, op, cur, base, res, crashes>>

(* SD_openFW of the version that was found last, or of the current one.    *)
OpenFW ==
    /\ pc = "open" /\ pc' = "idle"
    /\ \/ /\ Works
          /\ res' = IF ver >= base /\ ver \in fw[cur] THEN "FR_OK" ELSE "FR_NO_FILE"
       \/ Fails /\ res' = "FR_DISK_ERR"
    /\ UNCHANGED <<ecu_list, card, op, cur, search, crashes>>

-----------------------------------------------------------------------------
(* GW_parsePDU stores the version an ECU reports in ecu_list.              *)
Report(e, v) ==
    /\ pc # "off" /\ ecu_list' = [ecu_list EXCEPT ![e] = v]
    /\ UNCHANGED <<card, pc, op, cur, search, res, faults>>

(* The power goes: the card keeps what it has.                             *)
Crash ==
    /\ pc # "off" /\ crashes < MaxCrashes /\ crashes' = crashes + 1
    /\ pc' = "off"
    /\ UNCHANGED <<ecu_list, card, op, cur, search, res, broken, errors, clean>>

Step == PowerOn \/ Mount \/ Mkdir \/ Create \/ Write \/ Close \/ LoadNext \/ SearchNext \/ OpenFW

Next ==
    \/ Step \/ Crash \/ StoreAllECU \/ LoadAllECU
    \/ \E e \in Ecus : \/ StoreECU(e) \/ LoadECU(e) \/ OpenLatestFW(e)
                       \/ \E v \in Versions : Report(e, v)

(* An operation that was called runs on.                                   *)
Spec == Init /\ [][Next]_vars
FairSpec == Spec /\ WF_vars(Step)

-----------------------------------------------------------------------------
TypeOK ==
    /\ ecu_list \in [Ecus -> Versions] /\ fw \in Firmware
    /\ file \in [Ecus -> Versions \cup {NoFile, Empty}]
    /\ written \in [Ecus -> Versions \cup {NoFile}] /\ dir \subseteq Ecus
    /\ pc \in {"off", "mount", "mkdir", "create", "write", "close", "idle",
               "loadAll", "search", "open"}
    /\ op \in {"start", "store", "storeAll", "load", "loadAll", "search"} /\ cur \in Ecus
    /\ ver \in 0..256 /\ base \in 0..255
    /\ res \in {"none", "SUCCESS", "ERROR", "FR_OK", "FR_NO_FILE", "FR_DISK_ERR"}
    /\ broken \in BOOLEAN /\ clean \in BOOLEAN /\ errors \in 0..MaxErrors /\ crashes \in 0..MaxCrashes

Storing(e) == op \in {"start", "store", "storeAll"} /\ pc \in {"write", "close"} /\ cur = e
Started == pc # "off" /\ (op = "start" => pc = "idle")

(* Whatever earlier crashes and errors left on the card, a start without   *)
(* errors makes it good: every directory is there, and every file is whole *)
(* or about to be written again.                                           *)
RestartRepairs ==
    Started /\ clean => dir = Ecus /\ \A e \in Ecus : Whole(e) \/ Storing(e)

(* Each loss of power and each failing call costs the copy of one ECU at   *)
(* most, and a card that breaks no more than the call it broke in:         *)
(* SD_storeECU empties one file at a time and fills it again.              *)
EachFaultCostsOne ==
    Cardinality({e \in Ecus : file[e] = Empty /\ ~Storing(e)}) <= errors + crashes

(* A load that succeeds brings back what was written last, and one that    *)
(* fails leaves the ECU alone, though the file may be missing, empty, or   *)
(* written by a store that did not get to its end.                         *)
LoadGivesWritten ==
    [][\A e \in Ecus : LoadECU(e) =>
          ecu_list'[e] = IF res' = "SUCCESS" THEN written[e] ELSE ecu_list[e]]_vars

(* The firmware that is opened is the last of an unbroken row of versions  *)
(* that starts with the one the ECU had when the search began, even if the *)
(* ECU reports another one meanwhile; with no newer one it is the current  *)
(* one again.  None is found only if neither that nor the next one exists. *)
LatestFound ==
    op = "search" /\ pc = "idle" =>
        /\ res = "FR_OK" => /\ ver >= base /\ (base + 1)..ver \subseteq fw[cur]
                           /\ ver \in fw[cur] /\ ver + 1 \notin fw[cur]
        /\ res = "FR_NO_FILE" => fw[cur] \cap {base, base + 1} = {}

(* The search for firmware ends, whatever calls fail in between, unless    *)
(* its error lasts: the card is broken, or the ECU has no directory, which *)
(* is FR_NO_PATH, not FR_NO_FILE.  Only an earlier error can have brought  *)
(* that about (of SD_initCard, or of f_mkdir, which nobody looks at).  In  *)
(* both cases it tries again for ever and its caller, who is promised an   *)
(* FRESULT (sdhc.c:235), is not told.                                      *)
LatestEnds == pc = "search" ~> (pc # "search" \/ broken \/ (cur \notin dir /\ ~clean))

-----------------------------------------------------------------------------
(* "Load all ECUs found on SD card into RAM buffer", "@return :            *)
(* STATUS_SUCCESS, STATUS_ERROR" (sdhc.c:139-140): SD_loadAllECU returns.  *)
(* Violated with a whole file on a card without errors: it is loaded again *)
(* and again, the other ECUs never are.                                    *)
LoadAllReturns == pc = "loadAll" ~> pc # "loadAll"
=============================================================================
