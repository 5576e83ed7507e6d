------------------------------ MODULE MCSdCard ------------------------------
(* Values for the instance of SdCard.  The versions on the card and those   *)
(* the ECUs report overlap; there may be no file, an unbroken row of them,  *)
(* or one behind a gap, and one ECU has no directory at the beginning.      *)
EXTENDS SdCard
MCVersions == {1, 2}
MCFirmware == {[e \in Ecus |-> IF e = 0 THEN v ELSE {}] : v \in {{}, {1, 2}, {2, 3, 5}}}
=============================================================================
