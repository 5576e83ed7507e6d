------------------------------ MODULE MCGwEcu -------------------------------
(* Values for the instance of GwEcu: the status UPDATING (3), and a byte     *)
(* whose upper half a field of four bits cannot hold.                       *)
EXTENDS GwEcu
MCWide == {ECU_STAT_UPDATING, 17}
MCAll == Requests
=============================================================================
