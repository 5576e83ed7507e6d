---------------------------- MODULE MCGwFirmware ----------------------------
(* Values for the instances of GwFirmware: a random number whose first byte *)
(* happens to be the one of an acknowledgement, and the networks.           *)
EXTENDS GwFirmware
CONSTANTS e1, e2
MCEcus == {e1, e2}
MCRandom == {"other", "FRAME_ACK"}

OneLate == [ecus |-> {e1}, can |-> {e1}, late |-> TRUE, maxUpdates |-> 7, maxLost |-> 0]
TwoLate == [ecus |-> {e1, e2}, can |-> {e1, e2}, late |-> TRUE, maxUpdates |-> 3, maxLost |-> 0]
TwoPrompt == [ecus |-> {e1, e2}, can |-> {e1, e2}, late |-> FALSE, maxUpdates |-> 3, maxLost |-> 2]
OneOnLin == [ecus |-> {e1, e2}, can |-> {e1}, late |-> FALSE, maxUpdates |-> 3, maxLost |-> 1]
LateLossy == [ecus |-> {e1, e2}, can |-> {e1, e2}, late |-> TRUE, maxUpdates |-> 3, maxLost |-> 1]
MCNetworks == {OneLate, TwoLate, TwoPrompt, OneOnLin, LateLossy}
MCOneUpdate == {[OneLate EXCEPT !.maxUpdates = 1]}
=============================================================================
