---------------------------- MODULE MCXcanStack -----------------------------
(* Values for the instances of XcanStack that TLC checks: two devices and   *)
(* two slots, so that ids collide, and a score smaller than the number of   *)
(* frames that can wait.                                                    *)
EXTENDS XcanStack

CONSTANTS d1, d2

MCDevs == {d1, d2}

(* What devloop_out expects of dev->send: 0 when the frame was sent.        *)
MCContract == {[sent |-> TRUE, rc |-> 0], [sent |-> FALSE, rc |-> -1]}

(* A driver that can send whenever it is asked to.                         *)
MCAlwaysSends == {[sent |-> TRUE, rc |-> 0]}

(* prv_send of the SocketCAN driver returns what write() returned.          *)
MCSocketCAN == {[sent |-> TRUE, rc |-> 16], [sent |-> FALSE, rc |-> -1]}
=============================================================================
