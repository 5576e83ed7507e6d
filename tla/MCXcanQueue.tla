---------------------------- MODULE MCXcanQueue -----------------------------
(* Two queues that share three frames: q1 without a limit (what             *)
(* xcan_device_init sets up), q2 limited to two frames.                     *)
EXTENDS XcanQueue

CONSTANTS q1, q2, f1, f2, f3

MCQueues == {q1, q2}
MCFrames == {f1, f2, f3}
MCMaxFrames == [q \in MCQueues |-> IF q = q1 THEN 0 ELSE 2]
=============================================================================
