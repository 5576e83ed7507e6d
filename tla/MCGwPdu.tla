------------------------------ MODULE MCGwPdu -------------------------------
(* A small instance of GwPdu: queues that fill up, and a heap that has room *)
(* for them, for a PDU in every task and for two payloads that updates have *)
(* forgotten - not for a third.                                             *)
EXTENDS GwPdu
MCHeapSize == PDU_QUEUE_SIZE + GW_QUEUE_SIZE + FW_QUEUE_SIZE + 3 + 2
=============================================================================
