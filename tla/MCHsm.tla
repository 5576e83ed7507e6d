------------------------------- MODULE MCHsm --------------------------------
(* Values for the instance of Hsm: a message that is decrypted with the     *)
(* wrong key yields a counter below or above the one it was made with.      *)
EXTENDS Hsm
MCJunkCounters == {1, 4}
=============================================================================
