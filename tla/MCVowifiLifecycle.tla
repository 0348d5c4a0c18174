------------------------- MODULE MCVowifiLifecycle -------------------------
(* Small instances of VowifiLifecycle.                                     *)
EXTENDS VowifiLifecycle
=============================================================================
