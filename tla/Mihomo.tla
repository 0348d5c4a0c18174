------------------------------- MODULE Mihomo -------------------------------
(* Mihomo as simplusd runs it: the process and its configurations, and the *)
(* installation of its binary.                                             *)
EXTENDS MihomoRuntime, CoreInstall

(* The record never names another configuration than the one that runs; a  *)
(* restart that fails, and is not cut short itself, has put the old one    *)
(* back, if its files are still there and it did not die; the core that    *)
(* current.json names is there, and a failed installation can be repeated, *)
(* two installations of one version and a crash halfway apart              *)
(* (RuntimeManager, CoreManager).                                          *)
MihomoIsSafe == RuntimeIsSafe /\ CoreIsSafe
=============================================================================
