----------------------------- MODULE MCHistory ------------------------------
(* The instances of MCWallet with the times of the history added. *)
EXTENDS MCWallet, History
=============================================================================
