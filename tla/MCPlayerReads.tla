--------------------------- MODULE MCPlayerReads ---------------------------
(* An instance of PlayerReads: one request that writes and one that reads  *)
(* side by side, from a full room on.                                      *)
EXTENDS MCServer, PlayerReads

FullReadInit == FullInit /\ ReadInit
FullReadSpec == FullReadInit /\ [][ReadNext]_<<vars, readVars>>
=============================================================================
