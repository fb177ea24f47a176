---------------------------- MODULE MCPlayerLock ----------------------------
(* Three tabs, one of them in the background.  A unit of time is five      *)
(* seconds: the lock lives three of them and is renewed every one.         *)
EXTENDS PlayerLock

CONSTANTS a, b, c
=============================================================================
