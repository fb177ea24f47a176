---------------------------- MODULE MCEventStream ----------------------------
(* Small instances of EventStream: one stream, or two so that a page can   *)
(* reconnect; a channel of one event, so that it overflows at once.        *)
EXTENDS EventStream

CONSTANTS t1, t2
=============================================================================
