---------------------------- MODULE MCCredCache ----------------------------
(***************************************************************************)
(* The TLC instance of CredCache.  Requests, clients and the sentinels are *)
(* model values; CacheSize is 1 instead of 128, fewer than the clients, so *)
(* that an Add evicts the other client's entry.  Each request runs once,   *)
(* which bounds made.                                                      *)
(***************************************************************************)
EXTENDS CredCache, TLC
============================================================================
