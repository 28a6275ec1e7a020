---------------------------- MODULE MCSupervisor ----------------------------
(* Instances of Supervisor: two games, and either keys that only move the *)
(* view and quit, or those plus a version key.                            *)
EXTENDS Supervisor

MCGameIds == {"g1", "g2"}
MCKeysViewOnly == {"tab", "q"}
MCKeysWithVersion == {"tab", "]", "q"}
=============================================================================
