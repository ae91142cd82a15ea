---------------------------- MODULE MCStateDirLock ----------------------------
(* StateDirLock on a small instance: processes of one host. *)
EXTENDS StateDirLock

MCHostOf == [p \in Processes |-> 1]
===============================================================================
