----------------------------- MODULE MCHostJob ------------------------------
(***************************************************************************)
(* Small jobs for TLC without the remote memory access: all PEs on one     *)
(* host, or the last one on a host of its own.  The application allocates, *)
(* frees and allocates an array in the place of what it freed.             *)
(***************************************************************************)
EXTENDS HostJob

OneHost == [p \in PE |-> "a"]
TwoHosts == [p \in PE |-> IF p = NPes - 1 THEN "b" ELSE "a"]

MCRequests == <<Malloc(4), Free(1), Calloc(2, 2), Align(4, 2)>>
=============================================================================
