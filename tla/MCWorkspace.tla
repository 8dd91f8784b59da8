---------------------------- MODULE MCWorkspace -----------------------------
(***************************************************************************)
(* Workspace with two comments on one task, by the owner of the team and   *)
(* by the viewer.                                                          *)
(***************************************************************************)
EXTENDS Workspace

CONSTANTS t1

MCComments == {[author |-> u, on |-> t1] : u \in {Owner, Viewer}}
=============================================================================
