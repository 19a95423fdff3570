------------------------------- MODULE MCNode -------------------------------
(* Programs on a node that use two services, one of them imported, from    *)
(* two CPUs and one source port at a time.                                 *)
EXTENDS Node

=============================================================================
