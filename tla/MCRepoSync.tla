----------------------------- MODULE MCRepoSync -----------------------------
(* Two base files, so that the upload can stop half way.                   *)
EXTENDS RepoSync

MCItems == {"main.js", "config.js"}

\* The hash of the first configuration is small enough for hash-2 to wrap.
MChashOf == [c \in Confs |-> 5 * c - 4]
=============================================================================
