-------------------------- MODULE MCGracefulShutdown --------------------------
(* Small instances of a server that shuts down. *)
EXTENDS GracefulShutdown, TLC

CONSTANTS r1, r2, p1, p2

Symmetries == Permutations(Commands) \cup Permutations(Probes)
=============================================================================
