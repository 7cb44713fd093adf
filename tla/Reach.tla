---------------------------------- MODULE Reach ---------------------------------
(*****************************************************************************)
(* What a graph reaches.  The linker walks the calls of functions in three   *)
(* places, each with a queue and a mark per function: resolve's walk from    *)
(* the entry, identity_world and prune_unreachable (crates/core/src/linker/  *)
(* resolve.rs, stamp.rs).                                                    *)
(*****************************************************************************)
EXTENDS Naturals, FiniteSets

\* Where the edges of a finite set lead from r.
ReachOf(edges, r) ==
  LET n == Cardinality(edges)
      reach[k \in 0..n] ==
        IF k = 0 THEN {r}
        ELSE LET before == reach[k - 1]
             IN  before \cup {e[2] : e \in {x \in edges : x[1] \in before}}
  IN  reach[n]
=============================================================================
