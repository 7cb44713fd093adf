--------------------------------- MODULE LineMap --------------------------------
(*****************************************************************************)
(* The address <-> line index over a map sidecar (crates/core/src/linemap.rs).*)
(* A map is a set of function records; the sorted vectors and binary         *)
(* searches of the code are replaced by what they select.                    *)
(*****************************************************************************)
EXTENDS Integers, FiniteSets

NoLine == -1
NoAddr == -1
NoFile == "none"
Nowhere == [function |-> "none", line |-> NoLine, first |-> NoLine, source |-> NoFile]

\* The pair of a set of <<offset, line>> pairs with the greatest offset.
Last(pairs)  == CHOOSE p \in pairs : \A q \in pairs : q[1] <= p[1]
First(pairs) == CHOOSE p \in pairs : \A q \in pairs : p[1] <= q[1]
LineOf(pairs, Pick(_)) == IF pairs = {} THEN NoLine ELSE Pick(pairs)[2]

HasSources(map) == \E f \in map : f.source # NoFile

\* LineIndex::resolve.  The candidate is the function with the greatest start
\* at or below the address; it may end before it.
Resolve(map, addr) ==
  LET below == {f \in map : f.start <= addr} IN
  IF below = {} THEN Nowhere
  ELSE LET f == CHOOSE g \in below : \A h \in below : h.start <= g.start IN
       IF addr >= f.end THEN Nowhere
       ELSE [function |-> f.name,
             line     |-> LineOf({p \in f.lines : p[1] <= addr}, Last),
             first    |-> LineOf(f.lines, First),
             source   |-> f.source]

\* The position stepping compares: the function and the line together.
Position(map, addr) ==
  LET loc == Resolve(map, addr) IN <<loc.function, loc.line>>

\* LineIndex::address_for_line: the smallest line at or after the one asked
\* for, then its smallest offset, in one file or in all of them (NoFile).
AddressForLine(map, line, file) ==
  LET found == {p \in UNION {f.lines : f \in {g \in map :
                                file = NoFile \/ g.source = file}} : p[2] >= line}
      best  == {p \in found : \A q \in found : p[2] <= q[2]}
  IN  IF found = {} THEN NoAddr ELSE First(best)[1]

=============================================================================
