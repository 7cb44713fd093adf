---------------------------------- MODULE Bands ---------------------------------
(*****************************************************************************)
(* Tapes and what a frame shows of them (crates/core/src/vm/core.rs,         *)
(* virt_symbol and phys_symbol): the operations on tapes that a program      *)
(* with bound calls and the image made of it have in common.                 *)
(*                                                                           *)
(* A frame is a sequence of views [phys, read, write]: read is a function    *)
(* from the symbols of the physical tape, write one from the symbols of the  *)
(* routine's own alphabet, and both may send a symbol to a hole.             *)
(*****************************************************************************)
EXTENDS Integers, Sequences

CONSTANT Ring   \* cells of a tape, in a circle

Trapped  == -1   \* what a hole shows, Hole of Bindings
Keep     == -2   \* a tape a vector leaves alone
Wildcard == -3   \* a cell of a row every symbol matches

NoTranslation(arity, cards) ==
  [k \in 1..arity |-> [phys |-> k, read  |-> [s \in 0..cards[k]-1 |-> s],
                                   write |-> [s \in 0..cards[k]-1 |-> s]]]

\* A hand-written descriptor is absolute; an empty table translates nothing.
Absolute(desc, machine, callee) ==
  [k \in DOMAIN desc |->
     [phys  |-> desc[k].phys,
      read  |-> IF desc[k].rmap = <<>> THEN [s \in 0..machine[desc[k].phys]-1 |-> s]
                                       ELSE desc[k].rmap,
      write |-> IF desc[k].wmap = <<>> THEN [s \in 0..callee[k]-1 |-> s]
                                       ELSE desc[k].wmap]]

\* The symbol a pair, the blank, or equal alphabets give for s.
ReadsAs(pairs, same, s) ==
  IF \E p \in pairs : p.src = s THEN (CHOOSE p \in pairs : p.src = s).dst
  ELSE IF s = 0 \/ same THEN s ELSE Trapped
WritesAs(pairs, same, s) ==
  LET both == {p \in pairs : ~p.oneWay}
  IN  IF \E p \in both : p.dst = s THEN (CHOOSE p \in both : p.dst = s).src
      ELSE IF s = 0 \/ same THEN s ELSE Trapped

\* What a callee sees through a binding of the frame it is called under.
Through(frame, binding, caller, callee) ==
  [k \in DOMAIN binding |->
     LET view  == frame[binding[k].tape]
         pairs == binding[k].pairs
         same  == caller[binding[k].tape] = callee[k]
     IN  [phys  |-> view.phys,
          read  |-> [s \in DOMAIN view.read |->
                       IF view.read[s] = Trapped THEN Trapped
                       ELSE ReadsAs(pairs, same, view.read[s])],
          write |-> [s \in 0..callee[k]-1 |->
                       IF WritesAs(pairs, same, s) = Trapped THEN Trapped
                       ELSE view.write[WritesAs(pairs, same, s)]]]]

------------------------------------------------------------------------------
Under(tape) == tape.cells[tape.head]
Put(tape, s) == [tape EXCEPT !.cells[tape.head] = s]
Shift(tape, by) == [tape EXCEPT !.head = (@ + by) % Ring]

\* A vector of symbols, or of moves, for the tapes a frame places.
WriteAll(ts, frame, symbols) ==
  [t \in DOMAIN ts |->
     LET here == {k \in DOMAIN symbols : frame[k].phys = t /\ symbols[k] # Keep}
     IN  IF here = {} THEN ts[t]
         ELSE LET of == CHOOSE k \in here : TRUE
              IN  Put(ts[t], frame[of].write[symbols[of]])]
MoveAll(ts, frame, moves) ==
  [t \in DOMAIN ts |->
     LET here == {k \in DOMAIN moves : frame[k].phys = t}
     IN  IF here = {} THEN ts[t] ELSE Shift(ts[t], moves[CHOOSE k \in here : TRUE])]

\* The first row that matches what is read.
Fits(row, seen) == \A k \in DOMAIN row.cells : row.cells[k] \in {Wildcard, seen[k]}
Matches(rows, seen) == {i \in DOMAIN rows : Fits(rows[i], seen)}
FirstMatch(rows, seen) ==
  CHOOSE i \in Matches(rows, seen) : \A j \in Matches(rows, seen) : i <= j

=============================================================================
