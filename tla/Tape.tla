---------------------------------- MODULE Tape ----------------------------------
(*****************************************************************************)
(* A tape device of crates/core/src/vm/devices: the ring (annular_tape.rs),  *)
(* optionally behind the strict-cells decorator (strict_tape.rs), which      *)
(* refuses to write the symbol a cell already holds.  Tapes are values; the  *)
(* operators give the tape after a command.                                  *)
(*****************************************************************************)
EXTENDS Integers

CONSTANTS
  RingSize,      \* cells of a tape
  AlphabetSize   \* symbols are 0..AlphabetSize-1

ASSUME TapeAssumption ==
  RingSize \in Nat \ {0} /\ AlphabetSize \in Nat \ {0}

Cells   == 0..RingSize-1
Symbols == 0..AlphabetSize-1
Tapes   == [cells : [Cells -> Symbols], head : Cells, strict : BOOLEAN]

TapeLeft(t)  == [t EXCEPT !.head = IF @ = 0 THEN RingSize - 1 ELSE @ - 1]
TapeRight(t) == [t EXCEPT !.head = IF @ = RingSize - 1 THEN 0 ELSE @ + 1]
TapeRead(t)  == t.cells[t.head]

\* What a write of index faults with, "none" when it goes through.
WriteFault(t, index) ==
  IF index \notin Symbols THEN "IndexOutsideAlphabet"
  ELSE IF t.strict /\ TapeRead(t) = index THEN "StrictCellViolation"
  ELSE "none"
TapeWrite(t, index) ==
  IF WriteFault(t, index) = "none"
  THEN [t EXCEPT !.cells[t.head] = index] ELSE t

=============================================================================
