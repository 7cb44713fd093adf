---------------------------------- MODULE Rows ----------------------------------
(*****************************************************************************)
(* The rows of a match table: the order the assembler's table has them in    *)
(* (crates/turing-machine/src/codegen.rs, emitted_row_order), and when one   *)
(* row makes another needless (optimizer/dead_rows.rs).                      *)
(*****************************************************************************)
EXTENDS Bands, FiniteSets

IsWild(cells)  == \A k \in DOMAIN cells : cells[k] = Wildcard
IsExact(cells) == \A k \in DOMAIN cells : cells[k] # Wildcard

\* Exact rows first, sorted; then the partial ones, then the catch-alls, both
\* in source order.
Band(cells) == IF IsExact(cells) THEN 1 ELSE IF IsWild(cells) THEN 3 ELSE 2
RowLess(a, b) == \E k \in DOMAIN a : a[k] < b[k] /\ \A j \in 1..k-1 : a[j] = b[j]
Precedes(rules, i, j) ==
  LET a == rules[i].cells  b == rules[j].cells IN
  \/ Band(a) < Band(b)
  \/ Band(a) = Band(b) /\ IF IsExact(a) /\ a # b THEN RowLess(a, b) ELSE i < j
EmittedOrder(rules) ==
  [k \in DOMAIN rules |->
     CHOOSE i \in DOMAIN rules :
       Cardinality({j \in DOMAIN rules : Precedes(rules, j, i)}) = k - 1]

Covers(a, b)   == \A k \in DOMAIN a : a[k] \in {Wildcard, b[k]}
Disjoint(a, b) == \E k \in DOMAIN a : Wildcard \notin {a[k], b[k]} /\ a[k] # b[k]

\* An earlier row of the same band matches whatever this one does.
ShadowedRows(rules) ==
  {k \in DOMAIN rules : \E j \in 1..k-1 :
     /\ Band(rules[j].cells) = Band(rules[k].cells)
     /\ Covers(rules[j].cells, rules[k].cells)}

\* Writing back the symbol a row has matched keeps it; but a volatile band
\* sees the write.
SameWriteAnywhere(r, other, k, volatile) ==                        \* mutant
  \/ r.write[k] = other.write[k]
  \/ {r.write[k], other.write[k]} = {Keep, r.cells[k]}
SameWrite(r, other, k, volatile) ==
  \/ r.write[k] = other.write[k]
  \/ ~volatile[k] /\ {r.write[k], other.write[k]} = {Keep, r.cells[k]}
SameEffect(r, other, volatile) ==
  /\ r.to = other.to /\ r.moves = other.moves
  /\ \A k \in DOMAIN volatile : SameWrite(r, other, k, volatile)

\* Of rows in emitted order, those that a later one can stand for: it does the
\* same wherever this one would, and none between them would take it.
IsPlain(r) == ~r.debugger /\ ~r.synthesized
StandsFor(rows, volatile, q, p) ==
  /\ p < q /\ IsPlain(rows[p]) /\ IsPlain(rows[q])
  /\ Covers(rows[q].cells, rows[p].cells)
  /\ SameEffect(rows[p], rows[q], volatile)
  /\ \A m \in p+1..q-1 : Disjoint(rows[m].cells, rows[p].cells)
SubsumedRows(rows, volatile) ==
  {p \in DOMAIN rows : \E q \in DOMAIN rows : StandsFor(rows, volatile, q, p)}
=============================================================================
