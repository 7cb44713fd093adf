-------------------------------- MODULE MCLinker --------------------------------
(*****************************************************************************)
(* Instance of Linker for TLC: short programs of two to four routines with   *)
(* every combination of a few bindings between alphabets of two and three    *)
(* symbols, on one tape and on two.                                          *)
(*****************************************************************************)
EXTENDS Linker

Pair(s, d)  == [src |-> s, dst |-> d, oneWay |-> FALSE]
Reads(s, d) == [src |-> s, dst |-> d, oneWay |-> TRUE]
Swap   == {Pair(1, 2), Pair(2, 1)}
On(t, pairs) == [tape |-> t, pairs |-> pairs]
One(pairs)   == <<On(1, pairs)>>

Write(w)        == [op |-> "wrmv", w |-> w, mv |-> [k \in DOMAIN w |-> 0]]
WriteGo(w, mv)  == [op |-> "wrmv", w |-> w, mv |-> mv]
Row0(cells, to) == [cells |-> cells, to |-> to]
Select(rows)    == [op |-> "match", rows |-> rows]
IfAny(rows)     == [op |-> "branch", rows |-> rows]
CallTo(r)       == [op |-> "call", to |-> r]
JumpTo(r)       == [op |-> "tail", to |-> r]
BoundTo(r, b)   == [op |-> "bound", to |-> r, binding |-> b]
RawTo(r, d)     == [op |-> "raw", to |-> r, desc |-> d]
Ret == [op |-> "ret"]
Stp == [op |-> "stop"]
R(cards, code) == [cards |-> cards, code |-> code]
Program(rs)    == [routines |-> rs]

\* A routine on one tape that does something else for every symbol.
Leaf(c) ==
  R(<<c>>, <<Select(<<Row0(<<1>>, 2)>> \o (IF c = 3 THEN <<Row0(<<2>>, 4)>> ELSE <<>>)
                      \o <<Row0(<<Wildcard>>, 6)>>),
             WriteGo(<<c - 1>>, <<1>>), Ret, Write(<<1>>), Ret, WriteGo(<<Keep>>, <<1>>), Ret>>)
\* A routine that calls another and looks at the tape when it is back.
Middle(c, call) ==
  R(<<c>>, <<call, Select(<<Row0(<<0>>, 4), Row0(<<1>>, 3), Row0(<<Wildcard>>, 4)>>),
             Write(<<0>>), WriteGo(<<1>>, <<1>>), Ret>>)
Main(cards, calls) == R(cards, calls \o <<Stp>>)

Between(c, d) ==
  CASE c = 3 /\ d = 3 -> {{}, Swap, {Reads(1, 2)}, {Reads(2, 0)}}
    [] c = 3 /\ d = 2 -> {{}, {Pair(1, 1)}, {Pair(2, 1), Reads(1, 1)}, {Pair(1, 1), Reads(2, 0)}}
    [] c = 2 /\ d = 3 -> {{}, {Pair(1, 1)}, {Pair(1, 2)}}
    [] c = 2 /\ d = 2 -> {{}, {Reads(1, 0)}}

Chains ==
  UNION {{Program(<<Main(<<3>>, <<BoundTo(2, One(b1))>>),
                    Middle(c, BoundTo(3, One(b2))), Leaf(d)>>)
            : b1 \in Between(3, c), b2 \in Between(c, d)} : c, d \in {2, 3}}
\* One routine under two frames, called with and without a binding.
Shared ==
  {Program(<<Main(<<3>>, <<BoundTo(2, One(b1)), CallTo(2), BoundTo(2, One(b2))>>),
             Middle(3, BoundTo(3, One(b3))), Leaf(3)>>)
     : b1, b2, b3 \in {{Reads(1, 2)}, Swap, {}}}
\* Routines that call themselves, or each other, through a binding.
Again(to, b) ==
  R(<<3>>, <<Select(<<Row0(<<1>>, 2), Row0(<<Wildcard>>, 3)>>),
             BoundTo(to, One(b)), Write(<<1>>), Ret>>)
OneWay == {{Reads(1, 2)}, {Reads(2, 1)}, {Reads(2, 0)}}
Recursive ==
  {Program(<<Main(<<3>>, <<BoundTo(2, One(b1))>>), Again(2, b2)>>)
     : b1 \in Between(3, 3), b2 \in OneWay}
  \cup
  {Program(<<Main(<<3>>, <<BoundTo(2, One(b1))>>), Again(3, b2), Again(2, b3)>>)
     : b1, b2, b3 \in OneWay}
\* Two tapes placed crosswise, or one of them on the other.
Both(call) ==
  R(<<2, 3>>, <<Select(<<Row0(<<0, 1>>, 2), Row0(<<1, 2>>, 3), Row0(<<Wildcard, 2>>, 4),
                         Row0(<<Wildcard, Wildcard>>, 5)>>),
                WriteGo(<<1, Keep>>, <<0, 1>>), WriteGo(<<Keep, 1>>, <<1, 0>>),
                Write(<<0, 0>>), call, Ret>>)
Crossed ==
  {Program(<<Main(<<3, 2>>, <<BoundTo(2, <<On(2, b1), On(1, b2)>>)>>),
             Both(BoundTo(3, <<On(t, b3)>>)), Leaf(2)>>)
     : b1 \in {{}, {Reads(1, 0)}}, b2 \in {{}, Swap, {Reads(1, 2)}}, t \in {1, 2},
       b3 \in {{Pair(1, 1)}, {}}}
\* Tail calls, branches, descriptors written by hand, and bindings to refuse.
Looks(rows, to) == R(<<2>>, <<IfAny(<<Row0(rows, 3)>>), Write(<<1>>), Ret>>)
Others ==
  {Program(<<Main(<<3>>, <<BoundTo(2, One(b))>>),
             R(<<c>>, <<Write(<<1>>), JumpTo(3)>>), Leaf(c)>>) : b \in {{}, {Pair(1, 1)}}, c \in {2, 3}}
  \cup
  {Program(<<Main(<<c>>, <<BoundTo(2, One(b))>>), Looks(<<1>>, 3)>>)
     : b \in {{}, {Pair(1, 1)}}, c \in {2, 3}}
  \cup
  {Program(<<Main(<<3>>, <<BoundTo(2, One(b)), RawTo(2, <<[phys |-> 1, rmap |-> <<>>, wmap |-> m]>>)>>),
             Leaf(3)>>)
     : b \in {{}, Swap, {Reads(1, 2)}}, m \in {<<>>, [s \in 0..2 |-> IF s = 2 THEN Hole ELSE s]}}
  \cup
  {Program(<<Main(<<3>>, <<BoundTo(2, b)>>), Leaf(3)>>)
     : b \in {One({Pair(1, 2)}), One({Pair(0, 1)}), One({Pair(1, 0)}),
              One({Pair(1, 2), Pair(2, 2)}), One({Pair(1, 3)})}}
  \cup
  {Program(<<Main(<<3>>, <<BoundTo(2, <<On(1, {}), On(1, Swap)>>)>>),
             R(<<3, 3>>, <<Write(<<1, 2>>), Ret>>)>>)}

\* Three bindings that undo each other: the routine in the middle is back at
\* the machine's own frame, and binds again.
Nested ==
  {Program(<<Main(<<3>>, <<BoundTo(2, One(Swap))>>), Middle(3, BoundTo(3, One(Swap))),
             Middle(3, BoundTo(4, One(Swap))), Leaf(3)>>)}

MCPrograms == Chains \cup Shared \cup Recursive \cup Crossed \cup Others
MCInputs(p) ==
  {ts \in [DOMAIN p.routines[1].cards -> [cells : [0..Ring-1 -> 0..2], head : {0}]] :
     \A t \in DOMAIN ts : \A c \in 0..Ring-1 : ts[t].cells[c] < p.routines[1].cards[t]}
=============================================================================
