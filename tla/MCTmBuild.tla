-------------------------------- MODULE MCTmBuild --------------------------------
(*****************************************************************************)
(* Instance of TmBuild for TLC: families of programs, each rich in the       *)
(* shapes one group of passes looks for.                                     *)
(*****************************************************************************)
EXTENDS TmBuild

Main == <<"main">>
F    == <<"f">>
G    == <<"g">>
No(n) == [k \in 1..n |-> FALSE]
Row(cells, write, moves, to) ==
  [cells |-> cells, write |-> write, moves |-> moves, debugger |-> FALSE, to |-> to,
   synthesized |-> FALSE, direct |-> FALSE]
Breaking(r) == [r EXCEPT !.debugger = TRUE]
Idle(cells, to) == Row(cells, [k \in DOMAIN cells |-> Keep], [k \in DOMAIN cells |-> 0], to)
Else1(to) == Idle(<<Wildcard>>, to)
St(rules) == [rules |-> rules, dispatch |-> "table"]
Wd(name, kind, cards, states) ==
  [name |-> name, kind |-> kind, cards |-> cards, volatile |-> No(Len(cards)),
   entry |-> 1, states |-> states]
Machine(cards, states) == Wd(Main, "machine", cards, states)
Routine(name, cards, states) == Wd(name, "routine", cards, states)
Volatile(w, which) == [w EXCEPT !.volatile = which]
Pass(n) == [k \in 1..n |-> [tape |-> k, pairs |-> {}]]
Ends == {Stop, Halt}

(********************************** devices **********************************)
TapeOf(cells) == [cells |-> [i \in 0..Ring-1 |-> cells[i + 1]], head |-> 0]
Memory(ts)  == Device([k \in DOMAIN ts |-> TapeOf(ts[k])], [k \in DOMAIN ts |-> <<>>])
\* Band k answers, the others are memory.
Band1(a)    == Device(<<TapeOf(<<0, 0>>)>>, <<a>>)
Tapes2      == {Memory(<<t>>) : t \in {<<0, 1>>, <<1, 0>>, <<1, 1>>}}
Tapes3      == {Memory(<<t>>) : t \in {<<0, 1>>, <<1, 2>>, <<2, 0>>}}
TwoTapes    == {Memory(<<t, u>>) : t, u \in {<<0, 1>>, <<1, 1>>}}
Bands3      == {Band1(a) : a \in {<<0, 1, 2>>, <<2, 1>>, <<1, 1, 0, 2>>}}
BandsOf2    == {Band1(a) : a \in {<<0, 1>>, <<1, 1, 0>>, <<0, 0, 1>>}}
FirstBand   == {Device(<<TapeOf(<<0, 0>>), TapeOf(<<1, 0>>)>>, <<a, <<>>>>) :
                  a \in {<<0, 1>>, <<1, 1, 0>>}}

(************************* rows of one state (1, 3 symbols) ******************)
\* The last state tells apart what was left on the tape.
Done == St(<<Else1(Stop)>>)
Effects1 == {<<Keep, 0, Goto(2)>>, <<1, 0, Goto(2)>>, <<0, 0, Goto(2)>>, <<Keep, 1, Goto(1)>>}
Rows1(cells) == {Row(<<c>>, <<e[1]>>, <<e[2]>>, e[3]) : c \in cells, e \in Effects1}
Triples(A, B, C) ==
  {St(<<a, b, c>>) : a \in A, b \in B, c \in C}
Ordered1 == {st \in Triples(Rows1({0, 1, Wildcard}), Rows1({0, 1, 2, Wildcard}), Rows1({Wildcard})) :
               \A i, j \in 1..3 : i < j /\ IsExact(st.rules[i].cells) =>
                                  st.rules[i].cells # st.rules[j].cells}
RowFamily == {<<Machine(<<3>>, <<st, Done>>)>> : st \in Ordered1}
\* Under a volatile band one row is unlike the others, so that the state reads.
Unlike(st) == [st EXCEPT !.rules = <<Idle(<<2>>, Halt)>> \o SelectSeq(@, LAMBDA r : r.cells # <<2>>)]
VolatileRows == {<<Volatile(Machine(<<3>>, <<Unlike(st), Done>>), <<TRUE>>)>> : st \in Ordered1}

\* On two tapes: partial rows, and no row for what is left.
Cells2 == {<<a, b>> : a, b \in {0, 1, Wildcard}}
Effects2 == {<<<<Keep, Keep>>, Goto(2)>>, <<<<1, Keep>>, Goto(2)>>, <<<<Keep, 1>>, Halt>>}
Rows2 == {Row(c, e[1], <<0, 0>>, e[2]) : c \in Cells2, e \in Effects2}
Done2 == St(<<Row(<<Wildcard, Wildcard>>, <<Keep, 0>>, <<1, 0>>, Stop)>>)
Ordered2 == {rows \in {<<a, b>> \o c : a \in Rows2, b \in {r \in Rows2 : r.to = Goto(2)},
                         c \in {<<>>, <<Idle(<<Wildcard, Wildcard>>, Goto(2))>>}} :
               IsExact(rows[1].cells) => rows[1].cells # rows[2].cells}
TwoTapeFamily == {<<Machine(<<2, 2>>, <<St(rows), Done2>>)>> : rows \in Ordered2}

(******************************** small graphs *******************************)
WriteOn(c, w, mv, to) == Row(<<c>>, <<w>>, <<mv>>, to)
Shapes == {St(<<Else1(Goto(t))>>) : t \in {2, 3, 4}}
            \cup {St(<<Breaking(Else1(Goto(4)))>>), St(<<WriteOn(Wildcard, 1, 1, Goto(1))>>),
                  St(<<Else1(Halt)>>), St(<<Idle(<<0>>, Stop), Else1(Goto(2))>>),
                  St(<<WriteOn(0, 1, 0, Goto(3)), Breaking(WriteOn(1, 0, 0, Goto(4)))>>)}
Graph(first, entry, shapes) == <<[Machine(<<2>>, <<first>> \o shapes) EXCEPT !.entry = entry]>>
GraphFamily ==
  {Graph(St(<<WriteOn(0, 1, 0, Goto(2)), rest>>), entry, <<a, b, c>>) :
     rest \in {Idle(<<1>>, Goto(3)), Breaking(Else1(Goto(3)))}, entry \in {1, 4},
     a, b \in Shapes, c \in {St(<<Else1(Stop)>>), St(<<Idle(<<1>>, Goto(2))>>), St(<<>>)}}

(*********************************** calls ***********************************)
On(t, pairs) == [tape |-> t, pairs |-> pairs]
Pair(s, d)   == [src |-> s, dst |-> d, oneWay |-> FALSE]
Swapped   == <<On(1, {Pair(1, 2), Pair(2, 1)})>>
Bindings3 == {Pass(1), Swapped}
Holey     == <<On(1, {Pair(1, 1)})>>                     \* to an alphabet of two
Thens == {Goto(2), Stop}
Caller(b0, b1, then) ==
  Machine(<<3>>, <<St(<<WriteOn(0, 1, 0, CallThen(F, b0, then)), Else1(CallThen(F, b1, Goto(2)))>>),
                   St(<<Breaking(Idle(<<2>>, Halt)), WriteOn(Wildcard, Keep, 1, Stop)>>)>>)
Bodies(c, b) ==
  {<<St(<<WriteOn(0, 1, 0, Return), WriteOn(1, 0, 1, Return), Else1(Goto(1))>>)>>,
   <<St(<<WriteOn(1, 0, 1, Goto(2)), Breaking(Else1(Return))>>),
     St(<<WriteOn(0, 1, 0, Goto(1)), Else1(Halt)>>)>>,
   <<St(<<WriteOn(1, c - 1, 1, CallThen(G, b, Return)), Else1(CallThen(G, <<>>, Return))>>)>>,
   <<St(<<WriteOn(0, 1, 1, CallThen(F, Pass(1), Goto(2))), Else1(Return)>>),
     St(<<WriteOn(0, c - 1, 0, CallThen(G, Pass(1), Return)), Else1(Return)>>)>>}
Callee(c)  == Routine(G, <<c>>, <<St(<<WriteOn(1, 0, 0, Return), Else1(Goto(2))>>),
                                  St(<<WriteOn(Wildcard, 1, 1, Return)>>)>>)
Outside(c) == [Callee(c) EXCEPT !.kind = "external"]
CallFamily ==
  {<<Caller(b0, b1, then), Routine(F, <<3>>, f), g>> :
     b0 \in Bindings3, b1 \in Bindings3, then \in Thens, f \in Bodies(3, Swapped),
     g \in {Callee(3), Outside(3)}}
  \cup {<<Caller(Holey, Holey, then), Routine(F, <<2>>, f), g>> :
          then \in Thens, f \in Bodies(2, Pass(1)), g \in {Callee(2), Outside(2)}}
\* A machine on two tapes calls a routine on its first.
Projections ==
  {<<Machine(<<2, 2>>, <<St(<<Row(<<0, Wildcard>>, <<1, Keep>>, <<0, 1>>, CallThen(F, Pass(1), Goto(2))),
                            Idle(<<Wildcard, 1>>, CallThen(F, Pass(1), Stop)),
                            Idle(<<Wildcard, Wildcard>>, Goto(2))>>), Done2>>),
     Routine(F, <<2>>, f), Callee(2)>> : f \in Bodies(2, Pass(1))}

(***************************** shared subgraphs ******************************)
\* Seven states in a row from n on, in each of which one symbol does something,
\* and the last of which goes to j; x makes this copy unlike another.
Chain(n, j, x) ==
  [i \in 1..7 |->
     LET next == IF i = 7 THEN j ELSE n + i IN
     CASE i = 3 -> St(<<WriteOn(0, 1, 1, Goto(next)), Idle(<<1>>, Goto(x[1]))>>)
       [] i = 5 -> x[2]
       [] OTHER -> St(<<WriteOn(i % 2, 1 - (i % 2), 1, Goto(next)), Else1(Goto(next))>>)]
Copy(n, j, back, fifth) ==
  Chain(n, j, <<IF back THEN n ELSE j, St(<<WriteOn(fifth, 1, 0, Goto(n + 5)), Else1(Goto(j))>>)>>)
BrokenCopy(n, j, back) ==
  Chain(n, j, <<IF back THEN n ELSE j, St(<<Breaking(WriteOn(0, 1, 0, Goto(n + 5))), Else1(Goto(j))>>)>>)
Joined(end) == <<St(<<WriteOn(0, 1, 0, end), Breaking(Else1(Stop))>>), St(<<Else1(Halt)>>)>>
Copies(a, b, end) ==
  <<Machine(<<2>>, <<St(<<WriteOn(0, Keep, 1, Goto(2)), Else1(Goto(9))>>)>> \o a \o b \o Joined(end))>>
OutlineFamily ==
  {Copies(Copy(2, 16, back, 0), b, end) :
     back \in BOOLEAN, end \in {Stop, Goto(1), Goto(5)},
     b \in {Copy(9, 16, r, x) : r \in BOOLEAN, x \in {0, 1}}
             \cup {Copy(9, 17, TRUE, 0), BrokenCopy(9, 16, TRUE)}}

(**************************** volatile programs ******************************)
AllVolatile(p) == [i \in DOMAIN p |-> Volatile(p[i], [k \in DOMAIN p[i].cards |-> TRUE])]
FirstVolatile(p) == [i \in DOMAIN p |-> Volatile(p[i], [k \in DOMAIN p[i].cards |-> k = 1])]

Option(programs, level, disabled, outline, strip, devices) ==
  {[worlds |-> p, level |-> level, disabled |-> disabled, outline |-> outline,
    strip |-> strip, devices |-> devices] : p \in programs}
MCPrograms ==
  Option(RowFamily, "O1", {}, FALSE, FALSE, Tapes3)
    \cup Option(VolatileRows, "O1", {}, FALSE, FALSE, Bands3)
    \cup Option(TwoTapeFamily, "O1", {}, FALSE, FALSE, TwoTapes)
    \cup Option(GraphFamily, "O1", {}, FALSE, FALSE, Tapes2)
    \cup Option(CallFamily, "O1", {}, FALSE, FALSE, Tapes3)
    \cup Option(CallFamily, "O1", {"inline"}, FALSE, TRUE, Tapes3)
    \cup Option(GraphFamily, "O1", {"dce"}, FALSE, TRUE, Tapes2)
    \cup Option(Projections, "O1", {}, FALSE, FALSE, TwoTapes)
    \cup Option(OutlineFamily, "O1", {}, TRUE, FALSE, Tapes2)
    \cup Option(OutlineFamily, "O1", {"tail-merge"}, TRUE, FALSE, Tapes2)
    \cup Option({AllVolatile(p) : p \in CallFamily}, "O1", {}, FALSE, FALSE, Bands3)
    \cup Option({FirstVolatile(p) : p \in Projections}, "O1", {}, FALSE, FALSE, FirstBand)
    \cup Option({AllVolatile(p) : p \in OutlineFamily}, "O1", {}, TRUE, FALSE, BandsOf2)
    \cup Option(CallFamily \cup RowFamily, "O0", {}, FALSE, FALSE, Tapes3)

\* One row for a symbol, one for the others.
MCReadingPrograms ==
  Option({<<Volatile(Machine(<<3>>, <<St(<<a, b>>), Done>>), <<TRUE>>)>> :
            a \in Rows1({0, 1}), b \in Rows1({Wildcard})}, "O1", {}, FALSE, FALSE, Bands3)
=============================================================================
