--------------------------------- MODULE MCBuild --------------------------------
(*****************************************************************************)
(* Instance of PmBuild for TLC: families of programs, each rich in the       *)
(* shapes one group of passes looks for.                                     *)
(*****************************************************************************)
EXTENDS PmBuild

S(labels, items, end) == [labels |-> labels, items |-> items, end |-> end]
Falls == FallThrough(0)

MCTapes   == {{0}, {1}, {-1, 0}}
MCAnswers == {<<FALSE>>, <<TRUE>>, <<FALSE, TRUE>>, <<TRUE, TRUE, FALSE>>}

\* Straight lines of writes, moves, breaks and calls before a check.
Ops3 == {<<x, y, z>> : x, y \in {Wr(0), Wr(1), Lft, Rgt, Brk, Call("f")},
                       z \in {Wr(1), Lft, Rgt, Call("f")}}
Lines == {[main |-> <<S({}, ops, Check(1, Exit)), S({1}, <<Wr(1), Rgt>>, Falls)>>,
           f |-> f] : ops \in Ops3,
           f \in {<<S({}, <<Rgt>>, Return)>>, <<S({}, <<Lft, Brk>>, Return)>>}}

\* Two arms that join, with ops shared at their ends.
Arms  == {<<Wr(1)>>, <<Lft, Rgt>>, <<Wr(0), Lft, Rgt>>, <<Rgt, Wr(1), Rgt>>, <<Brk, Wr(1), Rgt>>}
Joins3 == {[main |-> <<S({}, <<Lft>>, Check(1, 2)), S({1}, a, Goto(3)),
                       S({2}, b, Falls), S({3}, c, end)>>,
            f |-> <<>>] : a, b \in Arms, c \in {<<>>, <<Rgt>>},
            end \in {Return, Halt, Check(2, Exit), Goto(2), Check(3, 2)}}

\* Calls in and out of tail position, recursion, empty forwarders and cycles.
Bodies == {<<>>, <<S({}, <<Call("g")>>, Falls)>>, <<S({}, <<Rgt, Call("g")>>, Return)>>,
           <<S({1}, <<Rgt>>, Check(1, Exit))>>, <<S({}, <<>>, Check(1, Exit)), S({1}, <<Call("f")>>, Falls)>>,
           <<S({}, <<Wr(1)>>, Check(1, 2)), S({1}, <<Call("f")>>, Return), S({2}, <<>>, Return)>>,
           <<S({}, <<Rgt, Lft>>, Goto(2)), S({1}, <<>>, Goto(2)), S({2}, <<>>, Goto(1))>>,
           <<S({}, <<>>, Halt)>>}
Calls == {[main |-> <<S({}, pre, Check(1, 1)), S({1}, <<Call("f")>>, Check(Exit, 2)), S({2}, post, end)>>,
           f |-> f, g |-> g] :
            pre \in {<<>>, <<Rgt>>}, post \in {<<Call("g")>>, <<Wr(1), Brk>>},
            end \in {Return, Goto(1)}, f \in Bodies,
            g \in {<<>>, <<S({}, <<Rgt, Lft, Wr(1)>>, Falls)>>, <<S({}, <<Wr(0)>>, Check(1, 1)), S({1}, <<Brk>>, Halt)>>}}

Option(sources, level, disabled, volatile, strip) ==
  [source : sources, level : {level}, disabled : {disabled}, volatile : {volatile}, strip : {strip}]
MCPrograms ==
  LET all == Lines \cup Joins3 \cup Calls IN
  Option(all, "O1", {}, FALSE, FALSE) \cup Option(all, "O1", {}, TRUE, FALSE)
    \cup Option(Joins3 \cup Calls, "O1", {"inline", "dce"}, FALSE, TRUE)
    \cup Option(Calls, "O0", {}, FALSE, FALSE)
=============================================================================
