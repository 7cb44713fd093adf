-------------------------------- MODULE TmPasses --------------------------------
(*****************************************************************************)
(* The passes of the Turing-machine optimizer (crates/turing-machine/src/    *)
(* optimizer): inline and outline rewrite the program, the others one world. *)
(* A pass's change count is kept only as "changed".                          *)
(*****************************************************************************)
EXTENDS TmRuns, FiniteSetsExt

CONSTANTS InlineMaxRules, OutlineMinStates
ASSUME ThresholdsDisjoint == OutlineMinStates > InlineMaxRules

(************************** states and what names them ***********************)
Retarget(t, F(_)) ==
  CASE t.kind = "goto" -> Goto(F(t.to))
    [] t.kind = "call" /\ t.then.kind = "goto" -> [t EXCEPT !.then = Goto(F(@.to))]
    [] OTHER -> t
Successors(r) == CASE r.to.kind = "goto" -> {r.to.to}
                   [] r.to.kind = "call" /\ r.to.then.kind = "goto" -> {r.to.then.to}
                   [] OTHER -> {}
SuccessorsOf(st) == UNION {Successors(r) : r \in Range(st.rules)}
HasDebugger(st)  == \E r \in Range(st.rules) : r.debugger
IsGoto(r)        == r.to.kind = "goto"

MapStates(w, F(_)) == [w EXCEPT !.states = [i \in DOMAIN w.states |-> F(w.states[i])]]
MapRules(w, F(_)) ==
  MapStates(w, LAMBDA st : [st EXCEPT !.rules = [k \in DOMAIN st.rules |-> F(st.rules[k])]])
MapTargets(w, F(_)) ==
  [MapRules(w, LAMBDA r : [r EXCEPT !.to = Retarget(@, F)]) EXCEPT !.entry = F(@)]
KeepRules(st, S) ==
  LET kept == SelectSeq([k \in DOMAIN st.rules |-> k], LAMBDA k : k \in S) IN
  [st EXCEPT !.rules = [k \in DOMAIN kept |-> st.rules[kept[k]]]]

\* Only the states in S, renumbered densely in the order they are in.
KeepStates(w, S) ==
  LET kept == SelectSeq([i \in DOMAIN w.states |-> i], LAMBDA i : i \in S) IN
  [MapTargets(w, LAMBDA t : Cardinality({i \in S : i <= t}))
     EXCEPT !.states = [i \in DOMAIN kept |-> @[kept[i]]]]

(*********************************** inline **********************************)
IsLeaf(w) == \A st \in Range(w.states) : \A r \in Range(st.rules) :
               r.to.kind \notin {"call", "tailcall"}
RuleCount(w)  == FoldLeft(LAMBDA n, st : n + Len(st.rules), 0, w.states)
CandidatesOfAnySize(program) ==                                    \* mutant
  {w \in Range(program) : w.kind = "routine" /\ IsLeaf(w)}
\* Fixed before the pass: what is spliced into a routine does not change it.
Candidates(program) == {w \in Range(program) :
                          w.kind = "routine" /\ IsLeaf(w) /\ RuleCount(w) <= InlineMaxRules}

\* The callee's tapes are the caller's first ones, symbol for symbol.
IsFullPassthrough(binding, caller, callee) ==
  /\ Len(callee.cards) <= Len(caller.cards)
  /\ \A k \in DOMAIN callee.cards : callee.cards[k] = caller.cards[k]
  /\ binding \in {<<>>, [k \in DOMAIN callee.cards |-> [tape |-> k, pairs |-> {}]]}
IsSite(t, caller, candidates) ==
  /\ t.kind = "call" /\ t.target # caller.name
  /\ \E c \in candidates : c.name = t.target /\ IsFullPassthrough(t.binding, caller, c)
Sites(caller, candidates) ==
  {<<i, k>> \in UNION {{i} \X DOMAIN caller.states[i].rules : i \in DOMAIN caller.states} :
     IsSite(caller.states[i].rules[k].to, caller, candidates)}

\* A copied row leaves the caller's other tapes alone.
Widen(r, n) ==
  LET pad(v, x) == v \o [k \in 1..n - Len(v) |-> x] IN
  [r EXCEPT !.cells = pad(@, Wildcard), !.write = pad(@, Keep), !.moves = pad(@, 0)]
\* The callee's return becomes what the call was to go on with.
Splice(caller, i, k, callee) ==
  LET base == Len(caller.states)
      then == caller.states[i].rules[k].to.then
      copied(r) == [Widen(r, Len(caller.cards)) EXCEPT
                      !.to = IF @ = Return THEN then ELSE Retarget(@, LAMBDA t : base + t)]
      body == MapRules(callee, copied).states IN
  [caller EXCEPT !.states = [@ EXCEPT ![i].rules[k].to = Goto(base + callee.entry)] \o body]

\* The first site first, until there is none.
SpliceAll(caller, candidates) ==
  LET RECURSIVE From(_)
      From(w) ==
        LET sites == Sites(w, candidates) IN
        IF sites = {} THEN w
        ELSE LET s == CHOOSE x \in sites : \A y \in sites : x = y \/ RowLess(x, y)
                 target == w.states[s[1]].rules[s[2]].to.target IN
             From(Splice(w, s[1], s[2], CHOOSE c \in candidates : c.name = target)) IN
  From(caller)
Inline(program) ==
  [i \in DOMAIN program |->
     IF program[i].kind = "external" THEN program[i]
     ELSE SpliceAll(program[i], Candidates(program))]

(********************************** outline **********************************)
IsExitFree(st) == \A r \in Range(st.rules) : IsGoto(r)
Inbound(w, s)  == {i \in DOMAIN w.states : s \in SuccessorsOf(w.states[i])}
ReachOf(w, S)  == UNION {SuccessorsOf(w.states[i]) : i \in S}

\* What only the region reaches joins it, but for the entry of the world.
Grow(w, root) ==
  LET joins(S) == {t \in ReachOf(w, S) \ (S \cup {w.entry}) :
                     /\ IsExitFree(w.states[t]) /\ ~HasDebugger(w.states[t])
                     /\ Inbound(w, t) \subseteq S}
      RECURSIVE Closure(_)
      Closure(S) == IF joins(S) = {} THEN S ELSE Closure(S \cup joins(S)) IN
  Closure({root})

\* Breadth first, in the order of the rules.
Members(w, root, region) ==
  LET visit(order, r) == IF r.to.to \in region \ Range(order) THEN Append(order, r.to.to)
                         ELSE order
      RECURSIVE From(_, _)
      From(order, p) == IF p > Len(order) THEN order
                        ELSE From(FoldLeft(visit, order, w.states[order[p]].rules), p + 1) IN
  From(<<root>>, 1)
\* The position of a state among the members, 0 for the junction.
Local(members, s) == IF s \in Range(members) THEN CHOOSE l \in DOMAIN members : members[l] = s
                     ELSE 0
Key(w, members, junction) ==
  LET row(r) == [r EXCEPT !.to = Local(members, r.to.to), !.direct = FALSE]
      shape(st) == [st EXCEPT !.rules = [k \in DOMAIN st.rules |-> row(st.rules[k])]] IN
  [junction |-> junction, states |-> [l \in DOMAIN members |-> shape(w.states[members[l]])]]

\* The regions that have one way out, are large enough, and can be entered.
Regions(w) ==
  LET roots == {s \in DOMAIN w.states : IsExitFree(w.states[s]) /\ ~HasDebugger(w.states[s])}
      escapes(s) == ReachOf(w, Grow(w, s)) \ Grow(w, s)
      good(s) == /\ Cardinality(escapes(s)) = 1
                 /\ Cardinality(Grow(w, s)) >= OutlineMinStates
                 /\ s = w.entry \/ ~(Inbound(w, s) \subseteq Grow(w, s))
      region(s) ==
        LET members == Members(w, s, Grow(w, s))  junction == CHOOSE t \in escapes(s) : TRUE IN
        [root |-> s, junction |-> junction, members |-> members,
         key |-> Key(w, members, junction)] IN
  {region(s) : s \in {x \in roots : good(x)}}

\* Larger regions first.  Regions of one size do not overlap, so the order among
\* them, here of their roots, only names the routines.
Groups(w) ==
  LET alike == {{y \in Regions(w) : y.key = x.key} : x \in Regions(w)}
      groups == {G \in alike : Cardinality(G) >= 2}
      lead(G) == CHOOSE x \in G : \A y \in G : x.root <= y.root
      before(G, H) == \/ Len(lead(G).members) > Len(lead(H).members)
                      \/ /\ Len(lead(G).members) = Len(lead(H).members)
                         /\ lead(G).root < lead(H).root IN
  [n \in 1..Cardinality(groups) |->
     CHOOSE G \in groups : Cardinality({H \in groups : before(H, G)}) = n - 1]

HoistedRoutine(w, name, members) ==
  LET row(r) == IF Local(members, r.to.to) = 0 THEN [r EXCEPT !.to = Return, !.direct = FALSE]
                ELSE [r EXCEPT !.to = Goto(Local(members, r.to.to))]
      copy(st) == [st EXCEPT !.rules = [k \in DOMAIN st.rules |-> row(st.rules[k])]] IN
  [w EXCEPT !.name = name, !.kind = "routine", !.entry = 1,
            !.states = [l \in DOMAIN members |-> copy(w.states[members[l]])]]
Trampoline(w, name, junction) ==
  [rules |-> <<[cells |-> [k \in DOMAIN w.cards |-> Wildcard],
                write |-> [k \in DOMAIN w.cards |-> Keep],
                moves |-> [k \in DOMAIN w.cards |-> 0],
                debugger |-> FALSE, synthesized |-> FALSE, direct |-> FALSE,
                to |-> CallThen(name, <<>>, Goto(junction))]>>,
   dispatch |-> "table"]

\* One group after another, of what no earlier one claimed.
OutlineWorld(w) ==
  LET hoist(acc, G) ==
        LET free == {x \in G : Range(x.members) \cap acc.used = {}}
            name == Append(w.name, Len(acc.new))
            first == CHOOSE x \in free : \A y \in free : x.root <= y.root
            roots == {x.root : x \in free} IN
        IF Cardinality(free) < 2 THEN acc
        ELSE [used |-> acc.used \cup UNION {Range(x.members) : x \in free},
              new |-> Append(acc.new, HoistedRoutine(acc.world, name, first.members)),
              world |-> [acc.world EXCEPT !.states =
                [s \in DOMAIN w.states |->
                   IF s \in roots THEN Trampoline(w, name, first.junction) ELSE @[s]]]] IN
  FoldLeft(hoist, [used |-> {}, new |-> <<>>, world |-> w], Groups(w))
\* The new routines are appended once every world has been looked at.
Outline(program) ==
  LET seen == [i \in DOMAIN program |->
                 IF program[i].kind = "external" THEN [world |-> program[i], new |-> <<>>]
                 ELSE OutlineWorld(program[i])] IN
  [i \in DOMAIN program |-> seen[i].world]
    \o FlattenSeq([i \in DOMAIN program |-> seen[i].new])

(*********************************** per world *******************************)
\* A state that only goes on to another one; a circle of them is kept.
IsForwarder(st) == /\ IsStraightLine(st)
                   /\ LET r == st.rules[1] IN IsGoto(r) /\ NoAction(r) /\ ~r.debugger
Resolve(w, start) ==
  LET RECURSIVE From(_, _)
      From(s, seen) == IF ~IsForwarder(w.states[s]) THEN s
                       ELSE IF s \in seen THEN start
                       ELSE From(w.states[s].rules[1].to.to, seen \cup {s}) IN
  From(start, {})
JumpThreading(w) ==
  LET marked(r) == [r EXCEPT !.direct = @ \/ (IsGoto(r) /\ NoAction(r) /\ ~r.debugger)] IN
  MapRules(MapTargets(w, LAMBDA t : Resolve(w, t)), marked)

TailCallsOfBound(w) ==                                             \* mutant
  IF w.kind # "routine" THEN w
  ELSE MapRules(w, LAMBDA r :
         IF r.to.kind = "call" /\ r.to.then = Return
         THEN [r EXCEPT !.to = TailCallTo(r.to.target)] ELSE r)
\* A bound call pushes a frame its return has to take back.
TailCalls(w) ==
  IF w.kind # "routine" THEN w
  ELSE MapRules(w, LAMBDA r :
         IF r.to.kind = "call" /\ r.to.then = Return /\ r.to.binding = <<>>
         THEN [r EXCEPT !.to = TailCallTo(r.to.target)] ELSE r)

SameState(a, b) ==
  LET plain(st) == [k \in DOMAIN st.rules |-> [st.rules[k] EXCEPT !.direct = FALSE]] IN
  a.dispatch = b.dispatch /\ plain(a) = plain(b)
Mergeable(w, i, j) == /\ ~HasDebugger(w.states[i]) /\ ~HasDebugger(w.states[j])
                      /\ SameState(w.states[i], w.states[j])
\* The first pair is merged into the earlier of the two, and again.
TailMerge(w) ==
  LET pairs(x) == {<<i, j>> \in (DOMAIN x.states) \X (DOMAIN x.states) :
                     i < j /\ Mergeable(x, i, j)}
      RECURSIVE From(_)
      From(x) ==
        IF pairs(x) = {} THEN x
        ELSE LET p == CHOOSE a \in pairs(x) : \A b \in pairs(x) : a = b \/ RowLess(a, b)
                 joined == MapTargets(x, LAMBDA t : IF t = p[2] THEN p[1] ELSE t) IN
             From(KeepStates(joined, (DOMAIN x.states) \ {p[2]})) IN
  From(w)

Dce(w) ==
  LET RECURSIVE Closure(_)
      Closure(S) == IF ReachOf(w, S) \subseteq S THEN S ELSE Closure(S \cup ReachOf(w, S)) IN
  KeepStates(w, Closure({w.entry}))

\* The rows of the table are looked at in the order they are emitted in.
NeedlessRows(st, volatile) ==
  LET order == EmittedOrder(st.rules)
      rows == [p \in DOMAIN order |-> st.rules[order[p]]] IN
  IF st.dispatch # "table" THEN {} ELSE {order[p] : p \in SubsumedRows(rows, volatile)}
DeadRows(w) ==
  MapStates(w, LAMBDA st :
    LET live == KeepRules(st, (DOMAIN st.rules) \ ShadowedRows(st.rules)) IN
    KeepRules(live, (DOMAIN live.rules) \ NeedlessRows(live, w.volatile)))

\* A routine keeps the table form, which a stamp of it can add trap rows to.
DispatchSelect(w) ==
  IF w.kind # "machine" THEN w
  ELSE MapStates(w, LAMBDA st :
         IF Len(st.rules) = 2 /\ IsWild(st.rules[2].cells) /\ ~IsWild(st.rules[1].cells)
         THEN [st EXCEPT !.dispatch = "branch"] ELSE st)
=============================================================================
