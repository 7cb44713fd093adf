-------------------------------- MODULE Bindings --------------------------------
(*****************************************************************************)
(* The composition algebra of the linker (crates/core/src/linker/compose.rs).*)
(* A binding says, for each tape of the callee, which tape of the caller it  *)
(* is and which symbols correspond; a composite is what the callee then sees *)
(* of the machine: per tape a physical tape, a read map and a write map.     *)
(*                                                                           *)
(* Symbols are numbers and 0 is the blank.  A symbol map is sparse: the      *)
(* symbols that change, the symbols that trap when crossed (holes), and      *)
(* every other symbol stands for itself.  Tapes are numbered from 1.         *)
(*****************************************************************************)
EXTENDS Integers, Sequences

Hole == -1

------------------------------------------------------------------------------
(* Sparse symbol maps. *)

Unchanged == [pairs |-> [s \in {} |-> s], holes |-> {}]

Apply(map, s) ==
  IF s \in map.holes THEN Hole
  ELSE IF s \in DOMAIN map.pairs THEN map.pairs[s] ELSE s

IsUnchanged(map) ==
  map.holes = {} /\ \A s \in DOMAIN map.pairs : map.pairs[s] = s

Canonical(map) ==
  [pairs |-> [s \in {t \in DOMAIN map.pairs : map.pairs[t] # t /\ t \notin map.holes}
                |-> map.pairs[s]],
   holes |-> map.holes]

\* What the second map makes of what the first made of s.
Then(first, second, s) ==
  IF Apply(first, s) = Hole THEN Hole ELSE Apply(second, Apply(first, s))

\* Only these symbols can be mapped by the composition to something else.
Candidates(first, second) ==
  DOMAIN first.pairs \cup first.holes \cup DOMAIN second.pairs \cup second.holes

ComposeMap(first, second) ==
  LET listed == Candidates(first, second)
  IN  [pairs |-> [s \in {t \in listed : Then(first, second, t) \notin {Hole, t}}
                    |-> Then(first, second, s)],
       holes |-> {t \in listed : Then(first, second, t) = Hole}]

------------------------------------------------------------------------------
(* From a binding to a composite.  A binding is a sequence of tapes, each    *)
(* with its pairs [src, dst, oneWay]; a signature is the sequence of the     *)
(* sizes of the alphabets.                                                   *)

TwoWay(pairs) == {p \in pairs : ~p.oneWay}
Sources(pairs) == {p.src : p \in pairs}
Images(pairs)  == {p.dst : p \in pairs}

\* The two directions are functions and the blank is only ever the blank.
LegalPairs(pairs, calleeCard) ==
  /\ \A p \in pairs : /\ p.dst < calleeCard
                      /\ p.src = 0 => p.dst = 0
                      /\ p.dst = 0 /\ ~p.oneWay => p.src = 0
  /\ \A p, q \in pairs : p.src = q.src => p.dst = q.dst
  /\ \A p, q \in TwoWay(pairs) : p.dst = q.dst => p.src = q.src

\* Alphabets of one size complete to a bijection of the two-way pairs.
Completed(pairs, card) ==
  [s \in 0..card-1 |-> IF \E p \in TwoWay(pairs) : p.src = s
                       THEN (CHOOSE p \in TwoWay(pairs) : p.src = s).dst ELSE s]
Injective(f) == \A a, b \in DOMAIN f : f[a] = f[b] => a = b

\* One caller tape cannot back two callee tapes.
Placed(binding) == [k \in DOMAIN binding |-> binding[k].tape]

Legal(binding, caller, callee) ==
  /\ Len(binding) = Len(callee)
  /\ \A k \in DOMAIN binding : binding[k].tape \in DOMAIN caller
  /\ Injective(Placed(binding))
  /\ \A k \in DOMAIN binding :
       LET pairs == binding[k].pairs
           card  == caller[binding[k].tape]
       IN  /\ LegalPairs(pairs, callee[k])
           /\ \A p \in pairs : p.src < card
           /\ card = callee[k] => Injective(Completed(pairs, card))

\* Between alphabets of different sizes what is not named is a hole.
Close(named, fromCard, toCard) ==
  IF fromCard = toCard THEN {} ELSE (1..fromCard-1) \ named

ReadMap(pairs, callerCard, calleeCard) ==
  Canonical([pairs |-> [s \in Sources(pairs) |-> (CHOOSE p \in pairs : p.src = s).dst],
             holes |-> Close(Sources(pairs), callerCard, calleeCard)])

WriteMap(pairs, callerCard, calleeCard) ==
  Canonical([pairs |-> [s \in Images(TwoWay(pairs)) |->
                          (CHOOSE p \in TwoWay(pairs) : p.dst = s).src],
             holes |-> Close(Images(TwoWay(pairs)), calleeCard, callerCard)])

BindingToComposite(binding, caller, routine, callee) ==
  [routine |-> routine,
   tapes   |-> [k \in DOMAIN binding |->
      LET card == caller[binding[k].tape]
      IN  [phys |-> binding[k].tape,
           rmap |-> ReadMap(binding[k].pairs, card, callee[k]),
           wmap |-> WriteMap(binding[k].pairs, card, callee[k])]]]

------------------------------------------------------------------------------
(* Composites of composites. *)

ComposeTapeOutermost(outer, inner) ==
  [phys |-> outer.phys,
   rmap |-> ComposeMap(outer.rmap, inner.rmap),
   wmap |-> ComposeMap(outer.wmap, inner.wmap)]
ComposeTape(outer, inner) ==
  [phys |-> outer.phys,
   rmap |-> ComposeMap(outer.rmap, inner.rmap),
   wmap |-> ComposeMap(inner.wmap, outer.wmap)]

ComposeComposites(outer, inner) ==
  [routine |-> inner.routine,
   tapes   |-> [k \in DOMAIN inner.tapes |->
                  ComposeTape(outer.tapes[inner.tapes[k].phys], inner.tapes[k])]]

IdentityComposite(arity, routine) ==
  [routine |-> routine,
   tapes   |-> [k \in 1..arity |-> [phys |-> k, rmap |-> Unchanged, wmap |-> Unchanged]]]

Compose(outer, binding, caller, routine, callee) ==
  ComposeComposites(outer, BindingToComposite(binding, caller, routine, callee))

\* The callee may inherit the caller's frame: nothing moves, nothing changes
\* and no symbol of either alphabet lacks an image in the other.
IsFullPassthrough(composite, domain, callee) ==
  /\ \A k \in DOMAIN composite.tapes :
       /\ composite.tapes[k].phys = k
       /\ IsUnchanged(composite.tapes[k].rmap)
       /\ IsUnchanged(composite.tapes[k].wmap)
  /\ Len(composite.tapes) = Len(domain)
  /\ domain = callee

\* The image of s in an alphabet of toCard symbols.
ImageIn(map, s, toCard) ==
  IF Apply(map, s) # Hole /\ Apply(map, s) < toCard THEN Apply(map, s) ELSE Hole

\* The table of a descriptor: empty when there is nothing to translate.
DenseMap(map, fromCard, toCard) ==
  IF IsUnchanged(map) /\ fromCard = toCard THEN <<>>
  ELSE [s \in 0..fromCard-1 |-> ImageIn(map, s, toCard)]

=============================================================================
