--------------------------------- MODULE Algebra --------------------------------
(*****************************************************************************)
(* The laws of the composition algebra (crates/core/src/linker/compose.rs),  *)
(* for every alphabet and every number of tapes: a composed map is the maps  *)
(* applied one after the other, composition is associative, and a composite  *)
(* built level by level still places no two tapes on one.                    *)
(*****************************************************************************)
EXTENDS Bindings, Rows, Reach, FunctionTheorems, FiniteSetTheorems, WellFoundedInduction, TLAPS

\* Maps as the code keeps them: a symbol is remapped or a hole, not both.
IsMap(f) ==
  /\ f = [pairs |-> f.pairs, holes |-> f.holes]
  /\ f.holes \subseteq Nat
  /\ f.pairs = [s \in DOMAIN f.pairs |-> f.pairs[s]]
  /\ DOMAIN f.pairs \subseteq Nat
  /\ \A s \in DOMAIN f.pairs : f.pairs[s] \in Nat
IsCanonical(f) ==
  /\ IsMap(f)
  /\ \A s \in DOMAIN f.pairs : f.pairs[s] # s /\ s \notin f.holes

LEMMA ApplyTyped ==
  ASSUME NEW f, IsMap(f), NEW s \in Nat
  PROVE  Apply(f, s) \in Nat \cup {Hole}
BY DEF IsMap, Apply, Hole

\* A symbol that no list of either map names is left alone by both.
LEMMA UnlistedStays ==
  ASSUME NEW f, NEW g, IsMap(f), IsMap(g), NEW s \in Nat, s \notin Candidates(f, g)
  PROVE  Then(f, g, s) = s
<1>1. Apply(f, s) = s
  BY DEF Candidates, Apply
<1>2. Apply(g, s) = s
  BY DEF Candidates, Apply
<1>3. QED
  BY <1>1, <1>2 DEF Then, Hole

\* compose_map enumerates the symbols that either map lists: what it builds is
\* the second map after the first on every symbol there is.
THEOREM ComposeMapLaw ==
  ASSUME NEW f, NEW g, IsMap(f), IsMap(g), NEW s \in Nat
  PROVE  Apply(ComposeMap(f, g), s) = Then(f, g, s)
<1> DEFINE listed == Candidates(f, g)
           moved  == {u \in listed : Then(f, g, u) \notin {Hole, u}}
           lost   == {t \in listed : Then(f, g, t) = Hole}
           image  == [t \in moved |-> Then(f, g, t)]
<1>1. ComposeMap(f, g) = [pairs |-> image, holes |-> lost]
  BY DEF ComposeMap
<1>2. Apply(ComposeMap(f, g), s) =
        IF s \in lost THEN Hole ELSE IF s \in moved THEN Then(f, g, s) ELSE s
  BY <1>1 DEF Apply
<1>3. CASE s \notin listed
  BY <1>2, <1>3, UnlistedStays
<1>4. CASE s \in listed
  BY <1>2, <1>4
<1>5. QED
  BY <1>3, <1>4

\* What compose_map builds is again such a map, and canonical by construction.
LEMMA ComposeMapCanonical ==
  ASSUME NEW f, NEW g, IsMap(f), IsMap(g)
  PROVE  IsCanonical(ComposeMap(f, g))
<1> DEFINE listed == Candidates(f, g)
           moved  == {u \in listed : Then(f, g, u) \notin {Hole, u}}
           c == ComposeMap(f, g)
<1>1. listed \subseteq Nat
  BY DEF Candidates, IsMap
<1>2. \A t \in Nat : Then(f, g, t) \in Nat \cup {Hole}
  <2>1. ASSUME NEW t \in Nat PROVE Then(f, g, t) \in Nat \cup {Hole}
    <3>1. CASE Apply(f, t) = Hole
      BY <3>1 DEF Then
    <3>2. CASE Apply(f, t) \in Nat
      BY <3>2, ApplyTyped DEF Then, Hole
    <3>3. QED
      BY <3>1, <3>2, ApplyTyped
  <2>2. QED
    BY <2>1
<1>3. c = [pairs |-> [t \in moved |-> Then(f, g, t)],
           holes |-> {t \in listed : Then(f, g, t) = Hole}]
  BY DEF ComposeMap
<1> HIDE DEF c
<1>4. IsMap(c)
  BY <1>1, <1>2, <1>3 DEF IsMap
<1>5. \A s \in DOMAIN c.pairs : c.pairs[s] # s /\ s \notin c.holes
  BY <1>3
<1>6. QED
  BY <1>4, <1>5 DEF IsCanonical, c

\* Canonical maps that do the same are the same: composites can be interned by
\* their serialization (canonical_key).
THEOREM CanonicalUnique ==
  ASSUME NEW f, NEW g, IsCanonical(f), IsCanonical(g),
         \A s \in Nat : Apply(f, s) = Apply(g, s)
  PROVE  f = g
<1>1. f.holes = g.holes
  <2>1. ASSUME NEW s \in Nat PROVE s \in f.holes <=> s \in g.holes
    <3>1. Apply(f, s) = Hole <=> s \in f.holes
      BY DEF Apply, IsCanonical, IsMap, Hole
    <3>2. Apply(g, s) = Hole <=> s \in g.holes
      BY DEF Apply, IsCanonical, IsMap, Hole
    <3>3. QED
      BY <3>1, <3>2
  <2>2. QED
    BY <2>1 DEF IsCanonical, IsMap
<1>2. DOMAIN f.pairs = DOMAIN g.pairs
  <2>1. ASSUME NEW s \in Nat PROVE s \in DOMAIN f.pairs <=> s \in DOMAIN g.pairs
    <3>1. Apply(f, s) \notin {Hole, s} <=> s \in DOMAIN f.pairs
      BY DEF Apply, IsCanonical, IsMap, Hole
    <3>2. Apply(g, s) \notin {Hole, s} <=> s \in DOMAIN g.pairs
      BY DEF Apply, IsCanonical, IsMap, Hole
    <3>3. QED
      BY <3>1, <3>2
  <2>2. QED
    BY <2>1 DEF IsCanonical, IsMap
<1>3. \A s \in DOMAIN f.pairs : f.pairs[s] = g.pairs[s]
  BY <1>2 DEF Apply, IsCanonical, IsMap
<1>4. f.pairs = g.pairs
  BY <1>2, <1>3 DEF IsCanonical, IsMap
<1>5. QED
  BY <1>1, <1>4 DEF IsCanonical, IsMap

\* Three bindings in a row compose to one map, in whichever order the linker
\* composes them (compose.rs, composition_is_associative).
THEOREM ComposeMapAssociative ==
  ASSUME NEW f, NEW g, NEW h, IsMap(f), IsMap(g), IsMap(h)
  PROVE  ComposeMap(ComposeMap(f, g), h) = ComposeMap(f, ComposeMap(g, h))
<1> DEFINE fg == ComposeMap(f, g)
           gh == ComposeMap(g, h)
<1>1. IsMap(fg) /\ IsMap(gh)
  BY ComposeMapCanonical DEF IsCanonical
<1>2. ASSUME NEW s \in Nat
      PROVE  Apply(ComposeMap(fg, h), s) = Apply(ComposeMap(f, gh), s)
  <2>1. Apply(ComposeMap(fg, h), s) = Then(fg, h, s)
    BY <1>1, ComposeMapLaw
  <2>2. Apply(ComposeMap(f, gh), s) = Then(f, gh, s)
    BY <1>1, ComposeMapLaw
  <2>3. Apply(fg, s) = Then(f, g, s)
    BY ComposeMapLaw
  <2>4. CASE Apply(f, s) = Hole
    BY <2>1, <2>2, <2>3, <2>4 DEF Then
  <2>5. CASE Apply(f, s) \in Nat
    <3>1. Apply(gh, Apply(f, s)) = Then(g, h, Apply(f, s))
      BY <2>5, ComposeMapLaw
    <3>2. Apply(f, s) # Hole
      BY <2>5 DEF Hole
    <3>3. QED
      BY <2>1, <2>2, <2>3, <3>1, <3>2 DEF Then
  <2>6. QED
    BY <2>4, <2>5, ApplyTyped
<1>3. IsCanonical(ComposeMap(fg, h)) /\ IsCanonical(ComposeMap(f, gh))
  BY <1>1, ComposeMapCanonical
<1>4. QED
  BY <1>2, <1>3, CanonicalUnique

------------------------------------------------------------------------------
(* Composites: a sequence of tapes, each with its placement and two maps.    *)

IsTape(tape) ==
  /\ tape = [phys |-> tape.phys, rmap |-> tape.rmap, wmap |-> tape.wmap]
  /\ IsMap(tape.rmap)
  /\ IsMap(tape.wmap)

\* A composite whose tapes are tapes of a machine (or a caller) of n tapes.
IsComposite(c, n) ==
  /\ c = [routine |-> c.routine, tapes |-> c.tapes]
  /\ DOMAIN c.tapes \subseteq Nat
  /\ c.tapes = [k \in DOMAIN c.tapes |-> c.tapes[k]]
  /\ \A k \in DOMAIN c.tapes : IsTape(c.tapes[k]) /\ c.tapes[k].phys \in 1..n
PlacesOf(c) == [k \in DOMAIN c.tapes |-> c.tapes[k].phys]

LEMMA ComposeTapeTyped ==
  ASSUME NEW o, NEW i, IsTape(o), IsTape(i)
  PROVE  IsTape(ComposeTape(o, i)) /\ ComposeTape(o, i).phys = o.phys
<1>1. IsMap(ComposeMap(o.rmap, i.rmap)) /\ IsMap(ComposeMap(i.wmap, o.wmap))
  BY ComposeMapCanonical DEF IsTape, IsCanonical
<1>2. QED
  BY <1>1 DEF ComposeTape, IsTape

LEMMA ComposeTapeAssociative ==
  ASSUME NEW o, NEW m, NEW i, IsTape(o), IsTape(m), IsTape(i)
  PROVE  ComposeTape(ComposeTape(o, m), i) = ComposeTape(o, ComposeTape(m, i))
<1>1. ComposeMap(ComposeMap(o.rmap, m.rmap), i.rmap)
        = ComposeMap(o.rmap, ComposeMap(m.rmap, i.rmap))
  BY ComposeMapAssociative DEF IsTape
<1>2. ComposeMap(ComposeMap(i.wmap, m.wmap), o.wmap)
        = ComposeMap(i.wmap, ComposeMap(m.wmap, o.wmap))
  BY ComposeMapAssociative DEF IsTape
<1>3. QED
  BY <1>1, <1>2 DEF ComposeTape

\* A call inside a bound routine is composed onto the frame the caller already
\* runs in (compose_composites): the frame of the callee does not depend on
\* which of the bindings on the way in were composed first.
THEOREM CompositesAssociative ==
  ASSUME NEW n \in Nat, NEW o, NEW m, NEW i,
         IsComposite(o, n),
         NEW a \in Nat, DOMAIN o.tapes = 1..a, IsComposite(m, a),
         NEW b \in Nat, DOMAIN m.tapes = 1..b, IsComposite(i, b)
  PROVE  ComposeComposites(ComposeComposites(o, m), i)
           = ComposeComposites(o, ComposeComposites(m, i))
<1> DEFINE om == ComposeComposites(o, m)
           mi == ComposeComposites(m, i)
<1>1. /\ om.tapes = [k \in 1..b |-> ComposeTape(o.tapes[m.tapes[k].phys], m.tapes[k])]
      /\ mi.routine = i.routine
      /\ mi.tapes = [k \in DOMAIN i.tapes |-> ComposeTape(m.tapes[i.tapes[k].phys], i.tapes[k])]
      /\ DOMAIN mi.tapes = DOMAIN i.tapes
  BY DEF ComposeComposites
<1>2. ASSUME NEW k \in DOMAIN i.tapes
      PROVE  ComposeTape(om.tapes[i.tapes[k].phys], i.tapes[k])
               = ComposeTape(o.tapes[mi.tapes[k].phys], mi.tapes[k])
  <2> DEFINE ti == i.tapes[k]
             tm == m.tapes[ti.phys]
             to == o.tapes[tm.phys]
  <2>1. ti.phys \in 1..b /\ IsTape(ti)
    BY DEF IsComposite
  <2>2. tm.phys \in 1..a /\ IsTape(tm)
    BY <2>1 DEF IsComposite
  <2>3. IsTape(to)
    BY <2>2 DEF IsComposite
  <2>4. om.tapes[ti.phys] = ComposeTape(to, tm)
    BY <1>1, <2>1
  <2>5. mi.tapes[k] = ComposeTape(tm, ti) /\ mi.tapes[k].phys = tm.phys
    <3>1. mi.tapes[k] = ComposeTape(tm, ti)
      BY <1>1
    <3> HIDE DEF ti, tm, mi
    <3>2. ComposeTape(tm, ti).phys = tm.phys
      BY <2>1, <2>2, ComposeTapeTyped
    <3>3. QED
      BY <3>1, <3>2
  <2> HIDE DEF ti, tm, to
  <2>6. ComposeTape(ComposeTape(to, tm), ti) = ComposeTape(to, ComposeTape(tm, ti))
    BY <2>1, <2>2, <2>3, ComposeTapeAssociative
  <2>7. QED
    BY <2>4, <2>5, <2>6 DEF ti, to
<1> HIDE DEF om, mi
<1>3. [k \in DOMAIN i.tapes |-> ComposeTape(om.tapes[i.tapes[k].phys], i.tapes[k])]
        = [k \in DOMAIN i.tapes |-> ComposeTape(o.tapes[mi.tapes[k].phys], mi.tapes[k])]
  BY <1>2
<1>4. ComposeComposites(om, i)
        = [routine |-> i.routine,
           tapes |-> [k \in DOMAIN i.tapes |-> ComposeTape(om.tapes[i.tapes[k].phys], i.tapes[k])]]
  BY DEF ComposeComposites
<1>5. ComposeComposites(o, mi)
        = [routine |-> i.routine,
           tapes |-> [k \in DOMAIN i.tapes |-> ComposeTape(o.tapes[mi.tapes[k].phys], mi.tapes[k])]]
  BY <1>1 DEF ComposeComposites
<1>6. QED
  BY <1>3, <1>4, <1>5 DEF om, mi

\* Only the tapes of one binding are checked to be distinct; a frame composed
\* of any number of such bindings still gives every tape a place of its own.
THEOREM PlacementStaysInjective ==
  ASSUME NEW n \in Nat, NEW a \in Nat, NEW o, NEW i,
         IsComposite(o, n), DOMAIN o.tapes = 1..a, IsComposite(i, a),
         Injective(PlacesOf(o)), Injective(PlacesOf(i))
  PROVE  /\ IsComposite(ComposeComposites(o, i), n)
         /\ Injective(PlacesOf(ComposeComposites(o, i)))
<1> DEFINE c == ComposeComposites(o, i)
<1>1. c = [routine |-> i.routine,
           tapes |-> [k \in DOMAIN i.tapes |-> ComposeTape(o.tapes[i.tapes[k].phys], i.tapes[k])]]
  BY DEF ComposeComposites
<1>2. ASSUME NEW k \in DOMAIN i.tapes
      PROVE  /\ IsTape(ComposeTape(o.tapes[i.tapes[k].phys], i.tapes[k]))
             /\ ComposeTape(o.tapes[i.tapes[k].phys], i.tapes[k]).phys
                  = o.tapes[i.tapes[k].phys].phys
             /\ o.tapes[i.tapes[k].phys].phys \in 1..n
             /\ i.tapes[k].phys \in 1..a
  <2>1. i.tapes[k].phys \in 1..a /\ IsTape(i.tapes[k])
    BY DEF IsComposite
  <2>2. IsTape(o.tapes[i.tapes[k].phys]) /\ o.tapes[i.tapes[k].phys].phys \in 1..n
    BY <2>1 DEF IsComposite
  <2>3. QED
    BY <2>1, <2>2, ComposeTapeTyped
<1> DEFINE T(k) == ComposeTape(o.tapes[i.tapes[k].phys], i.tapes[k])
<1>a. /\ c = [routine |-> i.routine, tapes |-> [k \in DOMAIN i.tapes |-> T(k)]]
      /\ \A k \in DOMAIN i.tapes : /\ IsTape(T(k))
                                   /\ T(k).phys = o.tapes[i.tapes[k].phys].phys
                                   /\ T(k).phys \in 1..n
  BY <1>1, <1>2
<1> HIDE DEF T, c
<1>b. /\ c.tapes = [k \in DOMAIN i.tapes |-> T(k)]
      /\ c = [routine |-> c.routine, tapes |-> c.tapes]
  BY <1>a
<1>c. /\ DOMAIN c.tapes = DOMAIN i.tapes
      /\ \A k \in DOMAIN i.tapes : c.tapes[k] = T(k)
  BY <1>b
<1>3. /\ DOMAIN c.tapes = DOMAIN i.tapes
      /\ \A k \in DOMAIN i.tapes : /\ IsTape(c.tapes[k])
                                   /\ c.tapes[k].phys = o.tapes[i.tapes[k].phys].phys
                                   /\ c.tapes[k].phys \in 1..n
  BY <1>a, <1>c
<1>4. IsComposite(c, n)
  <2>1. DOMAIN c.tapes \subseteq Nat
    BY <1>3 DEF IsComposite
  <2>2. c.tapes = [k \in DOMAIN c.tapes |-> c.tapes[k]]
    BY <1>b, <1>c
  <2>3. QED
    BY <1>b, <1>3, <2>1, <2>2 DEF IsComposite
<1> HIDE DEF c
<1>5. ASSUME NEW j \in DOMAIN i.tapes, NEW k \in DOMAIN i.tapes,
             c.tapes[j].phys = c.tapes[k].phys
      PROVE  j = k
  <2>1. o.tapes[i.tapes[j].phys].phys = o.tapes[i.tapes[k].phys].phys
    BY <1>3, <1>5
  <2>2. i.tapes[j].phys = i.tapes[k].phys
    BY <1>2, <2>1 DEF Injective, PlacesOf
  <2>3. QED
    BY <2>2 DEF Injective, PlacesOf
<1>6. QED
  BY <1>3, <1>4, <1>5 DEF c, Injective, PlacesOf

\* Composing with the identity map changes nothing on either side.
LEMMA IdentityMapLaws ==
  ASSUME NEW f, IsCanonical(f)
  PROVE  ComposeMap(Unchanged, f) = f /\ ComposeMap(f, Unchanged) = f
<1>1. IsMap(Unchanged)
  BY DEF IsMap, Unchanged
<1>2. \A s \in Nat : Apply(Unchanged, s) = s
  BY DEF Apply, Unchanged
<1>3. IsMap(f)
  BY DEF IsCanonical
<1>4. ASSUME NEW s \in Nat
      PROVE  /\ Apply(ComposeMap(Unchanged, f), s) = Apply(f, s)
             /\ Apply(ComposeMap(f, Unchanged), s) = Apply(f, s)
  <2>1. Apply(ComposeMap(Unchanged, f), s) = Then(Unchanged, f, s)
    BY <1>1, <1>3, ComposeMapLaw
  <2>2. Apply(ComposeMap(f, Unchanged), s) = Then(f, Unchanged, s)
    BY <1>1, <1>3, ComposeMapLaw
  <2>3. Then(Unchanged, f, s) = Apply(f, s)
    BY <1>2 DEF Then, Hole
  <2>4. Then(f, Unchanged, s) = Apply(f, s)
    BY <1>2, <1>3, ApplyTyped DEF Then
  <2>5. QED
    BY <2>1, <2>2, <2>3, <2>4
<1>5. IsCanonical(ComposeMap(Unchanged, f)) /\ IsCanonical(ComposeMap(f, Unchanged))
  BY <1>1, <1>3, ComposeMapCanonical
<1>6. QED
  BY <1>4, <1>5, CanonicalUnique

------------------------------------------------------------------------------
(* Bindings: what the maps lowered from a legal binding do.                  *)

\* The pairs of one tape of a binding, between alphabets of the given sizes.
PairsOver(pairs, callerCard, calleeCard) ==
  \A p \in pairs : /\ p = [src |-> p.src, dst |-> p.dst, oneWay |-> p.oneWay]
                   /\ p.src \in 0..callerCard-1
                   /\ p.dst \in 0..calleeCard-1
                   /\ p.oneWay \in BOOLEAN

LEMMA ReadMapApplied ==
  ASSUME NEW c \in Nat, NEW d \in Nat, NEW pairs, PairsOver(pairs, c, d),
         LegalPairs(pairs, d), NEW s \in Nat
  PROVE  /\ \A p \in pairs : p.src = s => Apply(ReadMap(pairs, c, d), s) = p.dst
         /\ (\A p \in pairs : p.src # s) =>
              Apply(ReadMap(pairs, c, d), s)
                = IF c # d /\ s \in 1..c-1 THEN Hole ELSE s
<1> DEFINE image == [t \in Sources(pairs) |-> (CHOOSE p \in pairs : p.src = t).dst]
           lost  == Close(Sources(pairs), c, d)
           moved == {t \in Sources(pairs) : image[t] # t /\ t \notin lost}
<1>1. ReadMap(pairs, c, d) = [pairs |-> [t \in moved |-> image[t]], holes |-> lost]
  BY DEF ReadMap, Canonical
<1>2. \A t \in Sources(pairs) : t \notin lost
  BY DEF Close
<1>3. Apply(ReadMap(pairs, c, d), s)
        = IF s \in lost THEN Hole ELSE IF s \in Sources(pairs) THEN image[s] ELSE s
  BY <1>1 DEF Apply
<1>4. ASSUME NEW p \in pairs, p.src = s
      PROVE  Apply(ReadMap(pairs, c, d), s) = p.dst
  <2>1. s \in Sources(pairs)
    BY <1>4 DEF Sources
  <2>2. image[s] = p.dst
    BY <1>4, <2>1 DEF LegalPairs
  <2>3. QED
    BY <1>2, <1>3, <2>1, <2>2
<1>5. ASSUME \A p \in pairs : p.src # s
      PROVE  Apply(ReadMap(pairs, c, d), s) = IF c # d /\ s \in 1..c-1 THEN Hole ELSE s
  <2>1. s \notin Sources(pairs)
    BY <1>5 DEF Sources
  <2>2. s \in lost <=> c # d /\ s \in 1..c-1
    BY <2>1 DEF Close
  <2>3. QED
    BY <1>3, <2>1, <2>2
<1>6. QED
  BY <1>4, <1>5

LEMMA WriteMapApplied ==
  ASSUME NEW c \in Nat, NEW d \in Nat, NEW pairs, PairsOver(pairs, c, d),
         LegalPairs(pairs, d), NEW s \in Nat
  PROVE  /\ \A p \in TwoWay(pairs) : p.dst = s => Apply(WriteMap(pairs, c, d), s) = p.src
         /\ (\A p \in TwoWay(pairs) : p.dst # s) =>
              Apply(WriteMap(pairs, c, d), s)
                = IF c # d /\ s \in 1..d-1 THEN Hole ELSE s
<1> DEFINE named == Images(TwoWay(pairs))
           image == [t \in named |-> (CHOOSE p \in TwoWay(pairs) : p.dst = t).src]
           lost  == Close(named, d, c)
           moved == {t \in named : image[t] # t /\ t \notin lost}
<1>1. WriteMap(pairs, c, d) = [pairs |-> [t \in moved |-> image[t]], holes |-> lost]
  BY DEF WriteMap, Canonical
<1>2. \A t \in named : t \notin lost
  BY DEF Close
<1>3. Apply(WriteMap(pairs, c, d), s)
        = IF s \in lost THEN Hole ELSE IF s \in named THEN image[s] ELSE s
  BY <1>1 DEF Apply
<1>4. ASSUME NEW p \in TwoWay(pairs), p.dst = s
      PROVE  Apply(WriteMap(pairs, c, d), s) = p.src
  <2>1. s \in named
    BY <1>4 DEF Images
  <2>2. image[s] = p.src
    BY <1>4, <2>1 DEF LegalPairs
  <2>3. QED
    BY <1>2, <1>3, <2>1, <2>2
<1>5. ASSUME \A p \in TwoWay(pairs) : p.dst # s
      PROVE  Apply(WriteMap(pairs, c, d), s) = IF c # d /\ s \in 1..d-1 THEN Hole ELSE s
  <2>1. s \notin named
    BY <1>5 DEF Images
  <2>2. s \in lost <=> c # d /\ s \in 1..d-1
    BY <2>1 DEF Close
  <2>3. QED
    BY <1>3, <2>1, <2>2
<1>6. QED
  BY <1>4, <1>5

\* The blank is only ever the blank: no legal binding lets the callee read a
\* blank cell as a symbol, a symbol that is written two ways as the blank, or
\* trap on the blank.
THEOREM BlankStaysBlank ==
  ASSUME NEW c \in Nat \ {0}, NEW d \in Nat \ {0}, NEW pairs, PairsOver(pairs, c, d),
         LegalPairs(pairs, d)
  PROVE  /\ Apply(ReadMap(pairs, c, d), 0) = 0
         /\ Apply(WriteMap(pairs, c, d), 0) = 0
<1>1. \A p \in pairs : p.src = 0 => p.dst = 0
  BY DEF LegalPairs
<1>2. \A p \in TwoWay(pairs) : p.dst = 0 => p.src = 0
  BY DEF LegalPairs, TwoWay
<1>3. Apply(ReadMap(pairs, c, d), 0) = 0
  BY <1>1, ReadMapApplied
<1>4. Apply(WriteMap(pairs, c, d), 0) = 0
  BY <1>2, WriteMapApplied
<1>5. QED
  BY <1>3, <1>4

\* A bijection between the two-way pairs over an alphabet of one size: every
\* symbol is the image of one.
LEMMA InjectiveIsOnto ==
  ASSUME NEW n \in Nat, NEW f \in [0..n-1 -> 0..n-1], Injective(f), NEW y \in 0..n-1
  PROVE  \E x \in 0..n-1 : f[x] = y
<1>1. IsFiniteSet(0..n-1)
  BY FS_Interval
<1>2. f \in Injection(0..n-1, 0..n-1)
  BY DEF Injection, IsInjective, Injective
<1>3. f \in Surjection(0..n-1, 0..n-1)
  BY <1>1, <1>2, FS_Injection
<1>4. QED
  BY <1>3 DEF Surjection

\* What a bound callee writes it reads back: when a write is not a hole, the
\* symbol the caller's tape then holds stands for the symbol written, unless
\* a one-way pair gives that symbol of the caller another reading.  It is the
\* completion check over alphabets of one size that makes it so.
THEOREM WrittenReadsBack ==
  ASSUME NEW c \in Nat \ {0}, NEW d \in Nat \ {0}, NEW pairs, PairsOver(pairs, c, d),
         LegalPairs(pairs, d), c = d => Injective(Completed(pairs, c)),
         NEW y \in 0..d-1,
         Apply(WriteMap(pairs, c, d), y) # Hole,
         \A p \in pairs : p.oneWay => p.src # Apply(WriteMap(pairs, c, d), y)
  PROVE  Apply(ReadMap(pairs, c, d), Apply(WriteMap(pairs, c, d), y)) = y
<1> DEFINE w == Apply(WriteMap(pairs, c, d), y)
<1>1. CASE \E p \in TwoWay(pairs) : p.dst = y
  <2>1. PICK p \in TwoWay(pairs) : p.dst = y
    BY <1>1
  <2>2. w = p.src
    BY <2>1, WriteMapApplied
  <2>3. p \in pairs /\ p.src \in Nat
    BY DEF TwoWay, PairsOver
  <2>4. QED
    BY <2>1, <2>2, <2>3, ReadMapApplied
<1>2. CASE \A p \in TwoWay(pairs) : p.dst # y
  <2>1. w = y /\ (c # d => y = 0)
    BY <1>2, WriteMapApplied
  <2>2. ASSUME c = d PROVE \A p \in TwoWay(pairs) : p.src # y
    <3> DEFINE f == Completed(pairs, c)
    <3>1. \A p \in pairs, q \in pairs : p.src = q.src => p.dst = q.dst
      BY DEF LegalPairs
    <3>2. ASSUME NEW s \in 0..c-1
          PROVE  /\ f[s] \in 0..c-1
                 /\ \A p \in TwoWay(pairs) : p.src = s => f[s] = p.dst
                 /\ (\A p \in TwoWay(pairs) : p.src # s) => f[s] = s
      BY <2>2, <3>1 DEF Completed, TwoWay, PairsOver
    <3>3. f \in [0..c-1 -> 0..c-1]
      BY <3>2 DEF Completed
    <3> HIDE DEF f
    <3>4. PICK x \in 0..c-1 : f[x] = y
      <4>1. Injective(f) /\ y \in 0..c-1 /\ c \in Nat
        BY <2>2 DEF f
      <4>2. QED
        BY <3>3, <4>1, InjectiveIsOnto
    <3>5. \A p \in TwoWay(pairs) : p.src # x
      BY <1>2, <3>2, <3>4
    <3>6. x = y
      BY <3>2, <3>4, <3>5
    <3>7. QED
      BY <3>5, <3>6
  <2>3. ASSUME c # d PROVE \A p \in TwoWay(pairs) : p.src # y
    BY <1>2, <2>1, <2>3 DEF LegalPairs, TwoWay
  <2>4. \A p \in pairs : p.src # y
    BY <2>1, <2>2, <2>3 DEF TwoWay
  <2>5. y \in Nat
    OBVIOUS
  <2>6. Apply(ReadMap(pairs, c, d), y) = y
    BY <2>1, <2>4, <2>5, ReadMapApplied
  <2>7. QED
    BY <2>1, <2>6
<1>3. QED
  BY <1>1, <1>2

-----------------------------------------------------------------------------
(* Why dead_rows may delete what it deletes, for tables of any width, length *)
(* and alphabet: the arguments its comments make (optimizer/dead_rows.rs).   *)

\* What is on the tape after a row has written w over s.
Written(w, s) == IF w = Keep THEN s ELSE w
\* Two rows do the same to tapes that show seen, a volatile one to the letter.
ActsAlike(r, other, seen, volatile) ==
  /\ r.to = other.to /\ r.moves = other.moves
  /\ \A k \in DOMAIN volatile :
       IF volatile[k] THEN r.write[k] = other.write[k]
       ELSE Written(r.write[k], seen[k]) = Written(other.write[k], seen[k])

\* Rows over the tapes of volatile; a write is a symbol or Keep.
RowsOver(rows, n, volatile) ==
  /\ DOMAIN rows = 1..n
  /\ \A p \in 1..n : /\ DOMAIN rows[p].cells = DOMAIN volatile
                     /\ \A k \in DOMAIN volatile : rows[p].write[k] # Wildcard

LEMMA LeastOf ==
  ASSUME NEW S, S \subseteq Nat, S # {}
  PROVE  \E m \in S : \A k \in S : m <= k
<1> DEFINE R == OpToRel(<, Nat)
<1>1. IsWellFoundedOn(R, Nat)
  BY NatLessThanWellFounded, Zenon
<1>2. PICK m \in S : \A k \in S : <<k, m>> \notin R
  <2> HIDE DEF R
  <2> QED BY <1>1, WFMin
<1>3. \A k \in S : ~(k < m)
  BY <1>2 DEF R, OpToRel
<1>4. QED
  BY <1>3

LEMMA GreatestOf ==
  ASSUME NEW n \in Nat, NEW S, S \subseteq 1..n, S # {}
  PROVE  \E m \in S : \A k \in S : k <= m
<1> DEFINE T == {n - c : c \in S}
<1>1. T \subseteq Nat /\ T # {}
  <2>1. \A c \in S : n - c \in Nat
    OBVIOUS
  <2>2. QED
    BY <2>1
<1>2. PICK t \in T : \A u \in T : t <= u
  BY <1>1, LeastOf, Zenon
<1>3. PICK m \in S : t = n - m
  OBVIOUS
<1>4. ASSUME NEW k \in S PROVE k <= m
  <2>1. n - m <= n - k
    BY <1>2, <1>3
  <2>2. QED
    BY <2>1
<1>5. QED
  BY <1>4

\* A row that matches what another does not: no tuple matches disjoint rows.
LEMMA DisjointRowsPart ==
  ASSUME NEW a, NEW b, NEW seen, DOMAIN a.cells = DOMAIN b.cells,
         Disjoint(a.cells, b.cells), Fits(b, seen)
  PROVE  ~Fits(a, seen)
BY DEF Disjoint, Fits

LEMMA CoveringRowFits ==
  ASSUME NEW a, NEW b, NEW seen, DOMAIN a.cells = DOMAIN b.cells,
         Covers(a.cells, b.cells), Fits(b, seen)
  PROVE  Fits(a, seen)
BY DEF Covers, Fits

\* On a tape where the row matches one symbol, writing it back is keeping it.
LEMMA SameEffectActsAlike ==
  ASSUME NEW r, NEW other, NEW seen, NEW volatile,
         DOMAIN r.cells = DOMAIN volatile,
         \A k \in DOMAIN volatile : r.write[k] # Wildcard /\ other.write[k] # Wildcard,
         Fits(r, seen), SameEffect(r, other, volatile)
  PROVE  ActsAlike(r, other, seen, volatile)
<1>1. ASSUME NEW k \in DOMAIN volatile, ~volatile[k]
      PROVE  Written(r.write[k], seen[k]) = Written(other.write[k], seen[k])
  <2>1. r.cells[k] \in {Wildcard, seen[k]}
    BY DEF Fits
  <2>2. SameWrite(r, other, k, volatile)
    BY DEF SameEffect
  <2>3. CASE r.write[k] = other.write[k]
    BY <2>3 DEF Written
  <2>4. CASE {r.write[k], other.write[k]} = {Keep, r.cells[k]}
    <3>1. r.cells[k] = seen[k]
      BY <2>1, <2>4 DEF Keep, Wildcard
    <3>2. QED
      BY <2>4, <3>1 DEF Written
  <2>5. QED
    BY <2>2, <2>3, <2>4 DEF SameWrite
<1>2. ASSUME NEW k \in DOMAIN volatile, volatile[k] PROVE r.write[k] = other.write[k]
  BY <1>2 DEF SameEffect, SameWrite
<1>3. QED
  BY <1>1, <1>2 DEF ActsAlike, SameEffect

LEMMA ActsAlikeChains ==
  ASSUME NEW r, NEW s, NEW t, NEW seen, NEW volatile,
         ActsAlike(r, s, seen, volatile), ActsAlike(s, t, seen, volatile)
  PROVE  ActsAlike(r, t, seen, volatile)
BY DEF ActsAlike

\* Two rows that both come first in the table would be one row.
LEMMA PrecedesOneWay ==
  ASSUME NEW rules, NEW K, NEW i \in Nat, NEW j \in Nat,
         DOMAIN rules[i].cells = 1..K, DOMAIN rules[j].cells = 1..K, K \in Nat,
         rules[i].cells \in [1..K -> Int], rules[j].cells \in [1..K -> Int],
         Precedes(rules, i, j)
  PROVE  ~Precedes(rules, j, i)
<1> DEFINE a == rules[i].cells
           b == rules[j].cells
<1>1. Band(a) \in Int /\ Band(b) \in Int
  BY DEF Band
<1>2. ASSUME RowLess(a, b) PROVE ~RowLess(b, a)
  <2>1. PICK k \in 1..K : a[k] < b[k] /\ \A m \in 1..k-1 : a[m] = b[m]
    BY <1>2 DEF RowLess
  <2>2. ASSUME NEW l \in 1..K, b[l] < a[l], \A m \in 1..l-1 : b[m] = a[m] PROVE FALSE
    <3>1. CASE l < k
      BY <3>1, <2>1, <2>2
    <3>2. CASE l = k
      BY <3>2, <2>1, <2>2
    <3>3. CASE k < l
      BY <3>3, <2>1, <2>2
    <3>4. QED
      BY <3>1, <3>2, <3>3
  <2>3. QED
    BY <2>2 DEF RowLess
<1>3. Band(a) = Band(b) => (IsExact(a) <=> IsExact(b))
  BY DEF Band
<1> HIDE DEF a, b
<1>4. CASE Band(a) < Band(b)
  <2>1. ~(Band(b) < Band(a)) /\ Band(a) # Band(b)
    BY <1>1, <1>4
  <2>2. QED
    BY <2>1 DEF Precedes, a, b
<1>5. CASE Band(a) = Band(b)
  <2>1. CASE IsExact(a) /\ a # b
    <3>1. RowLess(a, b)
      BY <1>1, <1>5, <2>1 DEF Precedes, a, b
    <3>2. ~RowLess(b, a) /\ IsExact(b) /\ b # a
      BY <3>1, <1>2, <1>3, <1>5, <2>1
    <3>3. ~(Band(b) < Band(a))
      BY <1>1, <1>5
    <3>4. QED
      BY <3>2, <3>3 DEF Precedes, a, b
  <2>2. CASE ~(IsExact(a) /\ a # b)
    <3>1. i < j
      BY <1>1, <1>5, <2>2 DEF Precedes, a, b
    <3>2. ~(IsExact(b) /\ b # a) /\ ~(Band(b) < Band(a)) /\ ~(j < i)
      BY <3>1, <1>1, <1>3, <1>5, <2>2
    <3>3. QED
      BY <3>2 DEF Precedes, a, b
  <2>3. QED
    BY <2>1, <2>2
<1>6. QED
  BY <1>4, <1>5 DEF Precedes, a, b

\* A row whose band holds an earlier row that covers it never fires: whatever it
\* matches, a row that comes before it in the emitted table, and not the other
\* way round, matches too (dead_rows.rs:27-43).
THEOREM ShadowedRowNeverFires ==
  ASSUME NEW rules, NEW K \in Nat, NEW L \in Nat, DOMAIN rules = 1..L,
         \A p \in 1..L : rules[p].cells \in [1..K -> Int],
         NEW k \in ShadowedRows(rules), NEW seen, Fits(rules[k], seen)
  PROVE  \E j \in 1..L : /\ Fits(rules[j], seen)
                         /\ Precedes(rules, j, k) /\ ~Precedes(rules, k, j)
<1>1. k \in 1..L
  BY DEF ShadowedRows
<1>2. PICK j \in 1..k-1 : /\ Band(rules[j].cells) = Band(rules[k].cells)
                          /\ Covers(rules[j].cells, rules[k].cells)
  BY DEF ShadowedRows
<1>3. j \in 1..L /\ DOMAIN rules[j].cells = 1..K /\ DOMAIN rules[k].cells = 1..K
  BY <1>1, <1>2
<1>4. Fits(rules[j], seen)
  BY <1>2, <1>3, CoveringRowFits
<1>5. IsExact(rules[j].cells) => rules[j].cells = rules[k].cells
  <2>1. ASSUME IsExact(rules[j].cells) PROVE \A m \in 1..K : rules[j].cells[m] = rules[k].cells[m]
    BY <2>1, <1>2, <1>3 DEF IsExact, Covers
  <2>2. rules[j].cells \in [1..K -> Int] /\ rules[k].cells \in [1..K -> Int]
    BY <1>1, <1>3
  <2>3. ASSUME IsExact(rules[j].cells) PROVE rules[j].cells = rules[k].cells
    <3>1. \A m \in 1..K : rules[j].cells[m] = rules[k].cells[m]
      BY <2>1, <2>3
    <3>2. /\ rules[j].cells = [m \in 1..K |-> rules[j].cells[m]]
          /\ rules[k].cells = [m \in 1..K |-> rules[k].cells[m]]
      BY <2>2
    <3>3. [m \in 1..K |-> rules[j].cells[m]] = [m \in 1..K |-> rules[k].cells[m]]
      BY <3>1
    <3>4. QED
      BY <3>2, <3>3, Zenon
  <2>4. QED
    BY <2>3
<1>6. Precedes(rules, j, k)
  <2>1. j < k
    BY <1>1
  <2>2. QED
    BY <1>2, <1>5, <2>1 DEF Precedes
<1>7. ~Precedes(rules, k, j)
  <2>1. /\ j \in Nat /\ k \in Nat
        /\ rules[j].cells \in [1..K -> Int] /\ rules[k].cells \in [1..K -> Int]
    BY <1>1, <1>3
  <2>2. QED
    BY <1>3, <1>6, <2>1, PrecedesOneWay
<1>8. QED
  BY <1>3, <1>4, <1>6, <1>7

\* Deleting all subsumed rows of a table at once is sound, whole chains of them
\* included: whatever is read, the row that fired before did what the row that
\* fires now does, to the letter on a volatile band (dead_rows.rs:98-119).
THEOREM SubsumptionIsSound ==
  ASSUME NEW n \in Nat, NEW rows, NEW volatile, RowsOver(rows, n, volatile), NEW seen,
         NEW x \in 1..n, Fits(rows[x], seen), \A p \in 1..x-1 : ~Fits(rows[p], seen)
  PROVE  \E y \in (1..n) \ SubsumedRows(rows, volatile) :
           /\ Fits(rows[y], seen)
           /\ \A p \in (1..n) \ SubsumedRows(rows, volatile) : p < y => ~Fits(rows[p], seen)
           /\ ActsAlike(rows[x], rows[y], seen, volatile)
<1> DEFINE gone == SubsumedRows(rows, volatile)
           kept == (1..n) \ gone
           stand == {c \in 1..n : /\ Fits(rows[c], seen)
                                  /\ \A p \in kept : p < c => ~Fits(rows[p], seen)
                                  /\ ActsAlike(rows[x], rows[c], seen, volatile)}
<1>1. x \in stand
  BY DEF ActsAlike
<1>2. PICK y \in stand : \A c \in stand : c <= y
  <2>1. stand \subseteq 1..n /\ stand # {}
    BY <1>1
  <2>2. QED
    <3> HIDE DEF stand
    <3> QED BY <2>1, GreatestOf
<1>3. ASSUME y \in gone PROVE FALSE
  <2>1. PICK q \in 1..n : StandsFor(rows, volatile, q, y)
    BY <1>3 DEF SubsumedRows, RowsOver
  <2>2. /\ DOMAIN rows[y].cells = DOMAIN volatile
        /\ DOMAIN rows[q].cells = DOMAIN volatile
        /\ \A k \in DOMAIN volatile : rows[y].write[k] # Wildcard /\ rows[q].write[k] # Wildcard
    BY DEF RowsOver
  <2>3. Fits(rows[y], seen) /\ ActsAlike(rows[x], rows[y], seen, volatile)
    OBVIOUS
  <2>4. Fits(rows[q], seen)
    BY <2>1, <2>2, <2>3, CoveringRowFits DEF StandsFor
  <2>5. ActsAlike(rows[y], rows[q], seen, volatile)
    BY <2>1, <2>2, <2>3, SameEffectActsAlike DEF StandsFor
  <2>6. ActsAlike(rows[x], rows[q], seen, volatile)
    BY <2>3, <2>5, ActsAlikeChains
  <2>7. ASSUME NEW p \in kept, p < q PROVE ~Fits(rows[p], seen)
    <3>1. CASE p < y
      BY <3>1
    <3>2. CASE p = y
      BY <3>2, <1>3
    <3>3. CASE y < p
      <4>1. p \in y+1..q-1
        BY <3>3, <2>7
      <4>2. Disjoint(rows[p].cells, rows[y].cells)
        BY <4>1, <2>1 DEF StandsFor
      <4>3. DOMAIN rows[p].cells = DOMAIN rows[y].cells
        BY DEF RowsOver
      <4>4. QED
        BY <4>2, <4>3, <2>3, DisjointRowsPart
    <3>4. QED
      BY <3>1, <3>2, <3>3
  <2>8. q \in stand /\ y < q
    BY <2>1, <2>4, <2>6, <2>7 DEF StandsFor
  <2>9. QED
    BY <1>2, <2>8
<1>4. QED
  BY <1>2, <1>3

-----------------------------------------------------------------------------
(* Reach along the edges of a finite set.                                    *)

\* One step further along the edges.
Further(S, edges) == S \cup {e[2] : e \in {x \in edges : x[1] \in S}}

\* w holds what the first k steps reach.
Walks(w, edges, r, k) ==
  /\ DOMAIN w = 0..k /\ w[0] = {r}
  /\ \A i \in 1..k : w[i] = Further(w[i - 1], edges)

LEMMA WalkExists ==
  ASSUME NEW edges, NEW r, NEW n \in Nat
  PROVE  \A k \in 0..n : \E w : Walks(w, edges, r, k)
<1> DEFINE Bad == {k \in 0..n : ~\E w : Walks(w, edges, r, k)}
<1>1. SUFFICES ASSUME Bad # {} PROVE FALSE
  OBVIOUS
<1>2. PICK k \in Bad : \A j \in Bad : k <= j
  <2>1. Bad \in SUBSET Nat
    OBVIOUS
  <2> HIDE DEF Bad
  <2>2. QED
    BY <1>1, <2>1, LeastOf
<1>3. k # 0
  <2> DEFINE w == [i \in 0..0 |-> {r}]
  <2>1. Walks(w, edges, r, 0)
    BY DEF Walks
  <2>2. QED
    BY <1>2, <2>1
<1>4. k - 1 \in 0..n /\ k \in 1..n /\ k - 1 \notin Bad
  BY <1>2, <1>3
<1>5. PICK w : Walks(w, edges, r, k - 1)
  BY <1>4
<1> DEFINE u == [i \in 0..k |-> IF i = k THEN Further(w[k - 1], edges) ELSE w[i]]
<1>6. DOMAIN u = 0..k /\ u[0] = {r}
  BY <1>3, <1>4, <1>5 DEF Walks
<1>7. ASSUME NEW i \in 1..k PROVE u[i] = Further(u[i - 1], edges)
  <2>1. CASE i = k
    BY <1>4, <2>1
  <2>2. CASE i # k
    <3>1. i \in 1..k - 1 /\ i - 1 \in 0..k - 1
      BY <1>4, <2>2
    <3>2. u[i] = w[i] /\ u[i - 1] = w[i - 1]
      BY <1>4, <3>1
    <3>3. QED
      BY <1>5, <3>1, <3>2 DEF Walks
  <2>3. QED
    BY <2>1, <2>2
<1>8. Walks(u, edges, r, k)
  BY <1>6, <1>7 DEF Walks
<1>9. QED
  BY <1>2, <1>8

\* ReachOf is where a walk of as many steps as there are edges ends.
LEMMA ReachWalks ==
  ASSUME NEW edges, NEW r, IsFiniteSet(edges)
  PROVE  \E w : Walks(w, edges, r, Cardinality(edges)) /\ ReachOf(edges, r) = w[Cardinality(edges)]
<1> DEFINE n == Cardinality(edges)
           Step(f, k) == IF k = 0 THEN {r}
                         ELSE f[k - 1] \cup {e[2] : e \in {x \in edges : x[1] \in f[k - 1]}}
           W == CHOOSE f : f = [k \in 0..n |-> Step(f, k)]
<1>1. n \in Nat
  BY FS_CardinalityType
<1>2. PICK v : Walks(v, edges, r, n)
  <2> HIDE DEF n
  <2>1. n \in 0..n
    BY <1>1
  <2>2. QED
    BY <1>1, <2>1, WalkExists
<1> HIDE DEF n
<1> DEFINE v0 == [k \in 0..n |-> v[k]]
<1>3. v0 = [k \in 0..n |-> Step(v0, k)]
  <2>1. ASSUME NEW k \in 0..n PROVE v0[k] = Step(v0, k)
    <3>1. CASE k = 0
      BY <1>1, <1>2, <3>1 DEF Walks
    <3>2. CASE k # 0
      <4>1. k \in 1..n /\ k - 1 \in 0..n
        BY <1>1, <3>2
      <4>2. v0[k] = v[k] /\ v0[k - 1] = v[k - 1]
        BY <4>1
      <4>3. v[k] = Further(v[k - 1], edges)
        BY <1>2, <4>1 DEF Walks
      <4>4. QED
        BY <3>2, <4>2, <4>3 DEF Further
    <3>3. QED
      BY <3>1, <3>2
  <2> HIDE DEF Step
  <2>2. QED
    BY <2>1
<1>4. W = [k \in 0..n |-> Step(W, k)]
  <2> HIDE DEF v0, Step
  <2>1. QED
    BY <1>3
<1>5. ReachOf(edges, r) = W[n]
  BY DEF ReachOf, n
<1> HIDE DEF W
<1>6. Walks(W, edges, r, n)
  <2>1. \A k \in 0..n : W[k] = Step(W, k)
    <3> HIDE DEF Step
    <3> QED BY <1>4
  <2>2. DOMAIN W = 0..n
    BY <1>4
  <2>3. W[0] = {r}
    <3>1. 0 \in 0..n
      BY <1>1
    <3>2. W[0] = Step(W, 0) /\ Step(W, 0) = {r}
      BY <2>1, <3>1
    <3>3. QED
      BY <3>2
  <2>4. ASSUME NEW k \in 1..n PROVE W[k] = Further(W[k - 1], edges)
    <3>1. k \in 0..n /\ k # 0
      BY <1>1
    <3>2. QED
      BY <2>1, <3>1 DEF Further
  <2>5. QED
    BY <2>2, <2>3, <2>4 DEF Walks
<1>7. QED
  BY <1>5, <1>6 DEF n

\* The walk starts at r.
LEMMA ReachRoot ==
  ASSUME NEW edges, NEW r, IsFiniteSet(edges)
  PROVE  r \in ReachOf(edges, r)
<1> DEFINE n == Cardinality(edges)
<1>1. PICK w : Walks(w, edges, r, n) /\ ReachOf(edges, r) = w[n]
  BY ReachWalks
<1>2. n \in Nat
  BY FS_CardinalityType
<1> HIDE DEF n
<1> DEFINE Bad == {k \in 0..n : r \notin w[k]}
<1>3. ASSUME Bad # {} PROVE FALSE
  <2>1. PICK k \in Bad : \A j \in Bad : k <= j
    <3>1. Bad \in SUBSET Nat
      BY <1>2
    <3> HIDE DEF Bad
    <3>2. QED
      BY <1>3, <3>1, LeastOf
  <2>2. k # 0
    BY <1>1, <2>1 DEF Walks
  <2>3. k \in 1..n /\ k - 1 \in 0..n /\ k - 1 \notin Bad
    BY <1>2, <2>1, <2>2
  <2>4. r \in w[k - 1] /\ w[k] = Further(w[k - 1], edges)
    BY <1>1, <2>3 DEF Walks
  <2>5. QED
    BY <2>1, <2>4 DEF Further
<1>4. n \in 0..n /\ n \notin Bad
  BY <1>2, <1>3
<1>5. QED
  BY <1>1, <1>4 DEF n

\* A walk stays in what the edges close.
LEMMA ReachLeast ==
  ASSUME NEW edges, NEW r, IsFiniteSet(edges), NEW T, r \in T,
         \A e \in edges : e[1] \in T => e[2] \in T
  PROVE  ReachOf(edges, r) \subseteq T
<1> DEFINE n == Cardinality(edges)
<1>1. PICK w : Walks(w, edges, r, n) /\ ReachOf(edges, r) = w[n]
  BY ReachWalks
<1>2. n \in Nat
  BY FS_CardinalityType
<1> HIDE DEF n
<1> DEFINE Bad == {k \in 0..n : ~(w[k] \subseteq T)}
<1>3. ASSUME Bad # {} PROVE FALSE
  <2>1. PICK k \in Bad : \A j \in Bad : k <= j
    <3>1. Bad \in SUBSET Nat
      BY <1>2
    <3> HIDE DEF Bad
    <3>2. QED
      BY <1>3, <3>1, LeastOf
  <2>2. k # 0
    BY <1>1, <2>1 DEF Walks
  <2>3. k \in 1..n /\ k - 1 \in 0..n /\ k - 1 \notin Bad
    BY <1>2, <2>1, <2>2
  <2>4. w[k - 1] \subseteq T /\ w[k] = Further(w[k - 1], edges)
    BY <1>1, <2>3 DEF Walks
  <2>5. w[k] \subseteq T
    BY <2>4 DEF Further
  <2>6. QED
    BY <2>1, <2>5
<1>4. n \in 0..n /\ n \notin Bad
  BY <1>2, <1>3
<1>5. QED
  BY <1>1, <1>4 DEF n

\* As many steps as there are edges suffice: until the walk is closed, each
\* step comes to a place with an edge not seen before.
LEMMA ReachClosed ==
  ASSUME NEW edges, NEW r, IsFiniteSet(edges)
  PROVE  \A e \in edges : e[1] \in ReachOf(edges, r) => e[2] \in ReachOf(edges, r)
<1> DEFINE n == Cardinality(edges)
           Seen(S) == {x \in edges : x[1] \in S}
           Shut(S) == \A x \in Seen(S) : x[2] \in S
<1>1. PICK w : Walks(w, edges, r, n) /\ ReachOf(edges, r) = w[n]
  BY ReachWalks
<1>2. n \in Nat
  BY FS_CardinalityType
<1>3. ASSUME NEW S
      PROVE  IsFiniteSet(Seen(S)) /\ Cardinality(Seen(S)) \in Nat /\ Cardinality(Seen(S)) <= n
  <2>1. Seen(S) \in SUBSET edges
    OBVIOUS
  <2> HIDE DEF Seen
  <2>2. IsFiniteSet(Seen(S)) /\ Cardinality(Seen(S)) <= n
    BY <2>1, FS_Subset
  <2>3. QED
    BY <2>2, FS_CardinalityType
<1> HIDE DEF n
<1> DEFINE Bad == {k \in 0..n : ~Shut(w[k]) /\ ~(Cardinality(Seen(w[k])) >= k + 1)}
<1>4. ASSUME Bad # {} PROVE FALSE
  <2>1. PICK k \in Bad : \A j \in Bad : k <= j
    <3>1. Bad \in SUBSET Nat
      BY <1>2
    <3> HIDE DEF Bad
    <3>2. QED
      BY <1>4, <3>1, LeastOf
  <2>2. ~Shut(w[k]) /\ ~(Cardinality(Seen(w[k])) >= k + 1) /\ k \in 0..n
    BY <2>1
  <2>3. k # 0
    <3>1. Seen(w[k]) # {}
      BY <2>2
    <3> HIDE DEF Seen, Shut
    <3>2. Cardinality(Seen(w[k])) # 0 /\ Cardinality(Seen(w[k])) \in Nat
      BY <1>3, <3>1, FS_EmptySet
    <3>3. QED
      BY <2>2, <3>2
  <2>4. k \in 1..n /\ k - 1 \in 0..n /\ k - 1 \notin Bad
    BY <1>2, <2>1, <2>3
  <2>5. w[k] = Further(w[k - 1], edges)
    BY <1>1, <2>4 DEF Walks
  <2>6. ~Shut(w[k - 1])
    <3>1. ASSUME Shut(w[k - 1]) PROVE w[k] = w[k - 1]
      BY <2>5, <3>1 DEF Further
    <3> HIDE DEF Shut
    <3>2. QED
      BY <2>2, <3>1
  <2>7. Cardinality(Seen(w[k - 1])) >= (k - 1) + 1
    BY <2>4, <2>6
  <2>8. Seen(w[k - 1]) \in SUBSET Seen(w[k])
    BY <2>5 DEF Further
  <2>9. Seen(w[k - 1]) # Seen(w[k])
    <3>1. ASSUME Seen(w[k - 1]) = Seen(w[k]) PROVE Shut(w[k])
      <4>1. ASSUME NEW x \in Seen(w[k]) PROVE x[2] \in w[k]
        <5>1. x \in edges /\ x[1] \in w[k - 1]
          BY <3>1
        <5>2. QED
          BY <2>5, <5>1 DEF Further
      <4>2. QED
        BY <4>1
    <3>2. QED
      BY <2>2, <3>1
  <2> HIDE DEF Seen, Shut
  <2>10. /\ Cardinality(Seen(w[k - 1])) <= Cardinality(Seen(w[k]))
         /\ Cardinality(Seen(w[k - 1])) # Cardinality(Seen(w[k]))
         /\ Cardinality(Seen(w[k - 1])) \in Nat /\ Cardinality(Seen(w[k])) \in Nat
    BY <1>3, <2>8, <2>9, FS_Subset
  <2>11. QED
    BY <2>2, <2>4, <2>7, <2>10
<1>5. n \in 0..n /\ n \notin Bad
  <2>1. n \in 0..n
    BY <1>2
  <2> HIDE DEF Bad
  <2>2. QED
    BY <1>4, <2>1
<1>6. Shut(w[n])
  <2>1. ~(Cardinality(Seen(w[n])) >= n + 1)
    <3> HIDE DEF Seen
    <3> QED BY <1>2, <1>3
  <2>2. QED
    BY <1>5, <2>1
<1>7. QED
  BY <1>1, <1>6 DEF n

\* What is reached and is not where the walk starts is reached from elsewhere.
LEMMA ReachedFromElsewhere ==
  ASSUME NEW edges, NEW r, IsFiniteSet(edges), NEW f \in ReachOf(edges, r), f # r
  PROVE  \E e \in edges : e[1] \in ReachOf(edges, r) \ {f} /\ e[2] = f
<1> DEFINE T == ReachOf(edges, r) \ {f}
<1>1. SUFFICES ASSUME \A e \in edges : e[1] \in T => e[2] # f
               PROVE  FALSE
  BY Zenon
<1>2. r \in T
  BY ReachRoot
<1>3. \A e \in edges : e[1] \in T => e[2] \in T
  BY <1>1, ReachClosed
<1> HIDE DEF T
<1>4. ReachOf(edges, r) \subseteq T
  BY <1>2, <1>3, ReachLeast
<1>5. QED
  BY <1>4 DEF T

\* The values of a function on a finite set.
LEMMA ImageFinite ==
  ASSUME NEW f, IsFiniteSet(DOMAIN f)
  PROVE  IsFiniteSet({f[x] : x \in DOMAIN f})
<1> DEFINE T == {f[x] : x \in DOMAIN f}
           h == [x \in DOMAIN f |-> f[x]]
<1>1. h \in [DOMAIN f -> T] /\ \A t \in T : \E x \in DOMAIN f : h[x] = t
  OBVIOUS
<1>2. h \in Surjection(DOMAIN f, T)
  BY <1>1 DEF Surjection
<1> HIDE DEF T, h
<1>3. IsFiniteSet(T)
  BY <1>2, FS_Surjection
<1>4. QED
  BY <1>3 DEF T

\* The members of finitely many finite sets.
LEMMA UnionFinite ==
  ASSUME NEW f, IsFiniteSet(DOMAIN f), \A x \in DOMAIN f : IsFiniteSet(f[x])
  PROVE  IsFiniteSet(UNION {f[x] : x \in DOMAIN f})
<1>1. IsFiniteSet({f[x] : x \in DOMAIN f})
  BY ImageFinite
<1>2. \A T \in {f[x] : x \in DOMAIN f} : IsFiniteSet(T)
  OBVIOUS
<1>3. QED
  BY <1>1, <1>2, FS_UNION

\* SetToSeq lists a finite set without repetition.
LEMMA Listed ==
  ASSUME NEW S, IsFiniteSet(S)
  PROVE  \E f \in [1..Cardinality(S) -> S] :
           /\ \A a, b \in DOMAIN f : f[a] = f[b] => a = b
           /\ \A x \in S : \E i \in 1..Cardinality(S) : f[i] = x
<1> DEFINE n == Cardinality(S)
<1>1. PICK f \in Bijection(1..n, S) : TRUE
  BY FS_CardinalityType DEF ExistsBijection
<1>2. f \in [1..n -> S] /\ \A x \in S : \E i \in 1..n : f[i] = x
  BY <1>1 DEF Bijection, Surjection
<1>3. \A a, b \in 1..n : f[a] = f[b] => a = b
  BY <1>1 DEF Bijection, Injection, IsInjective
<1> HIDE DEF n
<1>4. QED
  BY <1>2, <1>3 DEF n

=============================================================================
