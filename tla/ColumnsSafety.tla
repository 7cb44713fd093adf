------------------------------ MODULE ColumnsSafety -----------------------------
(*****************************************************************************)
(* The two build columns, for objects of any size and any number of them:    *)
(* what is linked is what would be linked if no two bodies were ever shared. *)
(*                                                                           *)
(* The walk and the walk without deduping take corresponding steps           *)
(* (TargetServes), because a shared body calls shared bodies of its object   *)
(* only (Closed, where the merge's demotions end).                           *)
(*****************************************************************************)
EXTENDS Columns, Algebra

-----------------------------------------------------------------------------
(* Names and the sites they lead to.                                         *)

\* Where the merge of every object has ended.
Closed == \A o \in Objects : \A f \in deduped[o] : ~Demotable(o, f)

\* Only functions that agree, in objects that carry both columns, are shared.
DedupInv ==
  \A o \in Objects : \A f \in deduped[o] :
    /\ f \in DOMAIN Fns(o) /\ Fns(o)[f].agree /\ input.units[o].columns = "Both"

\* A body of an object, and, where its name is exported, the one the name
\* leads to.
SiteOK(s) ==
  /\ s = Site(s.obj, s.fn, s.tag) /\ s.obj \in Objects /\ s.fn \in DOMAIN Fns(s.obj)
  /\ s.tag \in Tags(s.obj, s.fn)
  /\ s.fn \in Exports(s.obj) => s = Choose(s.fn)

\* A defined name has a winner.
LEMMA OwnerDefines ==
  ASSUME WellFormed(input), NEW name, Definers(name) # {}
  PROVE  Owner(name) \in Objects /\ name \in Exports(Owner(name)) /\ name \in DOMAIN Fns(Owner(name))
<1>1. Definers(name) \in SUBSET Nat
  BY DEF WellFormed, Definers, Objects
<1>2. \E o \in Definers(name) : \A p \in Definers(name) : o <= p
  BY <1>1, LeastOf
<1>3. Owner(name) \in Definers(name)
  BY <1>2 DEF Owner
<1>4. QED
  BY <1>3 DEF Definers, Exports

\* The tags of a function, at least one.
LEMMA TagsOf ==
  ASSUME WellFormed(input), NEW o \in Objects, NEW f
  PROVE  /\ Tags(o, f) # {} /\ Tags(o, f) \subseteq {"Both", "Normal", "Volatile"}
         /\ "Both" \in Tags(o, f) <=> input.units[o].columns = "Both" /\ f \in deduped[o]
         /\ "Both" \in Tags(o, f) => Tags(o, f) = {"Both"}
BY DEF Tags, WellFormed, Objects, Columns

\* What a name leads to: a body of its winner, in the column the program asks
\* for unless the winner has only the other.
LEMMA Chosen ==
  ASSUME WellFormed(input), NEW name, Definers(name) # {}
  PROVE  /\ SiteOK(Choose(name))
         /\ Choose(name).obj = Owner(name) /\ Choose(name).fn = name
         /\ FellBack(name) => Choose(name).tag = Other(ProgramColumn)
         /\ ~FellBack(name) => Choose(name).tag \in {ProgramColumn, "Both"}
         /\ Choose(name).tag \in {PureColumn(Owner(name)), "Both"}
<1> DEFINE o == Owner(name)
           tags == Tags(o, name)
           wanted == tags \cap {ProgramColumn, "Both"}
           tag == CHOOSE t \in (IF wanted # {} THEN wanted ELSE tags) : TRUE
<1>1. o \in Objects /\ name \in Exports(o) /\ name \in DOMAIN Fns(o)
  BY OwnerDefines
<1>2. tags # {} /\ tags \subseteq {"Both", "Normal", "Volatile"}
  BY <1>1, TagsOf
<1>3. tag \in (IF wanted # {} THEN wanted ELSE tags)
  <2> HIDE DEF tags, wanted
  <2>1. CASE wanted # {}
    BY <2>1
  <2>2. CASE wanted = {}
    BY <1>2, <2>2
  <2>3. QED
    BY <2>1, <2>2
<1>4. Choose(name) = Site(o, name, tag)
  BY DEF Choose
<1>5. /\ Choose(name).obj = o /\ Choose(name).fn = name /\ Choose(name).tag = tag
      /\ Choose(name) = Site(Choose(name).obj, Choose(name).fn, Choose(name).tag)
  <2> HIDE DEF o, tag
  <2> QED BY <1>4 DEF Site
<1>6. FellBack(name) <=> wanted = {}
  BY DEF FellBack
<1>7. /\ ProgramColumn \in {"Normal", "Volatile"} /\ Other(ProgramColumn) \in {"Normal", "Volatile"}
      /\ \A c \in {"Normal", "Volatile"} : c = ProgramColumn \/ c = Other(ProgramColumn)
      /\ ProgramColumn # Other(ProgramColumn)
  BY DEF ProgramColumn, Other
<1>8. /\ input.units[o].columns \in {"Both", "Normal", "Volatile"}
      /\ input.units[o].columns # "Both" => tags = {input.units[o].columns}
      /\ input.units[o].columns = "Both" => tags = {"Both"} \/ tags = {"Normal", "Volatile"}
  BY <1>1 DEF WellFormed, Objects, Tags, Columns
<1>9. PureColumn(o) = IF input.units[o].columns \in {"Both", ProgramColumn} THEN ProgramColumn
                      ELSE Other(ProgramColumn)
  BY DEF PureColumn
<1> DEFINE c == input.units[o].columns
           pc == ProgramColumn
           oc == Other(ProgramColumn)
<1>10. /\ wanted = {} => tag = oc
       /\ wanted # {} => tag \in {pc, "Both"}
       /\ tag \in {IF c \in {"Both", pc} THEN pc ELSE oc, "Both"}
       /\ tag \in tags
  <2> HIDE DEF c, pc, oc, tags, tag, o
  <2>1. /\ pc \in {"Normal", "Volatile"} /\ oc \in {"Normal", "Volatile"} /\ pc # oc
        /\ c \in {"Both", "Normal", "Volatile"} /\ (c # "Both" => tags = {c})
        /\ c = "Both" => tags = {"Both"} \/ tags = {"Normal", "Volatile"}
    BY <1>7, <1>8 DEF c, pc, oc, o, tags
  <2>2. wanted = tags \cap {pc, "Both"}
    BY DEF pc
  <2>3. tag \in (IF wanted # {} THEN wanted ELSE tags)
    BY <1>3
  <2> HIDE DEF wanted
  <2>4. CASE c = "Both"
    BY <2>1, <2>2, <2>3, <2>4
  <2>5. CASE c # "Both"
    <3>1. tags = {c} /\ c \in {pc, oc}
      BY <1>7, <2>1, <2>5 DEF pc, oc
    <3>2. CASE c = pc
      BY <2>1, <2>2, <2>3, <3>1, <3>2
    <3>3. CASE c = oc
      BY <2>1, <2>2, <2>3, <3>1, <3>3
    <3>4. QED
      BY <3>1, <3>2, <3>3
  <2>6. QED
    BY <2>4, <2>5
<1>11. SiteOK(Choose(name))
  BY <1>1, <1>5, <1>10 DEF SiteOK
<1> HIDE DEF wanted, tag, tags
<1>12. QED
  BY <1>5, <1>6, <1>9, <1>10, <1>11

\* A call of a shared body is a call of its other column too, and inside the
\* object it meets shared bodies only.
LEMMA SharedCalls ==
  ASSUME WellFormed(input), DedupInv, Closed, NEW s, SiteOK(s), s.tag = "Both"
  PROVE  /\ Callees(s.obj, s.fn, "Normal") = Callees(s.obj, s.fn, "Volatile")
         /\ \A g \in References(s) \cap DOMAIN Fns(s.obj) : Tags(s.obj, g) = {"Both"}
<1>1. s.obj \in Objects /\ s.fn \in DOMAIN Fns(s.obj) /\ s.fn \in deduped[s.obj]
      /\ input.units[s.obj].columns = "Both"
  BY TagsOf DEF SiteOK
<1>2. Callees(s.obj, s.fn, "Normal") = Callees(s.obj, s.fn, "Volatile")
  BY <1>1 DEF DedupInv, Callees, WellFormed, Fns, Objects
<1>3. ASSUME NEW g \in References(s) \cap DOMAIN Fns(s.obj) PROVE Tags(s.obj, g) = {"Both"}
  <2>1. g \in Callees(s.obj, s.fn, "Normal") \cap DOMAIN Fns(s.obj)
    BY <1>3 DEF References
  <2>2. g \in deduped[s.obj]
    BY <1>1, <2>1 DEF Closed, Demotable
  <2>3. QED
    BY <1>1, <2>2, TagsOf
<1>4. QED
  BY <1>2, <1>3

\* A body that serves p calls what p calls, and each call leads to a body that
\* serves what p's call leads to.
LEMMA TargetServes ==
  ASSUME WellFormed(input), DedupInv, Closed, NEW s, SiteOK(s),
         NEW p \in PureBodies, Serves(s, p)
  PROVE  /\ References(s) = Callees(p[1], p[2], p[3])
         /\ \A g \in References(s) : ~Unknown(s.obj, g) =>
              /\ SiteOK(Target(s, g))
              /\ PureTarget(p, g) \in PureBodies
              /\ Serves(Target(s, g), PureTarget(p, g))
              /\ ~IsLocal(s.obj, g) => Target(s, g).fn = g
              /\ IsLocal(s.obj, g) => /\ Target(s, g).fn \notin Exports(Target(s, g).obj)
                                      /\ Target(s, g).obj = s.obj
                                      /\ Target(s, g).fn = g
<1>1. /\ p[1] \in Objects /\ p[2] \in DOMAIN Fns(p[1]) /\ p[3] \in {"Normal", "Volatile"}
      /\ s.obj = p[1] /\ s.fn = p[2] /\ s.tag \in {p[3], "Both"}
  BY DEF PureBodies, Serves, Columns
<1>2. References(s) = Callees(p[1], p[2], p[3])
  <2>1. CASE s.tag = "Both"
    BY <1>1, <2>1, SharedCalls DEF References
  <2>2. CASE s.tag # "Both"
    BY <1>1, <2>2 DEF References
  <2>3. QED
    BY <2>1, <2>2
<1>3. ASSUME NEW g \in References(s), ~Unknown(s.obj, g), IsLocal(s.obj, g)
      PROVE  /\ SiteOK(Target(s, g))
             /\ PureTarget(p, g) \in PureBodies
             /\ Serves(Target(s, g), PureTarget(p, g))
             /\ Target(s, g).fn \notin Exports(Target(s, g).obj)
             /\ Target(s, g).obj = s.obj /\ Target(s, g).fn = g
  <2> DEFINE o == s.obj
             tag == BoundTag(o, g, s.tag)
             t == Target(s, g)
  <2>1. g \in DOMAIN Fns(o) /\ g \notin Exports(o) /\ o \in Objects
    BY <1>1, <1>3 DEF IsLocal, Exports
  <2>2. t = Site(o, g, tag)
    BY <1>3 DEF Target
  <2>3. PureTarget(p, g) = <<o, g, p[3]>>
    BY <1>1, <1>3 DEF PureTarget
  <2>4. tag \in Tags(o, g) /\ tag \in {p[3], "Both"}
    <3>1. CASE "Both" \in Tags(o, g)
      BY <3>1 DEF BoundTag
    <3>2. CASE "Both" \notin Tags(o, g)
      <4>1. s.tag # "Both"
        BY <2>1, <3>2, SharedCalls
      <4>2. tag = s.tag /\ s.tag = p[3]
        BY <1>1, <3>2, <4>1 DEF BoundTag
      <4>3. s.tag \in Tags(o, s.fn)
        BY DEF SiteOK
      <4>4. input.units[o].columns # "Both" => s.tag = input.units[o].columns
        BY <4>3 DEF Tags
      <4>5. s.tag \in {"Normal", "Volatile"}
        BY <1>1, <4>2
      <4>6. s.tag \in Tags(o, g)
        BY <3>2, <4>4, <4>5 DEF Tags, Columns
      <4>7. QED
        BY <4>2, <4>6
    <3>3. QED
      BY <3>1, <3>2
  <2>5. t.obj = o /\ t.fn = g /\ t.tag = tag /\ t = Site(t.obj, t.fn, t.tag)
    <3> HIDE DEF o, tag, t
    <3> QED BY <2>2 DEF Site
  <2>6. SiteOK(t)
    BY <2>1, <2>4, <2>5 DEF SiteOK
  <2>7. PureTarget(p, g) \in PureBodies
    BY <1>1, <2>1, <2>3 DEF PureBodies, Columns
  <2>8. Serves(t, PureTarget(p, g))
    BY <2>3, <2>4, <2>5 DEF Serves
  <2>9. QED
    BY <2>1, <2>5, <2>6, <2>7, <2>8
<1>4. ASSUME NEW g \in References(s), ~Unknown(s.obj, g), ~IsLocal(s.obj, g)
      PROVE  /\ SiteOK(Target(s, g))
             /\ PureTarget(p, g) \in PureBodies
             /\ Serves(Target(s, g), PureTarget(p, g))
             /\ Target(s, g).fn = g
  <2>1. Definers(g) # {}
    BY <1>4 DEF Unknown
  <2>2. Target(s, g) = Choose(g)
    BY <1>4 DEF Target
  <2>3. PureTarget(p, g) = <<Owner(g), g, PureColumn(Owner(g))>>
    BY <1>1, <1>4 DEF PureTarget
  <2>4. PureColumn(Owner(g)) \in {"Normal", "Volatile"}
    BY DEF PureColumn, ProgramColumn, Other
  <2>5. PureTarget(p, g) \in PureBodies
    BY <2>1, <2>3, <2>4, OwnerDefines DEF PureBodies, Columns
  <2>6. /\ SiteOK(Choose(g)) /\ Choose(g).obj = Owner(g) /\ Choose(g).fn = g
        /\ Choose(g).tag \in {PureColumn(Owner(g)), "Both"}
    BY <2>1, Chosen
  <2>7. QED
    BY <2>2, <2>3, <2>5, <2>6 DEF Serves
<1>5. QED
  BY <1>2, <1>3, <1>4

-----------------------------------------------------------------------------
(* The walk without deduping.                                                *)

LEMMA EdgesFinite ==
  ASSUME WellFormed(input)
  PROVE  IsFiniteSet(PureEdges)
<1>1. IsFiniteSet(Objects)
  BY FS_Interval DEF WellFormed, Objects
<1>2. IsFiniteSet(PureBodies)
  <2> DEFINE h == [o \in Objects |-> {o} \X (DOMAIN Fns(o)) \X Columns]
  <2>1. ASSUME NEW o \in Objects PROVE IsFiniteSet({o} \X (DOMAIN Fns(o)) \X Columns)
    <3> DEFINE D == DOMAIN Fns(o)
               P == {o} \X D \X Columns
               Q == D \X Columns
               e == [q \in Q |-> <<o, q[1], q[2]>>]
    <3>1. IsFiniteSet(D)
      BY DEF WellFormed, Objects, Fns
    <3>2. IsFiniteSet(Columns)
      <4>1. Columns = {"Normal"} \cup {"Volatile"}
        BY DEF Columns
      <4>2. QED
        BY <4>1, FS_Singleton, FS_Union
    <3>3. IsFiniteSet(Q)
      <4> HIDE DEF D
      <4> QED BY <3>1, <3>2, FS_Product
    <3>4. DOMAIN e = Q /\ {e[q] : q \in DOMAIN e} = P
      <4> HIDE DEF D
      <4>1. \A q \in Q : e[q] \in P
        OBVIOUS
      <4>2. ASSUME NEW p \in P PROVE \E q \in Q : p = e[q]
        <5>1. <<p[2], p[3]>> \in Q /\ e[<<p[2], p[3]>>] = p
          OBVIOUS
        <5>2. QED
          BY <5>1
      <4>3. QED
        BY <4>1, <4>2
    <3> HIDE DEF e, Q, P
    <3>5. IsFiniteSet(P)
      BY <3>3, <3>4, ImageFinite
    <3>6. QED
      BY <3>5 DEF P
  <2>2. DOMAIN h = Objects /\ \A o \in Objects : h[o] = {o} \X (DOMAIN Fns(o)) \X Columns
    OBVIOUS
  <2>3. PureBodies = UNION {h[o] : o \in DOMAIN h}
    BY <2>2 DEF PureBodies
  <2> HIDE DEF h
  <2>4. IsFiniteSet({h[o] : o \in DOMAIN h}) /\ \A T \in {h[o] : o \in DOMAIN h} : IsFiniteSet(T)
    BY <1>1, <2>1, <2>2, ImageFinite
  <2>5. QED
    BY <2>3, <2>4, FS_UNION
<1> DEFINE h == [p \in PureBodies |-> {<<p, PureTarget(p, g)>> : g \in PureKnown(p)}]
<1>3. ASSUME NEW p \in PureBodies PROVE IsFiniteSet({<<p, PureTarget(p, g)>> : g \in PureKnown(p)})
  <2> DEFINE C == Callees(p[1], p[2], p[3])
             e == [g \in PureKnown(p) |-> <<p, PureTarget(p, g)>>]
  <2>1. p[1] \in Objects /\ p[2] \in DOMAIN Fns(p[1])
    BY DEF PureBodies
  <2>2. IsFiniteSet(C)
    BY <2>1 DEF Callees, WellFormed, Fns, Objects
  <2>3. PureKnown(p) \in SUBSET C
    BY DEF PureKnown
  <2>4. IsFiniteSet(PureKnown(p))
    <3> HIDE DEF C
    <3> QED BY <2>2, <2>3, FS_Subset
  <2>5. DOMAIN e = PureKnown(p) /\ {e[g] : g \in DOMAIN e} = {<<p, PureTarget(p, g)>> : g \in PureKnown(p)}
    OBVIOUS
  <2> HIDE DEF e
  <2>6. IsFiniteSet({e[g] : g \in DOMAIN e})
    BY <2>4, <2>5, ImageFinite
  <2>7. QED
    BY <2>5, <2>6
<1>4. DOMAIN h = PureBodies /\ \A p \in PureBodies : h[p] = {<<p, PureTarget(p, g)>> : g \in PureKnown(p)}
  OBVIOUS
<1>5. PureEdges = UNION {h[p] : p \in DOMAIN h}
  BY <1>4 DEF PureEdges
<1> HIDE DEF h
<1>6. IsFiniteSet({h[p] : p \in DOMAIN h}) /\ \A T \in {h[p] : p \in DOMAIN h} : IsFiniteSet(T)
  BY <1>2, <1>3, <1>4, ImageFinite
<1>7. QED
  BY <1>5, <1>6, FS_UNION

\* The entry it starts from, and a call of what it reaches.
PureEntry == <<Owner("main"), "main", PureColumn(Owner("main"))>>

LEMMA PureStarts ==
  ASSUME WellFormed(input), Definers("main") # {}
  PROVE  PureEntry \in PureReach \cap PureBodies /\ Serves(Choose("main"), PureEntry)
<1>1. PureEntry \in PureReach
  BY EdgesFinite, ReachRoot DEF PureReach, PureEntry
<1>2. PureColumn(Owner("main")) \in {"Normal", "Volatile"}
  BY DEF PureColumn, ProgramColumn, Other
<1>3. PureEntry \in PureBodies
  BY <1>2, OwnerDefines DEF PureEntry, PureBodies, Columns
<1>4. Serves(Choose("main"), PureEntry)
  BY Chosen DEF Serves, PureEntry
<1>5. QED
  BY <1>1, <1>3, <1>4

LEMMA PureCalls ==
  ASSUME WellFormed(input), NEW p \in PureReach \cap PureBodies, NEW g \in PureKnown(p)
  PROVE  PureTarget(p, g) \in PureReach
<1>1. <<p, PureTarget(p, g)>> \in PureEdges
  BY DEF PureEdges
<1> DEFINE e == <<p, PureTarget(p, g)>>
<1>2. e[1] = p /\ e[2] = PureTarget(p, g) /\ e \in PureEdges
  BY <1>1
<1> HIDE DEF e
<1>3. QED
  BY <1>2, EdgesFinite, ReachClosed DEF PureReach

-----------------------------------------------------------------------------
(* The invariant.                                                            *)

\* What has been walked: each body serves one the undeduped walk reaches, the
\* callees of a visited body are reached, and the fallbacks are the names whose
\* winner lacks the column.
WalkInv ==
  /\ pending \subseteq reached
  /\ \A s \in reached : SiteOK(s) /\ \E p \in PureReach \cap PureBodies : Serves(s, p)
  /\ \A s \in reached \ pending : \A g \in References(s) :
       ~Unknown(s.obj, g) => Target(s, g) \in reached
  /\ fallbacks = {s.fn : s \in {t \in reached : t.fn \in Exports(t.obj) /\ FellBack(t.fn)}}

ColumnInv ==
  /\ WellFormed(input) /\ DedupInv /\ DOMAIN deduped = Objects
  /\ stage \in {"merging", "linking", "linked", "failed"}
  /\ stage = "merging" => reached = {} /\ pending = {} /\ fallbacks = {}
  /\ stage # "merging" => Closed
  /\ stage \in {"linking", "linked"} => Definers("main") # {} /\ Choose("main") \in reached
  /\ stage = "linked" => pending = {}
  /\ WalkInv

\* The walk changes neither the objects nor what they share.
LEMMA Unmoved ==
  ASSUME input' = input, deduped' = deduped
  PROVE  /\ \A s : /\ SiteOK(s)' <=> SiteOK(s)
                   /\ References(s)' = References(s)
         /\ \A o, g : Unknown(o, g)' <=> Unknown(o, g)
         /\ \A s, g : Target(s, g)' = Target(s, g)
         /\ \A n : /\ FellBack(n)' <=> FellBack(n)
                   /\ Choose(n)' = Choose(n)
                   /\ Definers(n)' = Definers(n)
         /\ \A o : Exports(o)' = Exports(o)
<1>1. Objects' = Objects /\ \A o : Fns(o)' = Fns(o)
  BY DEF Objects, Fns
<1>2. \A o : Exports(o)' = Exports(o)
  BY DEF Exports, Fns
<1>3. \A n : Definers(n)' = Definers(n)
  BY <1>1, <1>2 DEF Definers
<1>4. \A n : Owner(n)' = Owner(n)
  BY <1>3 DEF Owner
<1>5. \A o, f : Tags(o, f)' = Tags(o, f)
  BY DEF Tags
<1>6. ProgramColumn' = ProgramColumn
  BY <1>4 DEF ProgramColumn
<1>7. \A n : (FellBack(n)' <=> FellBack(n)) /\ Choose(n)' = Choose(n)
  BY <1>4, <1>5, <1>6 DEF FellBack, Choose
<1>8. \A o, g : (IsLocal(o, g)' <=> IsLocal(o, g)) /\ (Unknown(o, g)' <=> Unknown(o, g))
  BY <1>1, <1>3 DEF IsLocal, Unknown
<1>9. \A s, g : Target(s, g)' = Target(s, g)
  BY <1>5, <1>7, <1>8 DEF Target, BoundTag
<1>10. \A s : References(s)' = References(s)
  BY <1>1 DEF References, Callees
<1>11. \A s : SiteOK(s)' <=> SiteOK(s)
  BY <1>1, <1>2, <1>5, <1>7 DEF SiteOK
<1>12. QED
  BY <1>2, <1>3, <1>7, <1>8, <1>9, <1>10, <1>11

LEMMA PureUnmoved ==
  ASSUME input' = input
  PROVE  PureReach' = PureReach /\ PureBodies' = PureBodies
<1>1. Objects' = Objects /\ \A o : Fns(o)' = Fns(o)
  BY DEF Objects, Fns
<1>2. \A o : Exports(o)' = Exports(o)
  BY DEF Exports, Fns
<1>3. \A n : Definers(n)' = Definers(n)
  BY <1>1, <1>2 DEF Definers
<1>4. \A n : Owner(n)' = Owner(n)
  BY <1>3 DEF Owner
<1>5. ProgramColumn' = ProgramColumn
  BY <1>4 DEF ProgramColumn
<1>6. \A o : PureColumn(o)' = PureColumn(o)
  BY <1>5 DEF PureColumn
<1>7. \A o, g : (IsLocal(o, g)' <=> IsLocal(o, g)) /\ (Unknown(o, g)' <=> Unknown(o, g))
  BY <1>1, <1>3 DEF IsLocal, Unknown
<1>8. \A p, g : PureTarget(p, g)' = PureTarget(p, g)
  BY <1>4, <1>6, <1>7 DEF PureTarget
<1>9. \A p : PureKnown(p)' = PureKnown(p)
  BY <1>1, <1>7 DEF PureKnown, Callees
<1>10. PureBodies' = PureBodies
  BY <1>1 DEF PureBodies
<1>11. PureEdges' = PureEdges
  BY <1>8, <1>9, <1>10 DEF PureEdges
<1>12. PureReach' = PureReach
  BY <1>4, <1>6, <1>11 DEF PureReach
<1>13. QED
  BY <1>10, <1>12

-----------------------------------------------------------------------------
(* The actions.                                                              *)

LEMMA ColumnInvInit == Init => ColumnInv
<1> SUFFICES ASSUME Init PROVE ColumnInv
  OBVIOUS
<1>1. WellFormed(input)
  BY ColumnsAssumption DEF Init
<1>2. DedupInv /\ DOMAIN deduped = Objects
  <2>1. ASSUME NEW o \in Objects, NEW f \in deduped[o]
        PROVE  f \in DOMAIN Fns(o) /\ Fns(o)[f].agree /\ input.units[o].columns = "Both"
    BY <2>1 DEF Init
  <2>2. DOMAIN deduped = Objects
    BY DEF Init
  <2>3. QED
    BY <2>1, <2>2 DEF DedupInv
<1>3. WalkInv
  BY DEF Init, WalkInv
<1>4. QED
  BY <1>1, <1>2, <1>3 DEF Init, ColumnInv

\* Nothing has been walked while the merge goes on.
LEMMA DemoteKeeps ==
  ASSUME ColumnInv, NEW o \in Objects, NEW f \in deduped[o], Demote(o, f)
  PROVE  ColumnInv'
<1>1. /\ stage = "merging" /\ stage' = "merging" /\ input' = input
      /\ reached' = {} /\ pending' = {} /\ fallbacks' = {}
      /\ deduped' = [deduped EXCEPT ![o] = @ \ {f}]
  BY DEF Demote, ColumnInv
<1>2. Objects' = Objects /\ \A q : Fns(q)' = Fns(q)
  BY <1>1 DEF Objects, Fns
<1>3. DOMAIN deduped' = Objects /\ \A q \in Objects : deduped'[q] \subseteq deduped[q]
  BY <1>1 DEF ColumnInv
<1>4. DedupInv'
  BY <1>1, <1>2, <1>3 DEF ColumnInv, DedupInv
<1>5. WalkInv'
  BY <1>1 DEF WalkInv
<1>6. WellFormed(input')
  BY <1>1 DEF ColumnInv
<1>7. QED
  BY <1>1, <1>2, <1>3, <1>4, <1>5, <1>6 DEF ColumnInv

\* The parts that every step of a link keeps.
LEMMA ObjectsKept ==
  ASSUME ColumnInv, input' = input, deduped' = deduped
  PROVE  /\ WellFormed(input') /\ DedupInv' /\ DOMAIN deduped' = Objects'
         /\ Closed' <=> Closed
<1>1. Objects' = Objects /\ \A o : Fns(o)' = Fns(o)
  BY DEF Objects, Fns
<1>2. \A o, f : Demotable(o, f)' <=> Demotable(o, f)
  BY <1>1 DEF Demotable, Callees
<1>3. Closed' <=> Closed
  BY <1>1, <1>2 DEF Closed
<1>4. DedupInv' /\ DOMAIN deduped' = Objects'
  BY <1>1 DEF ColumnInv, DedupInv
<1>5. QED
  BY <1>3, <1>4 DEF ColumnInv

LEMMA StartLinkKeeps ==
  ASSUME ColumnInv, StartLink
  PROVE  ColumnInv'
<1> DEFINE m == Choose("main")
<1>1. /\ Merged /\ Linkable /\ stage' = "linking" /\ input' = input /\ deduped' = deduped
      /\ reached' = {m} /\ pending' = {m} /\ fallbacks' = {n \in {"main"} : FellBack(n)}
  BY DEF StartLink
<1>2. Closed /\ Definers("main") # {} /\ WellFormed(input)
  BY <1>1 DEF Merged, Linkable, Closed, ColumnInv
<1>3. SiteOK(m) /\ m.fn = "main" /\ m.fn \in Exports(m.obj)
  <2>1. SiteOK(m) /\ m.fn = "main" /\ m.obj = Owner("main")
    BY <1>2, Chosen
  <2>2. "main" \in Exports(Owner("main"))
    BY <1>2, OwnerDefines
  <2>3. QED
    BY <2>1, <2>2
<1>4. \E p \in PureReach \cap PureBodies : Serves(m, p)
  BY <1>2, PureStarts
<1> HIDE DEF m
<1>5. (\E p \in PureReach \cap PureBodies : Serves(m, p))'
         <=> \E p \in PureReach \cap PureBodies : Serves(m', p)
  BY <1>1, PureUnmoved DEF Serves
<1>6. m' = m /\ SiteOK(m)' /\ \A n : FellBack(n)' <=> FellBack(n)
  BY <1>1, <1>3, Unmoved DEF m
<1>7. \A s : Exports(s.obj)' = Exports(s.obj) /\ (SiteOK(s)' <=> SiteOK(s))
  BY <1>1, Unmoved
<1>8. fallbacks' = {s.fn : s \in {t \in {m} : t.fn \in Exports(t.obj) /\ FellBack(t.fn)}}
  BY <1>1, <1>3
<1>9. WalkInv'
  <2>1. \A s \in reached' : SiteOK(s)' /\ \E p \in (PureReach \cap PureBodies)' : Serves(s, p)
    BY <1>1, <1>3, <1>4, <1>7, PureUnmoved
  <2>2. fallbacks' = {s.fn : s \in {t \in reached' : t.fn \in Exports(t.obj)' /\ FellBack(t.fn)'}}
    BY <1>1, <1>6, <1>7, <1>8
  <2>3. pending' \subseteq reached' /\ reached' \ pending' = {}
    BY <1>1
  <2>4. QED
    BY <2>1, <2>2, <2>3 DEF WalkInv, Serves
<1>10. Definers("main")' # {} /\ Choose("main")' \in reached'
  BY <1>1, <1>2, Unmoved DEF m
<1>11. QED
  BY <1>1, <1>2, <1>9, <1>10, ObjectsKept DEF ColumnInv

\* A visit follows each call of a body to the body that serves the call
\* without deduping.
LEMMA VisitKeeps ==
  ASSUME ColumnInv, NEW v \in pending, Visit(v)
  PROVE  ColumnInv'
<1> DEFINE known == {g \in References(v) : ~Unknown(v.obj, g)}
           targets == {Target(v, g) : g \in known}
           Named(R) == {s.fn : s \in {t \in R : t.fn \in Exports(t.obj) /\ FellBack(t.fn)}}
<1>1. /\ stage = "linking" /\ stage' = stage /\ input' = input /\ deduped' = deduped
      /\ reached' = reached \cup targets
      /\ pending' = (pending \ {v}) \cup (targets \ reached)
      /\ fallbacks' = fallbacks \cup {g \in known : ~IsLocal(v.obj, g) /\ FellBack(g)}
  BY DEF Visit
<1>2. Closed /\ DedupInv /\ WellFormed(input) /\ WalkInv /\ v \in reached
      /\ Definers("main") # {} /\ Choose("main") \in reached
  BY <1>1 DEF ColumnInv, WalkInv
<1>3. SiteOK(v)
  BY <1>2 DEF WalkInv
<1>4. PICK p \in PureReach \cap PureBodies : Serves(v, p)
  BY <1>2 DEF WalkInv
<1>5. References(v) = Callees(p[1], p[2], p[3]) /\ v.obj = p[1]
  BY <1>2, <1>3, <1>4, TargetServes DEF Serves
<1>6. known = PureKnown(p)
  BY <1>5 DEF PureKnown
<1>7. ASSUME NEW g \in known
      PROVE  /\ SiteOK(Target(v, g)) /\ Target(v, g).fn = g
             /\ \E q \in PureReach \cap PureBodies : Serves(Target(v, g), q)
             /\ IsLocal(v.obj, g) => Target(v, g).fn \notin Exports(Target(v, g).obj)
             /\ ~IsLocal(v.obj, g) => Target(v, g).fn \in Exports(Target(v, g).obj)
  <2>1. g \in References(v) /\ ~Unknown(v.obj, g) /\ g \in PureKnown(p)
    BY <1>6
  <2>2. /\ SiteOK(Target(v, g)) /\ Target(v, g).fn = g
        /\ PureTarget(p, g) \in PureBodies /\ Serves(Target(v, g), PureTarget(p, g))
        /\ IsLocal(v.obj, g) => Target(v, g).fn \notin Exports(Target(v, g).obj)
    BY <1>2, <1>3, <1>4, <2>1, TargetServes
  <2>3. PureTarget(p, g) \in PureReach
    BY <1>2, <1>4, <2>1, PureCalls
  <2>4. ASSUME ~IsLocal(v.obj, g) PROVE Target(v, g).fn \in Exports(Target(v, g).obj)
    <3>1. Definers(g) # {} /\ Target(v, g) = Choose(g)
      BY <2>1, <2>4 DEF Unknown, Target
    <3>2. Choose(g).obj = Owner(g) /\ Choose(g).fn = g
      BY <1>2, <3>1, Chosen
    <3>3. g \in Exports(Owner(g))
      BY <1>2, <3>1, OwnerDefines
    <3>4. QED
      BY <3>1, <3>2, <3>3
  <2>5. QED
    BY <2>2, <2>3, <2>4
<1>8. ASSUME NEW s \in reached' PROVE SiteOK(s) /\ \E q \in PureReach \cap PureBodies : Serves(s, q)
  <2>1. CASE s \in reached
    BY <1>2, <2>1 DEF WalkInv
  <2>2. CASE s \in targets
    BY <1>7, <2>2
  <2>3. QED
    BY <1>1, <2>1, <2>2
<1>9. ASSUME NEW s \in reached' \ pending', NEW g \in References(s), ~Unknown(s.obj, g)
      PROVE  Target(s, g) \in reached'
  <2>1. CASE s = v
    <3>1. Target(s, g) \in targets
      BY <1>9, <2>1
    <3>2. QED
      BY <1>1, <3>1
  <2>2. CASE s # v
    <3>1. s \in reached \ pending
      BY <1>1, <1>9, <2>2
    <3>2. QED
      BY <1>1, <1>2, <1>9, <3>1 DEF WalkInv
  <2>3. QED
    BY <2>1, <2>2
<1>10. {g \in known : ~IsLocal(v.obj, g) /\ FellBack(g)} = Named(targets)
  <2>1. ASSUME NEW g \in known, ~IsLocal(v.obj, g), FellBack(g) PROVE g \in Named(targets)
    <3>1. Target(v, g) \in targets
      BY <2>1
    <3>2. Target(v, g).fn = g /\ Target(v, g).fn \in Exports(Target(v, g).obj)
      BY <1>7, <2>1
    <3> HIDE DEF targets, known
    <3>3. QED
      BY <2>1, <3>1, <3>2
  <2>2. ASSUME NEW t \in targets, t.fn \in Exports(t.obj), FellBack(t.fn)
        PROVE  t.fn \in {g \in known : ~IsLocal(v.obj, g) /\ FellBack(g)}
    <3>1. PICK g \in known : t = Target(v, g)
      BY <2>2
    <3>2. t.fn = g /\ ~IsLocal(v.obj, g)
      BY <1>7, <2>2, <3>1
    <3>3. QED
      BY <2>2, <3>1, <3>2
  <2> HIDE DEF targets, known
  <2>3. QED
    BY <2>1, <2>2
<1> HIDE DEF targets, known
<1>11. fallbacks' = Named(reached')
  <2>1. fallbacks = Named(reached)
    BY <1>2 DEF WalkInv
  <2>2. Named(reached \cup targets) = Named(reached) \cup Named(targets)
    OBVIOUS
  <2>3. QED
    BY <1>1, <1>10, <2>1, <2>2
<1>12. pending' \subseteq reached'
  BY <1>1, <1>2 DEF WalkInv
<1>13. WalkInv'
  <2>1. \A s \in reached' : SiteOK(s)' /\ \E q \in (PureReach \cap PureBodies)' : Serves(s, q)
    BY <1>1, <1>8, Unmoved, PureUnmoved
  <2>2. \A s \in reached' \ pending' : \A g \in References(s)' :
          ~Unknown(s.obj, g)' => Target(s, g)' \in reached'
    BY <1>1, <1>9, Unmoved
  <2>3. fallbacks' = {s.fn : s \in {t \in reached' : t.fn \in Exports(t.obj)' /\ FellBack(t.fn)'}}
    BY <1>1, <1>11, Unmoved
  <2>4. QED
    BY <1>12, <2>1, <2>2, <2>3 DEF WalkInv, Serves
<1>14. Definers("main")' # {} /\ Choose("main")' \in reached'
  BY <1>1, <1>2, Unmoved
<1>15. QED
  BY <1>1, <1>2, <1>13, <1>14, ObjectsKept DEF ColumnInv

\* The steps that walk nothing.
LEMMA WalkKept ==
  ASSUME ColumnInv, UNCHANGED <<input, deduped, reached, pending, fallbacks>>
  PROVE  WalkInv' /\ Definers("main")' = Definers("main") /\ Choose("main")' = Choose("main")
<1>1. \A s \in reached' : SiteOK(s)' /\ \E q \in (PureReach \cap PureBodies)' : Serves(s, q)
  BY Unmoved, PureUnmoved DEF ColumnInv, WalkInv
<1>2. \A s \in reached' \ pending' : \A g \in References(s)' :
        ~Unknown(s.obj, g)' => Target(s, g)' \in reached'
  BY Unmoved DEF ColumnInv, WalkInv
<1>3. fallbacks' = {s.fn : s \in {t \in reached' : t.fn \in Exports(t.obj)' /\ FellBack(t.fn)'}}
  BY Unmoved DEF ColumnInv, WalkInv
<1>4. pending' \subseteq reached'
  BY DEF ColumnInv, WalkInv
<1>5. Definers("main")' = Definers("main") /\ Choose("main")' = Choose("main")
  BY Unmoved
<1>6. QED
  BY <1>1, <1>2, <1>3, <1>4, <1>5 DEF WalkInv, Serves

LEMMA RefuseKeeps ==
  ASSUME ColumnInv, Refuse
  PROVE  ColumnInv'
<1>1. /\ Merged /\ stage = "merging" /\ stage' = "failed" /\ input' = input /\ deduped' = deduped
      /\ reached' = reached /\ pending' = pending /\ fallbacks' = fallbacks
  BY DEF Refuse, Merged
<1>2. Closed
  BY <1>1 DEF Merged, Closed
<1>3. QED
  BY <1>1, <1>2, WalkKept, ObjectsKept DEF ColumnInv

LEMMA EndLinkKeeps ==
  ASSUME ColumnInv, EndLink
  PROVE  ColumnInv'
<1>1. /\ stage = "linking" /\ stage' \in {"linked", "failed"} /\ pending = {}
      /\ input' = input /\ deduped' = deduped
      /\ reached' = reached /\ pending' = pending /\ fallbacks' = fallbacks
  BY DEF EndLink
<1>2. QED
  BY <1>1, WalkKept, ObjectsKept DEF ColumnInv

\* Every reachable state keeps to the invariant: the walk is at each moment a
\* part of the walk that would be made if nothing were shared.
THEOREM ColumnInvariant == Spec => []ColumnInv
<1>1. ASSUME ColumnInv, [Next]_vars PROVE ColumnInv'
  <2>1. CASE UNCHANGED vars
    <3>1. /\ input' = input /\ deduped' = deduped /\ stage' = stage
          /\ reached' = reached /\ pending' = pending /\ fallbacks' = fallbacks
      BY <2>1 DEF vars
    <3>2. QED
      BY <1>1, <3>1, WalkKept, ObjectsKept DEF ColumnInv
  <2>2. ASSUME NEW o \in Objects, NEW f \in deduped[o], Demote(o, f) PROVE ColumnInv'
    BY <1>1, <2>2, DemoteKeeps
  <2>3. CASE StartLink
    BY <1>1, <2>3, StartLinkKeeps
  <2>4. CASE Refuse
    BY <1>1, <2>4, RefuseKeeps
  <2>5. ASSUME NEW v \in pending, Visit(v) PROVE ColumnInv'
    BY <1>1, <2>5, VisitKeeps
  <2>6. CASE EndLink
    BY <1>1, <2>6, EndLinkKeeps
  <2>7. QED
    BY <1>1, <2>1, <2>2, <2>3, <2>4, <2>5, <2>6 DEF Next
<1>2. QED
  BY <1>1, ColumnInvInit, PTL DEF Spec

-----------------------------------------------------------------------------
(* The properties.                                                           *)

\* A shared body references only shared bodies of its own object, what
\* resolve asserts of every edge it follows (both_is_column_closed).
THEOREM SharedStaysShared == Spec => []BothIsColumnClosed
<1>1. ASSUME ColumnInv PROVE BothIsColumnClosed
  <2>1. SUFFICES ASSUME NEW s \in reached, s.tag = "Both", NEW g \in References(s),
                        ~Unknown(s.obj, g), Target(s, g).obj = s.obj
                 PROVE  Target(s, g).tag = "Both"
    BY DEF BothIsColumnClosed
  <2>2. stage # "merging" /\ Closed /\ DedupInv /\ WellFormed(input) /\ WalkInv
    BY <1>1, <2>1 DEF ColumnInv
  <2>3. SiteOK(s) /\ \E p \in PureReach \cap PureBodies : Serves(s, p)
    BY <2>1, <2>2 DEF WalkInv
  <2>4. PICK p \in PureReach \cap PureBodies : Serves(s, p)
    BY <2>3
  <2>5. SiteOK(Target(s, g)) /\ Target(s, g).fn = g
    BY <2>1, <2>2, <2>3, <2>4, TargetServes
  <2>6. g \in DOMAIN Fns(s.obj) /\ Target(s, g).tag \in Tags(s.obj, g)
    BY <2>1, <2>5 DEF SiteOK
  <2>7. Tags(s.obj, g) = {"Both"}
    BY <2>1, <2>2, <2>3, <2>6, SharedCalls
  <2>8. QED
    BY <2>6, <2>7
<1>2. QED
  BY <1>1, ColumnInvariant, PTL

\* A finished link took exactly the bodies it would have taken with both
\* columns of every function kept apart: sharing is never a wrong edge, and a
\* volatile program runs gated code wherever its objects have it.
THEOREM DedupingIsInvisible == Spec => []LinksTheColumn
<1>1. ASSUME ColumnInv PROVE LinksTheColumn
  <2>1. SUFFICES ASSUME stage = "linked"
                 PROVE  /\ \A s \in reached : \E p \in PureReach : Serves(s, p)
                        /\ \A p \in PureReach : \E s \in reached : Serves(s, p)
    BY DEF LinksTheColumn
  <2>2. /\ pending = {} /\ Closed /\ DedupInv /\ WellFormed(input) /\ WalkInv
        /\ Definers("main") # {} /\ Choose("main") \in reached
    BY <1>1, <2>1 DEF ColumnInv
  <2>3. \A s \in reached : \E p \in PureReach : Serves(s, p)
    BY <2>2 DEF WalkInv
  <2> DEFINE T == {p \in PureReach : \E s \in reached : Serves(s, p)}
  <2>4. PureEntry \in T
    BY <2>2, PureStarts
  <2>5. ASSUME NEW e \in PureEdges, e[1] \in T PROVE e[2] \in T
    <3>1. PICK p \in PureBodies : \E g \in PureKnown(p) : e = <<p, PureTarget(p, g)>>
      BY DEF PureEdges
    <3>2. PICK g \in PureKnown(p) : e = <<p, PureTarget(p, g)>>
      BY <3>1
    <3>3. e[1] = p /\ e[2] = PureTarget(p, g) /\ p \in PureReach
      BY <2>5, <3>2
    <3>4. PICK s \in reached : Serves(s, p)
      BY <2>5, <3>3
    <3>5. SiteOK(s) /\ s.obj = p[1]
      BY <2>2, <3>4 DEF WalkInv, Serves
    <3>6. References(s) = Callees(p[1], p[2], p[3])
      BY <2>2, <3>4, <3>5, TargetServes
    <3>7. g \in References(s) /\ ~Unknown(s.obj, g)
      BY <3>5, <3>6 DEF PureKnown
    <3>8. Serves(Target(s, g), PureTarget(p, g))
      BY <2>2, <3>4, <3>5, <3>7, TargetServes
    <3>9. Target(s, g) \in reached
      BY <2>2, <3>4, <3>7 DEF WalkInv
    <3>10. PureTarget(p, g) \in PureReach
      BY <2>2, <3>3, PureCalls
    <3>11. QED
      BY <3>3, <3>8, <3>9, <3>10
  <2> HIDE DEF T
  <2>6. PureReach \subseteq T
    BY <2>2, <2>4, <2>5, EdgesFinite, ReachLeast DEF PureReach, PureEntry
  <2>7. QED
    BY <2>3, <2>6 DEF T
<1>2. QED
  BY <1>1, ColumnInvariant, PTL

\* The report of a finished link names a function exactly when it was linked
\* from the column the program did not ask for.
THEOREM FallbacksAreReported == Spec => []FallbacksReported
<1>1. ASSUME ColumnInv PROVE FallbacksReported
  <2>1. WalkInv /\ WellFormed(input)
    BY <1>1 DEF ColumnInv
  <2>2. ASSUME NEW t \in reached, t.fn \in Exports(t.obj)
        PROVE  FellBack(t.fn) <=> t.tag = Other(ProgramColumn)
    <3>1. SiteOK(t) /\ t = Choose(t.fn) /\ t.obj \in Objects
      BY <2>1, <2>2 DEF WalkInv, SiteOK
    <3>2. Definers(t.fn) # {}
      BY <2>2, <3>1 DEF Definers
    <3>3. /\ FellBack(t.fn) => Choose(t.fn).tag = Other(ProgramColumn)
          /\ ~FellBack(t.fn) => Choose(t.fn).tag \in {ProgramColumn, "Both"}
      BY <2>1, <3>2, Chosen
    <3>4. Other(ProgramColumn) \notin {ProgramColumn, "Both"}
      BY DEF ProgramColumn, Other
    <3>5. QED
      BY <3>1, <3>3, <3>4
  <2>3. {t \in reached : t.fn \in Exports(t.obj) /\ FellBack(t.fn)}
          = {t \in reached : t.fn \in Exports(t.obj) /\ t.tag = Other(ProgramColumn)}
    BY <2>2
  <2>4. QED
    BY <2>1, <2>3 DEF WalkInv, FallbacksReported
<1>2. QED
  BY <1>1, ColumnInvariant, PTL

===============================================================================
