------------------------------ MODULE LinkerSafety -----------------------------
(*****************************************************************************)
(* What the composition engine ships, for every program and under every      *)
(* mechanism: what is called and nothing else, and every stamp it made       *)
(* (ShipsCalled); and, for links that stamp nothing, that the image executes *)
(* the program (UnstampedRefines).                                           *)
(*                                                                           *)
(* Pruning keeps a least set of functions, so that each of them but the      *)
(* entry has a caller elsewhere.  That no stamp is lost needs more than that *)
(* each was made: the stamps are a least set too, grown from the seeds, and  *)
(* the seeds are calls of functions that pruning keeps (StampInv).           *)
(*                                                                           *)
(* An image run through its tables implements BoundCalls because every       *)
(* activation runs a pair <<routine, composite>> that Explore visited, with  *)
(* the composite's row in its frame register (FramesInv): the row shows the  *)
(* routine the tapes that the bindings on the way to it do (ComposeShows),   *)
(* and the next call finds its row since a visited pair has its calls in the *)
(* columns.  Where a descriptor was written by hand nothing is bound below.  *)
(*****************************************************************************)
EXTENDS Linker, Algebra

-----------------------------------------------------------------------------
(* Numbering what is kept.                                                   *)

\* Survivors are numbered without gaps and in their old order; the entry stays
\* the first.
LEMMA RankBijects ==
  ASSUME NEW K \in SUBSET Nat, IsFiniteSet(K)
  PROVE  /\ \A f \in K : Rank(K, f) \in 1..Cardinality(K)
         /\ \A f, g \in K : Rank(K, f) = Rank(K, g) => f = g
         /\ \A i \in 1..Cardinality(K) : \E f \in K : Rank(K, f) = i
         /\ \A f \in K : (\A g \in K : f <= g) => Rank(K, f) = 1
<1> DEFINE n == Cardinality(K)
           Low(f) == {g \in K : g <= f}
<1>1. n \in Nat
  BY FS_CardinalityType
<1>2. ASSUME NEW f \in K
      PROVE  IsFiniteSet(Low(f)) /\ Cardinality(Low(f)) \in 1..n /\ Rank(K, f) = Cardinality(Low(f))
  <2>1. Low(f) \in SUBSET K /\ f \in Low(f)
    OBVIOUS
  <2>2. Rank(K, f) = Cardinality(Low(f))
    BY DEF Rank
  <2> HIDE DEF Low, n
  <2>3. IsFiniteSet(Low(f)) /\ Cardinality(Low(f)) <= Cardinality(K)
    BY <2>1, FS_Subset
  <2>4. Cardinality(Low(f)) \in Nat /\ Cardinality(Low(f)) # 0
    BY <2>1, <2>3, FS_CardinalityType, FS_EmptySet
  <2>5. QED
    BY <1>1, <2>2, <2>3, <2>4 DEF n
<1>3. ASSUME NEW f \in K, NEW g \in K, f < g PROVE Cardinality(Low(f)) # Cardinality(Low(g))
  <2>0. \A x \in K : x \in Nat
    OBVIOUS
  <2>1. Low(f) \in SUBSET Low(g)
    <3>1. ASSUME NEW x \in K, x <= f PROVE x <= g
      BY <1>3, <2>0, <3>1
    <3>2. QED
      BY <3>1
  <2>2. g \in Low(g) /\ g \notin Low(f)
    BY <1>3, <2>0
  <2> HIDE DEF Low
  <2>3. QED
    BY <1>2, <2>1, <2>2, FS_Subset
<1>4. \A f, g \in K : Rank(K, f) = Rank(K, g) => f = g
  <2>1. SUFFICES ASSUME NEW f \in K, NEW g \in K, Rank(K, f) = Rank(K, g), f # g
                 PROVE  FALSE
    BY Zenon
  <2>2. f < g \/ g < f
    BY <2>1
  <2> HIDE DEF Low
  <2>3. QED
    BY <1>2, <1>3, <2>1, <2>2
<1>5. \A i \in 1..n : \E f \in K : Rank(K, f) = i
  <2> DEFINE r == [f \in K |-> Rank(K, f)]
  <2> HIDE DEF Low, n
  <2>1. r \in [K -> 1..n]
    BY <1>2
  <2>2. \A f, g \in K : r[f] = r[g] => f = g
    BY <1>4
  <2>3. r \in Injection(K, 1..n)
    <3> HIDE DEF r
    <3> QED BY <2>1, <2>2 DEF Injection, IsInjective
  <2>4. IsFiniteSet(1..n) /\ Cardinality(1..n) = n
    BY <1>1, FS_Interval
  <2>5. r \in Surjection(K, 1..n)
    <3> HIDE DEF r
    <3> QED BY <2>3, <2>4, FS_Injection DEF n
  <2>6. QED
    BY <2>5 DEF Surjection
<1>6. ASSUME NEW f \in K, \A g \in K : f <= g PROVE Rank(K, f) = 1
  <2>0. \A x \in K : x \in Nat
    OBVIOUS
  <2>1. \A g \in K : g <= f <=> g = f
    BY <1>6, <2>0
  <2>2. Low(f) = {f}
    BY <2>1
  <2>3. QED
    BY <2>2, <1>2, FS_Singleton
<1>7. QED
  BY <1>2, <1>4, <1>5, <1>6

-----------------------------------------------------------------------------
(* The graph of calls.                                                       *)

\* Finite code has finitely many sites.
LEMMA SitesFinite ==
  ASSUME NEW code, NEW ops, IsFiniteSet(DOMAIN code)
  PROVE  IsFiniteSet(SitesOf(code, ops))
<1>1. SitesOf(code, ops) \in SUBSET (DOMAIN code)
  BY DEF SitesOf
<1>2. QED
  BY <1>1, FS_Subset

\* Blobs are of finite length, so there are finitely many calls.
LEMMA CallsFinite ==
  ASSUME NEW fs, IsFiniteSet(DOMAIN fs), \A f \in DOMAIN fs : IsFiniteSet(DOMAIN fs[f].code)
  PROVE  IsFiniteSet(Calls(fs))
<1> DEFINE From(f) == {<<f, fs[f].code[pc].to>> : pc \in SitesOf(fs[f].code, Transfers)}
           h == [f \in DOMAIN fs |-> From(f)]
<1>1. ASSUME NEW f \in DOMAIN fs PROVE IsFiniteSet(From(f))
  <2> DEFINE S == SitesOf(fs[f].code, Transfers)
             e == [pc \in S |-> <<f, fs[f].code[pc].to>>]
  <2>1. IsFiniteSet(S)
    BY SitesFinite
  <2>2. DOMAIN e = S /\ {e[pc] : pc \in DOMAIN e} = From(f)
    OBVIOUS
  <2> HIDE DEF e, S, From
  <2>3. QED
    BY <2>1, <2>2, ImageFinite
<1>2. DOMAIN h = DOMAIN fs /\ \A f \in DOMAIN fs : h[f] = From(f)
  OBVIOUS
<1>3. Calls(fs) = UNION {h[f] : f \in DOMAIN h}
  BY DEF Calls
<1> HIDE DEF From, h
<1>4. QED
  BY <1>1, <1>2, <1>3, UnionFinite

\* A call is an edge of the graph, and every edge is a call.
LEMMA CallIn ==
  ASSUME NEW fs
  PROVE  \A f, g : <<f, g>> \in Calls(fs) <=>
           f \in DOMAIN fs /\ \E pc \in SitesOf(fs[f].code, Transfers) : fs[f].code[pc].to = g
<1>1. ASSUME NEW f, NEW g, <<f, g>> \in Calls(fs)
      PROVE  f \in DOMAIN fs /\ \E pc \in SitesOf(fs[f].code, Transfers) : fs[f].code[pc].to = g
  <2>1. PICK h \in DOMAIN fs : <<f, g>> \in {<<h, fs[h].code[pc].to>> : pc \in SitesOf(fs[h].code, Transfers)}
    BY <1>1 DEF Calls
  <2>2. QED
    BY <2>1
<1>2. ASSUME NEW f \in DOMAIN fs, NEW g, NEW pc \in SitesOf(fs[f].code, Transfers), fs[f].code[pc].to = g
      PROVE  <<f, g>> \in Calls(fs)
  <2>1. <<f, g>> \in {<<f, fs[f].code[x].to>> : x \in SitesOf(fs[f].code, Transfers)}
    BY <1>2
  <2>2. QED
    BY <2>1 DEF Calls
<1>3. QED
  BY <1>1, <1>2

\* An edge is a pair.
LEMMA CallPair ==
  ASSUME NEW fs, NEW e \in Calls(fs)
  PROVE  e = <<e[1], e[2]>>
<1>1. PICK h \in DOMAIN fs : e \in {<<h, fs[h].code[pc].to>> : pc \in SitesOf(fs[h].code, Transfers)}
  BY DEF Calls
<1>2. QED
  BY <1>1

\* n functions that call one another, blobs of finite length.
FuncsOf(fs, n) ==
  /\ DOMAIN fs = 1..n
  /\ \A f \in 1..n :
       /\ fs[f] = [routine |-> fs[f].routine, comp |-> fs[f].comp, code |-> fs[f].code]
       /\ IsFiniteSet(DOMAIN fs[f].code)
       /\ \A pc \in SitesOf(fs[f].code, Transfers) :
            /\ fs[f].code[pc].to \in 1..n
            /\ {"op", "to"} \subseteq DOMAIN fs[f].code[pc]

\* What a function calls is there, and who is there is called from elsewhere.
Leading == Transfers \cup {"framed"}
Connected(fs) ==
  /\ \A f \in DOMAIN fs : \A pc \in SitesOf(fs[f].code, Leading) : fs[f].code[pc].to \in DOMAIN fs
  /\ \A f \in DOMAIN fs \ {1} : \E g \in DOMAIN fs \ {f} :
       \E pc \in SitesOf(fs[g].code, Leading) : fs[g].code[pc].to = f
Carries(fs, made) == \A comp \in made : \E f \in DOMAIN fs : fs[f].comp = comp

\* The walk stays among the functions.
LEMMA KeptAreFunctions ==
  ASSUME NEW n \in Nat \ {0}, NEW fs, FuncsOf(fs, n)
  PROVE  /\ IsFiniteSet(Calls(fs))
         /\ ReachOf(Calls(fs), 1) \in SUBSET (1..n) /\ IsFiniteSet(ReachOf(Calls(fs), 1))
<1>1. IsFiniteSet(1..n)
  BY FS_Interval
<1>2. IsFiniteSet(Calls(fs))
  BY <1>1, CallsFinite DEF FuncsOf
<1>3. \A e \in Calls(fs) : e[2] \in 1..n
  <2>1. ASSUME NEW e \in Calls(fs) PROVE e[2] \in 1..n
    BY CallPair, CallIn DEF FuncsOf
  <2>2. QED
    BY <2>1
<1>4. ReachOf(Calls(fs), 1) \subseteq 1..n
  <2>1. 1 \in 1..n /\ \A e \in Calls(fs) : e[1] \in 1..n => e[2] \in 1..n
    BY <1>3
  <2>2. QED
    BY <1>2, <2>1, ReachLeast
<1>5. QED
  BY <1>1, <1>2, <1>4, FS_Subset

\* A transfer with its target renumbered.
Renumbered(kept, instr) ==
  IF instr.op \in Transfers THEN [instr EXCEPT !.to = Rank(kept, instr.to)] ELSE instr

\* Each function that ships is one of the old ones, its targets renumbered.
LEMMA Shipped ==
  ASSUME NEW n \in Nat \ {0}, NEW fs, FuncsOf(fs, n)
  PROVE  LET kept == ReachOf(Calls(fs), 1)
             out  == PruneUnreachable(fs)
         IN  /\ DOMAIN out = 1..Cardinality(kept)
             /\ \A i \in DOMAIN out : \E f \in kept :
                  /\ Rank(kept, f) = i
                  /\ out[i] = [routine |-> fs[f].routine, comp |-> fs[f].comp,
                               code |-> [pc \in DOMAIN fs[f].code |-> Renumbered(kept, fs[f].code[pc])]]
<1> DEFINE kept == ReachOf(Calls(fs), 1)
           out  == PruneUnreachable(fs)
           Old(i) == CHOOSE f \in kept : Rank(kept, f) = i
           New(f) == [fs[f] EXCEPT !.code = [pc \in DOMAIN @ |-> Renumbered(kept, @[pc])]]
<1>1. kept \in SUBSET (1..n) /\ IsFiniteSet(kept)
  BY KeptAreFunctions
<1>2. out = [i \in 1..Cardinality(kept) |-> New(Old(i))]
  BY DEF PruneUnreachable, Renumbered
<1> HIDE DEF out, kept
<1>3. \A i \in 1..Cardinality(kept) : \E f \in kept : Rank(kept, f) = i
  <2>1. kept \in SUBSET Nat
    BY <1>1
  <2>2. QED
    BY <1>1, <2>1, RankBijects
<1>4. ASSUME NEW i \in 1..Cardinality(kept)
      PROVE  Old(i) \in kept /\ Rank(kept, Old(i)) = i
  BY <1>3
<1>5. ASSUME NEW f \in kept
      PROVE  New(f) = [routine |-> fs[f].routine, comp |-> fs[f].comp,
                       code |-> [pc \in DOMAIN fs[f].code |-> Renumbered(kept, fs[f].code[pc])]]
  <2>1. fs[f] = [routine |-> fs[f].routine, comp |-> fs[f].comp, code |-> fs[f].code]
    BY <1>1 DEF FuncsOf
  <2>2. QED
    BY <2>1
<1> HIDE DEF Old, New
<1>6. \A i \in 1..Cardinality(kept) : out[i] = New(Old(i))
  BY <1>2
<1>7. DOMAIN out = 1..Cardinality(kept)
  BY <1>2
<1>8. QED
  BY <1>4, <1>5, <1>6, <1>7 DEF out, kept

\* Pruning leaves a connected image that has every function the walk reached.
LEMMA PruneConnects ==
  ASSUME NEW n \in Nat \ {0}, NEW fs, FuncsOf(fs, n),
         \A f \in 1..n : SitesOf(fs[f].code, {"framed"}) = {}
  PROVE  LET kept == ReachOf(Calls(fs), 1)
             out  == PruneUnreachable(fs)
         IN  /\ Connected(out)
             /\ \A i \in DOMAIN out : \E f \in kept :
                  \A ops : SitesOf(out[i].code, ops) = SitesOf(fs[f].code, ops)
             /\ \A f \in kept : \E i \in DOMAIN out : out[i].comp = fs[f].comp
<1> DEFINE kept == ReachOf(Calls(fs), 1)
           out  == PruneUnreachable(fs)
           Moved(f) == [routine |-> fs[f].routine, comp |-> fs[f].comp,
                        code |-> [pc \in DOMAIN fs[f].code |-> Renumbered(kept, fs[f].code[pc])]]
<1>1. kept \in SUBSET (1..n) /\ IsFiniteSet(kept) /\ IsFiniteSet(Calls(fs))
  BY KeptAreFunctions
<1>2. DOMAIN out = 1..Cardinality(kept)
      /\ \A i \in DOMAIN out : \E f \in kept : Rank(kept, f) = i /\ out[i] = Moved(f)
  BY Shipped
<1>3. 1 \in kept /\ \A f \in kept : \A pc \in SitesOf(fs[f].code, Transfers) : fs[f].code[pc].to \in kept
  <2>1. 1 \in kept
    BY <1>1, ReachRoot
  <2>2. ASSUME NEW f \in kept, NEW pc \in SitesOf(fs[f].code, Transfers)
        PROVE  fs[f].code[pc].to \in kept
    <3>1. <<f, fs[f].code[pc].to>> \in Calls(fs)
      BY <1>1, CallIn DEF FuncsOf
    <3> DEFINE e == <<f, fs[f].code[pc].to>>
    <3>2. e[1] = f /\ e[2] = fs[f].code[pc].to
      OBVIOUS
    <3> HIDE DEF e
    <3>3. QED
      BY <1>1, <3>1, <3>2, ReachClosed DEF e
  <2>3. QED
    BY <2>1, <2>2
<1>4. /\ \A f \in kept : Rank(kept, f) \in 1..Cardinality(kept)
      /\ \A f, g \in kept : Rank(kept, f) = Rank(kept, g) => f = g
      /\ Rank(kept, 1) = 1
  <2>1. kept \in SUBSET Nat /\ \A g \in kept : 1 <= g
    BY <1>1
  <2> HIDE DEF kept
  <2>2. QED
    BY <1>1, <1>3, <2>1, RankBijects
<1>5. ASSUME NEW f \in kept, NEW pc \in DOMAIN fs[f].code
      PROVE  /\ Moved(f).code[pc].op = fs[f].code[pc].op
             /\ fs[f].code[pc].op \in Transfers =>
                  Moved(f).code[pc].to = Rank(kept, fs[f].code[pc].to)
  <2>1. Moved(f).code[pc] = Renumbered(kept, fs[f].code[pc])
    OBVIOUS
  <2>2. CASE fs[f].code[pc].op \in Transfers
    <3>1. pc \in SitesOf(fs[f].code, Transfers)
      BY <2>2 DEF SitesOf
    <3>2. {"op", "to"} \subseteq DOMAIN fs[f].code[pc]
      BY <1>1, <3>1 DEF FuncsOf
    <3> HIDE DEF Moved, kept
    <3>3. QED
      BY <2>1, <2>2, <3>2 DEF Renumbered
  <2>3. CASE fs[f].code[pc].op \notin Transfers
    <3> HIDE DEF Moved
    <3> QED BY <2>1, <2>3 DEF Renumbered
  <2>4. QED
    BY <2>2, <2>3
<1>6. ASSUME NEW f \in kept, NEW ops
      PROVE  SitesOf(Moved(f).code, ops) = SitesOf(fs[f].code, ops)
  <2>1. DOMAIN Moved(f).code = DOMAIN fs[f].code
    OBVIOUS
  <2> HIDE DEF Moved, kept
  <2>2. QED
    BY <2>1, <1>5 DEF SitesOf
<1>7. ASSUME NEW f \in kept
      PROVE  \E i \in DOMAIN out : out[i] = Moved(f) /\ Rank(kept, f) = i
  <2>1. Rank(kept, f) \in DOMAIN out
    BY <1>2, <1>4
  <2> HIDE DEF out, Moved, kept
  <2>2. QED
    BY <1>2, <1>4, <2>1
<1> HIDE DEF out, Moved
<1>8. ASSUME NEW f \in kept, NEW pc \in SitesOf(fs[f].code, Leading)
      PROVE  pc \in SitesOf(fs[f].code, Transfers)
  <2>1. SitesOf(fs[f].code, {"framed"}) = {}
    BY <1>1
  <2>2. QED
    BY <2>1 DEF SitesOf, Leading
<1>9. ASSUME NEW i \in DOMAIN out, NEW pc \in SitesOf(out[i].code, Leading)
      PROVE  out[i].code[pc].to \in DOMAIN out
  <2>1. PICK f \in kept : Rank(kept, f) = i /\ out[i] = Moved(f)
    BY <1>2
  <2>2. pc \in SitesOf(fs[f].code, Transfers)
    BY <2>1, <1>6, <1>8
  <2>3. out[i].code[pc].to = Rank(kept, fs[f].code[pc].to)
    BY <2>1, <2>2, <1>5 DEF SitesOf
  <2> HIDE DEF kept
  <2>4. QED
    BY <2>2, <2>3, <1>2, <1>3, <1>4
<1>10. ASSUME NEW i \in DOMAIN out \ {1}
       PROVE  \E j \in DOMAIN out \ {i} : \E pc \in SitesOf(out[j].code, Leading) : out[j].code[pc].to = i
  <2>1. PICK f \in kept : Rank(kept, f) = i /\ out[i] = Moved(f)
    BY <1>2
  <2>2. f # 1
    BY <2>1, <1>4
  <2>3. PICK e \in Calls(fs) : e[1] \in kept \ {f} /\ e[2] = f
    BY <1>1, <2>2, ReachedFromElsewhere
  <2>4. PICK pc \in SitesOf(fs[e[1]].code, Transfers) : fs[e[1]].code[pc].to = f
    BY <2>3, CallPair, CallIn
  <2>5. PICK j \in DOMAIN out : out[j] = Moved(e[1]) /\ Rank(kept, e[1]) = j
    BY <2>3, <1>7
  <2>6. j # i
    <3> HIDE DEF kept
    <3> QED BY <2>1, <2>3, <2>5, <1>4
  <2>7. out[j].code[pc].to = i
    BY <2>1, <2>3, <2>4, <2>5, <1>5 DEF SitesOf
  <2>8. pc \in SitesOf(out[j].code, Leading)
    <3>1. pc \in SitesOf(fs[e[1]].code, Leading)
      BY <2>4 DEF SitesOf, Leading
    <3>2. QED
      BY <3>1, <2>3, <2>5, <1>6
  <2>9. QED
    BY <2>6, <2>7, <2>8
<1>11. \A i \in DOMAIN out : \E f \in kept :
         \A ops : SitesOf(out[i].code, ops) = SitesOf(fs[f].code, ops)
  BY <1>2, <1>6
<1>12. \A f \in kept : \E i \in DOMAIN out : out[i].comp = fs[f].comp
  <2>1. \A f \in kept : Moved(f).comp = fs[f].comp
    BY DEF Moved
  <2>2. QED
    BY <1>7, <2>1
<1>13. QED
  BY <1>9, <1>10, <1>11, <1>12 DEF Connected, out, kept

-----------------------------------------------------------------------------
(* Making stamps.                                                            *)

\* The functions as resolve hands them over.
Given == [r \in 1..CountOf |->
            [routine |-> r, comp |-> Generic, code |-> program.routines[r].code]]

\* What the engine reads there.
LEMMA GivenFuncs ==
  ASSUME program \in Programs, funcs = Given
  PROVE  /\ CountOf \in Nat \ {0} /\ FuncsOf(funcs, CountOf)
         /\ \A r \in 1..CountOf :
              /\ funcs[r] = [routine |-> r, comp |-> Generic, code |-> program.routines[r].code]
              /\ CodeOK(program.routines, funcs[r].code)
         /\ DOMAIN program.routines = 1..CountOf
         /\ 1..CountOf \subseteq ReachOf(Calls(funcs), 1)
<1> DEFINE rs == program.routines
<1>1. WellFormed(program)
  BY LinkerAssumption
<1>2. DOMAIN rs = 1..CountOf /\ CountOf \in Nat \ {0}
  BY <1>1 DEF WellFormed, CountOf, IsList
<1>3. ASSUME NEW r \in 1..CountOf
      PROVE  /\ funcs[r] = [routine |-> r, comp |-> Generic, code |-> rs[r].code]
             /\ CodeOK(rs, funcs[r].code)
  <2>1. funcs[r] = [routine |-> r, comp |-> Generic, code |-> rs[r].code]
    BY DEF Given
  <2>2. CodeOK(rs, rs[r].code)
    BY <1>1, <1>2 DEF WellFormed
  <2>3. QED
    BY <2>1, <2>2
<1>4. DOMAIN funcs = 1..CountOf
  BY DEF Given
<1>5. Calls(funcs) = Calls(rs)
  <2> HIDE DEF rs
  <2>1. ASSUME NEW f \in 1..CountOf PROVE funcs[f].code = rs[f].code
    <3>1. funcs[f] = [routine |-> f, comp |-> Generic, code |-> rs[f].code]
      BY <1>3
    <3>2. QED
      BY <3>1
  <2>2. QED
    BY <1>2, <1>4, <2>1 DEF Calls
<1>6. 1..CountOf \subseteq ReachOf(Calls(funcs), 1)
  BY <1>1, <1>2, <1>5 DEF WellFormed, IsList
<1>7. FuncsOf(funcs, CountOf)
  <2>1. ASSUME NEW f \in 1..CountOf
        PROVE  /\ funcs[f] = [routine |-> funcs[f].routine, comp |-> funcs[f].comp, code |-> funcs[f].code]
               /\ IsFiniteSet(DOMAIN funcs[f].code)
    <3>1. DOMAIN funcs[f].code = 1..Len(funcs[f].code) /\ Len(funcs[f].code) \in Nat
      BY <1>3 DEF CodeOK, IsList
    <3>2. IsFiniteSet(1..Len(funcs[f].code))
      BY <3>1, FS_Interval
    <3> HIDE DEF rs
    <3>3. funcs[f] = [routine |-> f, comp |-> Generic, code |-> rs[f].code]
      BY <1>3
    <3>4. funcs[f].routine = f /\ funcs[f].comp = Generic /\ funcs[f].code = rs[f].code
      BY <3>3
    <3>5. QED
      BY <3>1, <3>2, <3>3, <3>4
  <2>2. ASSUME NEW f \in 1..CountOf, NEW pc \in SitesOf(funcs[f].code, Transfers)
        PROVE  funcs[f].code[pc].to \in 1..CountOf /\ {"op", "to"} \subseteq DOMAIN funcs[f].code[pc]
    <3> DEFINE i == funcs[f].code[pc]
    <3>1. pc \in DOMAIN funcs[f].code /\ i.op \in Transfers
      BY DEF SitesOf
    <3>2. i.to \in DOMAIN rs /\ IsInstr(i)
      BY <1>3, <3>1 DEF CodeOK
    <3> HIDE DEF i, rs
    <3>3. {"op", "to"} \subseteq DOMAIN i
      BY <3>1, <3>2 DEF IsInstr, Transfers
    <3>4. QED
      BY <1>2, <3>2, <3>3 DEF i, rs
  <2>3. QED
    BY <1>4, <2>1, <2>2 DEF FuncsOf
<1>8. QED
  BY <1>2, <1>3, <1>6, <1>7

\* The set of stamps is the least one that has the seeds and, for what has
\* been followed, what its calls lead to.
Generated(base) ==
  \A X \in SUBSET nodes :
    base \subseteq X /\ (\A comp \in X \cap closed : Children(comp) \subseteq X) => X = nodes
IsNode(comp) ==
  comp = [routine |-> comp.routine, tapes |-> comp.tapes] /\ comp.routine \in 1..CountOf
StampInv ==
  /\ seeds \subseteq Projecting
  /\ IsFiniteSet(nodes) /\ closed \subseteq nodes
  /\ \A comp \in nodes : IsNode(comp)
  /\ {SeedNode(s) : s \in seeds} \subseteq nodes
  /\ \A comp \in closed : /\ Children(comp) \subseteq nodes
                          /\ SitesOf(funcs[comp.routine].code, {"raw"}) = {}
  /\ Generated({SeedNode(s) : s \in seeds})

\* A site is a routine and a place in its code.
LEMMA SiteIn ==
  ASSUME NEW ops
  PROVE  \A s : s \in AllSites(ops) <=>
           \E f \in DOMAIN funcs : \E pc \in SitesOf(funcs[f].code, ops) : s = <<f, pc>>
BY DEF AllSites

\* Finitely many functions have finitely many sites.
LEMMA AllSitesFinite ==
  ASSUME NEW n \in Nat, FuncsOf(funcs, n), NEW ops
  PROVE  IsFiniteSet(AllSites(ops))
<1> DEFINE h == [f \in DOMAIN funcs |-> {f} \X SitesOf(funcs[f].code, ops)]
<1>1. IsFiniteSet(DOMAIN funcs)
  BY FS_Interval DEF FuncsOf
<1>2. ASSUME NEW f \in DOMAIN funcs PROVE IsFiniteSet({f} \X SitesOf(funcs[f].code, ops))
  <2>1. IsFiniteSet(SitesOf(funcs[f].code, ops))
    BY SitesFinite DEF FuncsOf
  <2>2. QED
    BY <2>1, FS_Singleton, FS_Product
<1>3. DOMAIN h = DOMAIN funcs /\ \A f \in DOMAIN funcs : h[f] = {f} \X SitesOf(funcs[f].code, ops)
  OBVIOUS
<1>4. AllSites(ops) = UNION {h[f] : f \in DOMAIN h}
  BY DEF AllSites
<1> HIDE DEF h
<1>5. QED
  BY <1>1, <1>2, <1>3, <1>4, UnionFinite

\* A composite of a legal binding is one of the routine it binds.
LEMMA ComposedNode ==
  ASSUME NEW outer, NEW binding, NEW caller, NEW r \in 1..CountOf, NEW callee
  PROVE  IsNode(Compose(outer, binding, caller, r, callee))
BY DEF IsNode, Compose, ComposeComposites, BindingToComposite

\* Rewriting a stamp asks for finitely many more, each of them a stamp.
LEMMA ChildrenAreNodes ==
  ASSUME program \in Programs, funcs = Given, NEW comp, IsNode(comp)
  PROVE  IsFiniteSet(Children(comp)) /\ \A c \in Children(comp) : IsNode(c)
<1> DEFINE code == funcs[comp.routine].code
           S == {x \in SitesOf(code, Transfers) : ~Returns(comp, code[x])}
           e == [pc \in S |-> Child(comp, code[pc])]
<1>1. comp.routine \in 1..CountOf /\ FuncsOf(funcs, CountOf)
  BY GivenFuncs DEF IsNode
<1>2. IsFiniteSet(S)
  <2>1. IsFiniteSet(SitesOf(code, Transfers))
    BY <1>1, SitesFinite DEF FuncsOf
  <2>2. S \in SUBSET SitesOf(code, Transfers)
    OBVIOUS
  <2> HIDE DEF S, code
  <2>3. QED
    BY <2>1, <2>2, FS_Subset
<1>3. DOMAIN e = S /\ {e[pc] : pc \in DOMAIN e} = Children(comp)
  BY DEF Children
<1>4. ASSUME NEW pc \in S PROVE IsNode(Child(comp, code[pc]))
  <2>1. code[pc].to \in 1..CountOf
    BY <1>1 DEF FuncsOf
  <2> HIDE DEF code
  <2>2. CASE code[pc].op = "bound"
    BY <2>1, <2>2, ComposedNode DEF Child
  <2>3. CASE code[pc].op # "bound"
    <3>1. Child(comp, code[pc]) = [comp EXCEPT !.routine = code[pc].to]
      BY <2>3 DEF Child
    <3>2. comp = [routine |-> comp.routine, tapes |-> comp.tapes]
      BY DEF IsNode
    <3>3. Child(comp, code[pc]) = [routine |-> code[pc].to, tapes |-> comp.tapes]
      BY <3>1, <3>2
    <3>4. QED
      BY <2>1, <3>3 DEF IsNode
  <2>4. QED
    BY <2>2, <2>3
<1>5. \A c \in Children(comp) : \E pc \in S : c = Child(comp, code[pc])
  BY DEF Children
<1> HIDE DEF S, e
<1>6. IsFiniteSet(Children(comp))
  BY <1>2, <1>3, ImageFinite
<1>7. QED
  BY <1>4, <1>5, <1>6

\* Stamps are numbered one after the other.
LEMMA StampsListed ==
  ASSUME IsFiniteSet(nodes), CountOf \in Nat
  PROVE  /\ Cardinality(nodes) \in Nat
         /\ DOMAIN Stamps = 1..Cardinality(nodes)
         /\ \A i \in 1..Cardinality(nodes) : Stamps[i] \in nodes
         /\ \A comp \in nodes : /\ StampOf(comp) \in CountOf + 1 .. CountOf + Cardinality(nodes)
                                /\ Stamps[StampOf(comp) - CountOf] = comp
<1> DEFINE n == Cardinality(nodes)
<1>1. n \in Nat
  BY FS_CardinalityType
<1>2. \E f \in [1..n -> nodes] : IsInjective(f)
  BY Listed DEF IsInjective
<1>3. Stamps \in [1..n -> nodes] /\ IsInjective(Stamps)
  BY <1>2 DEF Stamps, SetToSeq
<1> HIDE DEF n
<1>4. Stamps \in Surjection(1..n, nodes)
  <2>1. Stamps \in Injection(1..n, nodes)
    BY <1>3 DEF Injection
  <2>2. Cardinality(1..n) = n
    BY <1>1, FS_Interval
  <2>3. QED
    BY <2>1, <2>2, FS_Injection DEF n
<1>5. ASSUME NEW comp \in nodes
      PROVE  /\ StampOf(comp) \in CountOf + 1 .. CountOf + n
             /\ Stamps[StampOf(comp) - CountOf] = comp
  <2> DEFINE i == CHOOSE x \in DOMAIN Stamps : Stamps[x] = comp
  <2>1. \E x \in DOMAIN Stamps : Stamps[x] = comp
    BY <1>3, <1>4 DEF Surjection
  <2>2. i \in DOMAIN Stamps /\ Stamps[i] = comp
    BY <2>1
  <2>3. StampOf(comp) = CountOf + i
    BY DEF StampOf
  <2> HIDE DEF i
  <2>4. i \in 1..n /\ StampOf(comp) - CountOf = i
    BY <1>1, <1>3, <2>2, <2>3
  <2>5. QED
    BY <1>1, <2>2, <2>3, <2>4
<1>6. QED
  BY <1>1, <1>3, <1>5 DEF n

-----------------------------------------------------------------------------
(* What stamping leaves.                                                     *)

\* A transfer has its target, and every blob ends.
LEMMA GivenCode ==
  ASSUME program \in Programs, funcs = Given, NEW f \in 1..CountOf, NEW pc \in DOMAIN funcs[f].code
  PROVE  LET i == funcs[f].code[pc]
         IN  /\ i.op \in Transfers \cup {"wrmv", "match", "branch", "ret", "stop"}
             /\ i.op \in Transfers => i.to \in 1..CountOf /\ {"op", "to"} \subseteq DOMAIN i
             /\ i.op \in {"match", "branch"} => i = [op |-> i.op, rows |-> i.rows]
             /\ DOMAIN funcs[f].code = 1..Len(funcs[f].code) /\ Len(funcs[f].code) \in Nat \ {0}
<1> DEFINE i == funcs[f].code[pc]
<1>1. CodeOK(program.routines, funcs[f].code) /\ DOMAIN program.routines = 1..CountOf
  BY GivenFuncs
<1>2. IsInstr(i) /\ (i.op \in Transfers => i.to \in 1..CountOf)
  BY <1>1 DEF CodeOK, IsList
<1>3. DOMAIN funcs[f].code = 1..Len(funcs[f].code) /\ Len(funcs[f].code) \in Nat \ {0}
  BY <1>1 DEF CodeOK, IsList
<1> HIDE DEF i
<1>4. i.op \in Transfers \cup {"wrmv", "match", "branch", "ret", "stop"}
  BY <1>2 DEF IsInstr, Transfers
<1>5. i.op \in Transfers => {"op", "to"} \subseteq DOMAIN i
  BY <1>2 DEF IsInstr, Transfers
<1>6. i.op \in {"match", "branch"} => i = [op |-> i.op, rows |-> i.rows]
  BY <1>2 DEF IsInstr
<1>7. QED
  BY <1>2, <1>3, <1>4, <1>5, <1>6 DEF i

\* Where a call of a stamp leads.
StampTarget(comp, instr) ==
  IF Returns(comp, instr) THEN instr.to ELSE StampOf(Child(comp, instr))

\* In a stamp the transfers of its routine are calls and tail calls, and
\* nothing else leads anywhere.
LEMMA StampCode ==
  ASSUME program \in Programs, funcs = Given, NEW comp, IsNode(comp),
         SitesOf(funcs[comp.routine].code, {"raw"}) = {}
  PROVE  LET code == funcs[comp.routine].code
             out  == BuildStamp(comp).code
         IN  /\ BuildStamp(comp) = [routine |-> comp.routine, comp |-> comp, code |-> out]
             /\ IsFiniteSet(DOMAIN out) /\ DOMAIN code \subseteq DOMAIN out
             /\ \A pc \in SitesOf(code, Transfers) : \E op \in {"call", "tail"} :
                  out[pc] = [op |-> op, to |-> StampTarget(comp, code[pc])]
             /\ \A pc \in DOMAIN out \ SitesOf(code, Transfers) : out[pc].op \notin Leading
<1> DEFINE code == funcs[comp.routine].code
           Emit(instr) ==
             CASE instr.op \in {"call", "bound"} -> [op |-> "call", to |-> StampTarget(comp, instr)]
               [] instr.op = "tail" -> [op |-> "tail", to |-> StampTarget(comp, instr)]
               [] instr.op = "wrmv" -> StampWrite(comp, instr)
               [] instr.op \in {"match", "branch"} ->
                    [instr EXCEPT !.rows = RewriteMatchTable(comp, @, Len(code) + 1)]
               [] OTHER -> instr
           stub == [op |-> "trap", kind |-> "UnmappedRead"]
           out  == [pc \in 1..Len(code) + 1 |-> IF pc \in DOMAIN code THEN Emit(code[pc]) ELSE stub]
<1>1. BuildStamp(comp) = [routine |-> comp.routine, comp |-> comp, code |-> out]
  BY DEF BuildStamp, StampTarget
<1>2. comp.routine \in 1..CountOf
  BY DEF IsNode
<1>3. DOMAIN code = 1..Len(code) /\ Len(code) \in Nat
  BY <1>2, GivenFuncs DEF CodeOK, IsList
<1>4. DOMAIN out = 1..Len(code) + 1 /\ DOMAIN code \subseteq DOMAIN out
  BY <1>3
<1>5. IsFiniteSet(DOMAIN out)
  <2>1. PICK n \in Int : DOMAIN out = 1..n
    BY <1>3, <1>4
  <2>2. IsFiniteSet(1..n)
    <3>1. 1 \in Int
      OBVIOUS
    <3>2. QED
      BY <2>1, <3>1, FS_Interval
  <2>3. QED
    BY <2>1, <2>2
<1>6. ASSUME NEW pc \in SitesOf(code, Transfers)
      PROVE  \E op \in {"call", "tail"} : out[pc] = [op |-> op, to |-> StampTarget(comp, code[pc])]
  <2>1. pc \in DOMAIN code /\ code[pc].op \in Transfers
    BY DEF SitesOf
  <2>2. code[pc].op # "raw"
    BY <2>1 DEF SitesOf
  <2>3. out[pc] = Emit(code[pc])
    BY <1>4, <2>1
  <2> DEFINE i == code[pc]
  <2>4. out[pc] = Emit(i) /\ i.op \in {"call", "bound", "tail"}
    BY <2>1, <2>2, <2>3 DEF Transfers
  <2> HIDE DEF code, out, i
  <2>5. Emit(i) = [op |-> "call", to |-> StampTarget(comp, i)]
        \/ Emit(i) = [op |-> "tail", to |-> StampTarget(comp, i)]
    BY <2>4
  <2>6. QED
    BY <2>4, <2>5 DEF i
<1>7. ASSUME NEW pc \in DOMAIN out \ SitesOf(code, Transfers) PROVE out[pc].op \notin Leading
  <2>1. CASE pc \notin DOMAIN code
    <3>1. out[pc] = stub
      BY <2>1, <1>4
    <3>2. stub.op \notin Leading
      BY DEF Leading, Transfers
    <3>3. QED
      BY <3>1, <3>2
  <2>2. CASE pc \in DOMAIN code
    <3> DEFINE i == code[pc]
    <3>1. out[pc] = Emit(i)
      BY <2>2, <1>4
    <3>2. /\ i.op \in {"wrmv", "match", "branch", "ret", "stop"}
          /\ i.op \in {"match", "branch"} => i = [op |-> i.op, rows |-> i.rows]
      BY <2>2, <1>2, GivenCode DEF SitesOf
    <3>3. StampWrite(comp, i).op \in {"trap", "wrmv"}
      BY DEF StampWrite
    <3> HIDE DEF code, out, i
    <3>4. CASE i.op = "wrmv"
      BY <3>1, <3>3, <3>4 DEF Leading, Transfers
    <3>5. CASE i.op \in {"match", "branch"}
      <4>1. Emit(i) = [i EXCEPT !.rows = RewriteMatchTable(comp, @, Len(code) + 1)]
        BY <3>5
      <4>2. Emit(i).op = i.op
        BY <3>2, <3>5, <4>1
      <4>3. QED
        BY <3>1, <3>5, <4>2 DEF Leading, Transfers
    <3>6. CASE i.op \in {"ret", "stop"}
      BY <3>1, <3>6 DEF Leading, Transfers
    <3>7. QED
      BY <3>2, <3>4, <3>5, <3>6
  <2>3. QED
    BY <2>1, <2>2
<1> HIDE DEF out
<1>8. BuildStamp(comp).code = out
  BY <1>1
<1>9. QED
  BY <1>1, <1>4, <1>5, <1>6, <1>7, <1>8

\* A bound call of a routine leads to its stamp, stays, or loses its binding;
\* nothing else changes.
LEMMA RetargetCode ==
  ASSUME program \in Programs, funcs = Given, NEW f \in 1..CountOf
  PROVE  LET code == funcs[f].code
             out  == Retarget(f).code
         IN  /\ Retarget(f) = [routine |-> f, comp |-> Generic, code |-> out]
             /\ DOMAIN out = DOMAIN code
             /\ \A pc \in DOMAIN code :
                  /\ code[pc].op # "bound" => out[pc] = code[pc]
                  /\ code[pc].op = "bound" /\ <<f, pc>> \in seeds =>
                       out[pc] = [op |-> "call", to |-> StampOf(SeedNode(<<f, pc>>))]
                  /\ code[pc].op = "bound" /\ <<f, pc>> \notin seeds =>
                       out[pc] = IF Mixed THEN code[pc] ELSE [op |-> "call", to |-> code[pc].to]
<1> DEFINE code == funcs[f].code
           New(pc, instr) ==
             IF instr.op # "bound" THEN instr
             ELSE IF <<f, pc>> \in seeds
             THEN [op |-> "call", to |-> StampOf(SeedNode(<<f, pc>>))]
             ELSE IF Mixed THEN instr ELSE [op |-> "call", to |-> instr.to]
           out == [pc \in DOMAIN code |-> New(pc, code[pc])]
<1>1. Retarget(f) = [funcs[f] EXCEPT !.code = [pc \in DOMAIN @ |-> New(pc, @[pc])]]
  BY DEF Retarget
<1>2. funcs[f] = [routine |-> f, comp |-> Generic, code |-> code]
  <2>1. funcs[f] = [routine |-> f, comp |-> Generic, code |-> program.routines[f].code]
    BY GivenFuncs
  <2>2. QED
    BY <2>1
<1> HIDE DEF New
<1>3. Retarget(f) = [routine |-> f, comp |-> Generic, code |-> out]
  <2> HIDE DEF code
  <2>1. DOMAIN funcs[f] = {"routine", "comp", "code"} /\ funcs[f].routine = f
        /\ funcs[f].comp = Generic /\ funcs[f].code = code
    BY <1>2
  <2>2. QED
    BY <1>1, <2>1
<1>4. ASSUME NEW pc \in DOMAIN code PROVE out[pc] = New(pc, code[pc])
  OBVIOUS
<1>5. DOMAIN out = DOMAIN code
  OBVIOUS
<1> HIDE DEF out, code
<1>6. Retarget(f).code = out
  BY <1>3
<1>7. QED
  BY <1>3, <1>4, <1>5, <1>6 DEF New, code

\* The functions before pruning: the routines, then the stamps.
LEMMA LoweredParts ==
  ASSUME program \in Programs, funcs = Given, IsFiniteSet(nodes)
  PROVE  /\ CountOf + Cardinality(nodes) \in Nat \ {0}
         /\ DOMAIN Lowered = 1..CountOf + Cardinality(nodes)
         /\ \A f \in 1..CountOf : f \in DOMAIN Lowered /\ Lowered[f] = Retarget(f)
         /\ \A comp \in nodes : /\ StampOf(comp) \in DOMAIN Lowered
                                /\ Lowered[StampOf(comp)] = BuildStamp(comp)
         /\ \A f \in DOMAIN Lowered \ (1..CountOf) : \E comp \in nodes : Lowered[f] = BuildStamp(comp)
<1> DEFINE n == Cardinality(nodes)
<1>1. CountOf \in Nat \ {0}
  BY GivenFuncs
<1>2. /\ n \in Nat /\ \A i \in 1..n : Stamps[i] \in nodes
      /\ \A comp \in nodes : StampOf(comp) \in CountOf + 1 .. CountOf + n
                             /\ Stamps[StampOf(comp) - CountOf] = comp
  BY <1>1, StampsListed
<1>3. Lowered = [f \in 1..CountOf + n |->
                   IF f <= CountOf THEN Retarget(f) ELSE BuildStamp(Stamps[f - CountOf])]
  BY DEF Lowered
<1> HIDE DEF n
<1>4. ASSUME NEW comp \in nodes
      PROVE  StampOf(comp) \in 1..CountOf + n /\ Lowered[StampOf(comp)] = BuildStamp(comp)
  <2>1. StampOf(comp) \in 1..CountOf + n /\ ~(StampOf(comp) <= CountOf)
    BY <1>1, <1>2
  <2>2. Lowered[StampOf(comp)] = BuildStamp(Stamps[StampOf(comp) - CountOf])
    BY <1>3, <2>1
  <2>3. QED
    BY <1>2, <2>1, <2>2
<1>5. ASSUME NEW f \in 1..CountOf + n, f \notin 1..CountOf
      PROVE  \E comp \in nodes : Lowered[f] = BuildStamp(comp)
  <2>1. ~(f <= CountOf) /\ f - CountOf \in 1..n
    BY <1>1, <1>2, <1>5
  <2>2. QED
    BY <1>2, <1>3, <2>1
<1>6. ASSUME NEW f \in 1..CountOf
      PROVE  f \in 1..CountOf + n /\ Lowered[f] = Retarget(f)
  BY <1>1, <1>2, <1>3
<1>7. DOMAIN Lowered = 1..CountOf + n
  BY <1>3
<1>8. CountOf + n \in Nat \ {0}
  BY <1>1, <1>2
<1>9. QED
  BY <1>4, <1>5, <1>6, <1>7, <1>8 DEF n

\* They call one another, nothing is framed yet, and what is still bound is
\* there only when both mechanisms are in one image.
LEMMA LoweredFuncs ==
  ASSUME program \in Programs, funcs = Given, StampInv, nodes \subseteq closed
  PROVE  /\ FuncsOf(Lowered, CountOf + Cardinality(nodes))
         /\ \A f \in DOMAIN Lowered : SitesOf(Lowered[f].code, {"framed"}) = {}
         /\ ~Mixed => \A f \in DOMAIN Lowered : SitesOf(Lowered[f].code, {"bound"}) = {}
<1> DEFINE N == CountOf + Cardinality(nodes)
           Good(f) == /\ Lowered[f] = [routine |-> Lowered[f].routine, comp |-> Lowered[f].comp,
                                       code |-> Lowered[f].code]
                      /\ IsFiniteSet(DOMAIN Lowered[f].code)
                      /\ \A pc \in DOMAIN Lowered[f].code :
                           LET i == Lowered[f].code[pc]
                           IN  /\ i.op # "framed" /\ (~Mixed => i.op # "bound")
                               /\ i.op \in Transfers => i.to \in 1..N /\ {"op", "to"} \subseteq DOMAIN i
<1>1. IsFiniteSet(nodes) /\ \A comp \in nodes : IsNode(comp) /\ SitesOf(funcs[comp.routine].code, {"raw"}) = {}
  BY DEF StampInv
<1>2. /\ N \in Nat \ {0} /\ DOMAIN Lowered = 1..N
      /\ \A f \in 1..CountOf : f \in 1..N /\ Lowered[f] = Retarget(f)
      /\ \A comp \in nodes : StampOf(comp) \in 1..N /\ Lowered[StampOf(comp)] = BuildStamp(comp)
      /\ \A f \in (1..N) \ (1..CountOf) : \E comp \in nodes : Lowered[f] = BuildStamp(comp)
  <2>1. IsFiniteSet(nodes)
    BY <1>1
  <2>2. QED
    BY <2>1, LoweredParts
<1> HIDE DEF N
<1>3. ASSUME NEW f \in 1..CountOf PROVE Good(f)
  <2> DEFINE code == funcs[f].code
             out  == Retarget(f).code
  <2>1. /\ Retarget(f) = [routine |-> f, comp |-> Generic, code |-> out]
        /\ DOMAIN out = DOMAIN code
        /\ \A pc \in DOMAIN code :
             /\ code[pc].op # "bound" => out[pc] = code[pc]
             /\ code[pc].op = "bound" /\ <<f, pc>> \in seeds =>
                  out[pc] = [op |-> "call", to |-> StampOf(SeedNode(<<f, pc>>))]
             /\ code[pc].op = "bound" /\ <<f, pc>> \notin seeds =>
                  out[pc] = IF Mixed THEN code[pc] ELSE [op |-> "call", to |-> code[pc].to]
    BY RetargetCode
  <2>2. IsFiniteSet(DOMAIN code)
    BY GivenFuncs DEF FuncsOf
  <2>3. ASSUME NEW pc \in DOMAIN code
        PROVE  LET i == out[pc]
               IN  /\ i.op # "framed" /\ (~Mixed => i.op # "bound")
                   /\ i.op \in Transfers => i.to \in 1..N /\ {"op", "to"} \subseteq DOMAIN i
    <3> DEFINE i == code[pc]
    <3>1. /\ i.op \in Transfers \cup {"wrmv", "match", "branch", "ret", "stop"}
          /\ i.op \in Transfers => i.to \in 1..CountOf /\ {"op", "to"} \subseteq DOMAIN i
      BY GivenCode
    <3>2. 1..CountOf \subseteq 1..N
      BY <1>2
    <3> HIDE DEF code, out
    <3>3. CASE i.op # "bound" \/ (<<f, pc>> \notin seeds /\ Mixed)
      <4>1. out[pc] = i /\ (~Mixed => i.op # "bound")
        BY <2>1, <3>3
      <4> HIDE DEF i
      <4>2. QED
        BY <3>1, <3>2, <4>1 DEF Transfers
    <3>4. CASE i.op = "bound" /\ <<f, pc>> \in seeds
      <4>1. SeedNode(<<f, pc>>) \in nodes
        BY <3>4 DEF StampInv
      <4>2. out[pc] = [op |-> "call", to |-> StampOf(SeedNode(<<f, pc>>))]
        BY <2>1, <3>4
      <4>3. StampOf(SeedNode(<<f, pc>>)) \in 1..N
        BY <1>2, <4>1
      <4>4. QED
        BY <4>2, <4>3
    <3>5. CASE i.op = "bound" /\ <<f, pc>> \notin seeds /\ ~Mixed
      <4>1. out[pc] = [op |-> "call", to |-> i.to] /\ i.to \in 1..N
        BY <2>1, <3>1, <3>2, <3>5 DEF Transfers
      <4>2. QED
        BY <4>1
    <3>6. QED
      BY <3>3, <3>4, <3>5
  <2>4. Lowered[f] = Retarget(f)
    BY <1>2
  <2> HIDE DEF out, code
  <2>5. QED
    BY <2>1, <2>2, <2>3, <2>4
<1>4. ASSUME NEW comp \in nodes, NEW f, Lowered[f] = BuildStamp(comp) PROVE Good(f)
  <2> DEFINE code == funcs[comp.routine].code
             out  == BuildStamp(comp).code
  <2>0. IsNode(comp) /\ SitesOf(code, {"raw"}) = {} /\ comp.routine \in 1..CountOf
    BY <1>1 DEF IsNode
  <2>1. /\ BuildStamp(comp) = [routine |-> comp.routine, comp |-> comp, code |-> out]
        /\ IsFiniteSet(DOMAIN out)
        /\ \A pc \in SitesOf(code, Transfers) : \E op \in {"call", "tail"} :
             out[pc] = [op |-> op, to |-> StampTarget(comp, code[pc])]
        /\ \A pc \in DOMAIN out \ SitesOf(code, Transfers) : out[pc].op \notin Leading
    BY <2>0, StampCode
  <2>2. ASSUME NEW pc \in SitesOf(code, Transfers)
        PROVE  StampTarget(comp, code[pc]) \in 1..N
    <3>1. code[pc].to \in 1..CountOf /\ 1..CountOf \subseteq 1..N
      BY <1>2, <2>0, GivenCode DEF SitesOf
    <3>2. CASE Returns(comp, code[pc])
      BY <3>1, <3>2 DEF StampTarget
    <3>3. CASE ~Returns(comp, code[pc])
      <4>1. Child(comp, code[pc]) \in Children(comp)
        BY <3>3 DEF Children
      <4>2. Child(comp, code[pc]) \in nodes
        BY <4>1 DEF StampInv
      <4>3. QED
        BY <1>2, <3>3, <4>2 DEF StampTarget
    <3>4. QED
      BY <3>2, <3>3
  <2>3. ASSUME NEW pc \in DOMAIN out
        PROVE  LET i == out[pc]
               IN  /\ i.op # "framed" /\ (~Mixed => i.op # "bound")
                   /\ i.op \in Transfers => i.to \in 1..N /\ {"op", "to"} \subseteq DOMAIN i
    <3>1. CASE pc \in SitesOf(code, Transfers)
      <4>1. PICK op \in {"call", "tail"} : out[pc] = [op |-> op, to |-> StampTarget(comp, code[pc])]
        BY <2>1, <3>1
      <4>2. StampTarget(comp, code[pc]) \in 1..N
        BY <2>2, <3>1
      <4>3. QED
        BY <4>1, <4>2
    <3>2. CASE pc \notin SitesOf(code, Transfers)
      <4>1. out[pc].op \notin Leading
        BY <2>1, <3>2
      <4>2. QED
        BY <4>1 DEF Leading, Transfers
    <3>3. QED
      BY <3>1, <3>2
  <2> HIDE DEF out, code
  <2>4. QED
    BY <2>1, <2>3, <1>4
<1>5. \A f \in 1..N : Good(f)
  <2> HIDE DEF Good
  <2>1. QED
    BY <1>2, <1>3, <1>4
<1>6. FuncsOf(Lowered, N)
  BY <1>2, <1>5 DEF FuncsOf, SitesOf
<1>7. \A f \in DOMAIN Lowered : SitesOf(Lowered[f].code, {"framed"}) = {}
  BY <1>2, <1>5 DEF SitesOf
<1>8. ~Mixed => \A f \in DOMAIN Lowered : SitesOf(Lowered[f].code, {"bound"}) = {}
  BY <1>2, <1>5 DEF SitesOf
<1>9. QED
  BY <1>6, <1>7, <1>8 DEF N

\* What a function leads to is kept when the function is.
LEMMA KeptLeads ==
  ASSUME NEW n \in Nat \ {0}, NEW fs, FuncsOf(fs, n),
         NEW f \in ReachOf(Calls(fs), 1), NEW pc \in SitesOf(fs[f].code, Transfers)
  PROVE  fs[f].code[pc].to \in ReachOf(Calls(fs), 1)
<1> DEFINE kept == ReachOf(Calls(fs), 1)
           e == <<f, fs[f].code[pc].to>>
<1>1. kept \in SUBSET (1..n) /\ IsFiniteSet(Calls(fs))
  BY KeptAreFunctions
<1>2. e \in Calls(fs)
  BY <1>1, CallIn DEF FuncsOf
<1>3. e[1] = f /\ e[2] = fs[f].code[pc].to
  OBVIOUS
<1> HIDE DEF e
<1>4. QED
  BY <1>1, <1>2, <1>3, ReachClosed

\* What runs at the machine's own frame is kept: the calls the identity walk
\* follows are still there after stamping.
LEMMA IdentityWorldKept ==
  ASSUME program \in Programs, funcs = Given, StampInv, nodes \subseteq closed
  PROVE  IdentityWorld \subseteq ReachOf(Calls(Lowered), 1)
<1> DEFINE N == CountOf + Cardinality(nodes)
           kept == ReachOf(Calls(Lowered), 1)
           S == {t \in AllSites(Transfers) : Inherits(t)}
           E == {<<s[1], Site(s).to>> : s \in S}
           h == [s \in S |-> <<s[1], Site(s).to>>]
<1>1. FuncsOf(Lowered, N) /\ N \in Nat \ {0}
  <2>1. IsFiniteSet(nodes)
    BY DEF StampInv
  <2>2. QED
    BY <2>1, LoweredFuncs, LoweredParts
<1>2. IsFiniteSet(E)
  <2>1. IsFiniteSet(AllSites(Transfers))
    BY GivenFuncs, AllSitesFinite
  <2>2. S \in SUBSET AllSites(Transfers)
    OBVIOUS
  <2>3. DOMAIN h = S /\ {h[s] : s \in DOMAIN h} = E
    OBVIOUS
  <2> HIDE DEF S, E, h
  <2>4. IsFiniteSet(S)
    BY <2>1, <2>2, FS_Subset
  <2>5. QED
    BY <2>3, <2>4, ImageFinite
<1>3. ASSUME NEW s \in S, s[1] \in kept PROVE Site(s).to \in kept
  <2>1. PICK f \in 1..CountOf : \E x \in SitesOf(funcs[f].code, Transfers) : s = <<f, x>>
    <3>1. DOMAIN funcs = 1..CountOf
      BY GivenFuncs DEF FuncsOf
    <3>2. QED
      BY <3>1, SiteIn
  <2>2. PICK pc \in SitesOf(funcs[f].code, Transfers) : s = <<f, pc>>
    BY <2>1
  <2> DEFINE code == funcs[f].code
  <2>3. Site(s) = code[pc] /\ s[1] = f
    BY <2>2 DEF Site
  <2>4. pc \in DOMAIN code /\ code[pc].op \in Transfers /\ Inherits(s)
    BY DEF SitesOf
  <2>5. Lowered[f] = Retarget(f) /\ DOMAIN Retarget(f).code = DOMAIN code
    <3>1. IsFiniteSet(nodes)
      BY DEF StampInv
    <3>2. QED
      BY <3>1, LoweredParts, RetargetCode
  <2>6. s \notin seeds \/ code[pc].op # "bound"
    BY <2>3, <2>4 DEF StampInv, Projecting, Inherits
  <2>7. Retarget(f).code[pc].op \in Transfers /\ Retarget(f).code[pc].to = code[pc].to
    <3>1. CASE code[pc].op # "bound"
      <4>1. Retarget(f).code[pc] = code[pc]
        BY <2>4, <3>1, RetargetCode
      <4>2. QED
        BY <2>4, <4>1
    <3>2. CASE code[pc].op = "bound" /\ Mixed
      <4>1. Retarget(f).code[pc] = code[pc]
        BY <2>2, <2>4, <2>6, <3>2, RetargetCode
      <4>2. QED
        BY <2>4, <4>1
    <3>3. CASE code[pc].op = "bound" /\ ~Mixed
      <4>1. Retarget(f).code[pc] = [op |-> "call", to |-> code[pc].to]
        BY <2>2, <2>4, <2>6, <3>3, RetargetCode
      <4>2. QED
        BY <4>1 DEF Transfers
    <3>4. QED
      BY <3>1, <3>2, <3>3
  <2>8. pc \in SitesOf(Lowered[f].code, Transfers)
    BY <2>4, <2>5, <2>7 DEF SitesOf
  <2>9. QED
    BY <1>1, <1>3, <2>3, <2>5, <2>7, <2>8, KeptLeads
<1>4. 1 \in kept
  BY <1>1, KeptAreFunctions, ReachRoot
<1>5. \A e \in E : e[1] \in kept => e[2] \in kept
  <2> HIDE DEF S, kept
  <2>1. QED
    BY <1>3
<1>6. IdentityWorld = ReachOf(E, 1)
  BY DEF IdentityWorld
<1> HIDE DEF E, kept, S
<1>7. QED
  BY <1>2, <1>4, <1>5, <1>6, ReachLeast DEF kept

\* No stamp is lost: the seeds are calls of functions that are kept, the calls
\* of a stamp lead to the stamps of its children, and the stamps are the least
\* set of that kind.
LEMMA StampsKept ==
  ASSUME program \in Programs, funcs = Given, StampInv, nodes \subseteq closed, NEW comp \in nodes
  PROVE  StampOf(comp) \in ReachOf(Calls(Lowered), 1)
<1> DEFINE N == CountOf + Cardinality(nodes)
           kept == ReachOf(Calls(Lowered), 1)
           X == {c \in nodes : StampOf(c) \in kept}
<1>0. IsFiniteSet(nodes)
  BY DEF StampInv
<1>1. FuncsOf(Lowered, N) /\ N \in Nat \ {0}
  BY <1>0, LoweredFuncs, LoweredParts
<1>2. ASSUME NEW s \in seeds PROVE SeedNode(s) \in X
  <2>1. s \in AllSites({"bound"}) /\ s[1] \in IdentityWorld
    BY DEF StampInv, Projecting
  <2>2. PICK f \in 1..CountOf : \E x \in SitesOf(funcs[f].code, {"bound"}) : s = <<f, x>>
    <3>1. DOMAIN funcs = 1..CountOf
      BY GivenFuncs DEF FuncsOf
    <3>2. QED
      BY <2>1, <3>1, SiteIn
  <2>3. PICK pc \in SitesOf(funcs[f].code, {"bound"}) : s = <<f, pc>>
    BY <2>2
  <2>4. pc \in DOMAIN funcs[f].code /\ funcs[f].code[pc].op = "bound"
    BY DEF SitesOf
  <2>5. Lowered[f] = Retarget(f) /\ DOMAIN Retarget(f).code = DOMAIN funcs[f].code
    BY <1>0, LoweredParts, RetargetCode
  <2>6. Retarget(f).code[pc] = [op |-> "call", to |-> StampOf(SeedNode(s))]
    BY <2>3, <2>4, RetargetCode
  <2>7. pc \in SitesOf(Lowered[f].code, Transfers) /\ Lowered[f].code[pc].to = StampOf(SeedNode(s))
    BY <2>4, <2>5, <2>6 DEF SitesOf, Transfers
  <2>8. f \in kept
    BY <2>1, <2>3, IdentityWorldKept
  <2>9. SeedNode(s) \in nodes
    BY DEF StampInv
  <2>10. StampOf(SeedNode(s)) \in kept
    BY <1>1, <2>7, <2>8, KeptLeads
  <2>11. QED
    BY <2>9, <2>10
<1>3. ASSUME NEW c \in X, NEW d \in Children(c) PROVE d \in X
  <2> DEFINE code == funcs[c.routine].code
  <2>1. IsNode(c) /\ SitesOf(code, {"raw"}) = {} /\ d \in nodes
    BY DEF StampInv
  <2>2. PICK pc \in SitesOf(code, Transfers) : ~Returns(c, code[pc]) /\ d = Child(c, code[pc])
    BY DEF Children
  <2>3. PICK op \in {"call", "tail"} : BuildStamp(c).code[pc] = [op |-> op, to |-> StampTarget(c, code[pc])]
    BY <2>1, StampCode
  <2>4. pc \in DOMAIN BuildStamp(c).code
    <3>1. DOMAIN code \subseteq DOMAIN BuildStamp(c).code
      BY <2>1, StampCode
    <3>2. pc \in DOMAIN code
      BY DEF SitesOf
    <3>3. QED
      BY <3>1, <3>2
  <2>5. Lowered[StampOf(c)] = BuildStamp(c)
    BY <1>0, LoweredParts
  <2>6. StampTarget(c, code[pc]) = StampOf(d)
    BY <2>2 DEF StampTarget
  <2>7. BuildStamp(c).code[pc].op \in Transfers /\ BuildStamp(c).code[pc].to = StampOf(d)
    BY <2>3, <2>6 DEF Transfers
  <2>8. pc \in SitesOf(Lowered[StampOf(c)].code, Transfers) /\ Lowered[StampOf(c)].code[pc].to = StampOf(d)
    BY <2>4, <2>5, <2>7 DEF SitesOf
  <2>9. StampOf(d) \in kept
    BY <1>1, <2>8, KeptLeads
  <2>10. QED
    BY <2>1, <2>9
<1>4. X \in SUBSET nodes
  OBVIOUS
<1>5. X = nodes
  <2> HIDE DEF X
  <2>1. {SeedNode(s) : s \in seeds} \subseteq X
    BY <1>2
  <2>2. \A c \in X \cap closed : Children(c) \subseteq X
    BY <1>3
  <2>3. Generated({SeedNode(s) : s \in seeds})
    BY DEF StampInv
  <2>4. QED
    BY <1>4, <2>1, <2>2, <2>3 DEF Generated
<1>6. QED
  BY <1>5

-----------------------------------------------------------------------------
(* The invariant of the linker.                                              *)

\* Functions that can be shipped: connected, and with the stamps made.
AreFunctions(fs) ==
  \A f \in DOMAIN fs : fs[f] = [routine |-> fs[f].routine, comp |-> fs[f].comp, code |-> fs[f].code]
Linked == AreFunctions(funcs) /\ Connected(funcs) /\ Carries(funcs, nodes)
ShipInv ==
  /\ program \in Programs /\ mechanism \in Mechanisms
  /\ phase \in {"scan", "stamp"} => funcs = Given
  /\ phase = "scan" => nodes = {} /\ closed = {} /\ seeds = {}
  /\ phase = "stamp" => StampInv
  /\ phase \in {"frames", "ready"} => Linked
  /\ phase = "ready" => \A f \in DOMAIN funcs : SitesOf(funcs[f].code, {"bound"}) = {}

\* What the stamping definitions read does not change while funcs does not.
LEMMA StampingReads ==
  ASSUME UNCHANGED <<program, funcs>>
  PROVE  /\ CountOf' = CountOf /\ Projecting' = Projecting /\ Given' = Given
         /\ \A comp : Children(comp)' = Children(comp)
         /\ \A s : SeedNode(s)' = SeedNode(s)
<1>1. Projecting' = Projecting
  BY SMT DEF Projecting, AllSites, IdentityWorld, Collapses, Absolutized, Inherits, Site, Cards,
             Machine, Generic
<1>2. \A s : SeedNode(s)' = SeedNode(s)
  BY DEF SeedNode, Site, Cards, Arity, Machine, Generic
<1>3. \A comp, i : Child(comp, i)' = Child(comp, i)
  BY DEF Child, Cards, Machine, Generic
<1>4. \A comp, i : Returns(comp, i)' = Returns(comp, i)
  BY <1>3 DEF Returns, Cards, Machine, Generic
<1>5. \A comp : Children(comp)' = Children(comp)
  BY <1>3, <1>4 DEF Children
<1>6. CountOf' = CountOf
  BY DEF CountOf
<1>7. Given' = Given
  BY <1>6 DEF Given, Generic
<1>8. QED
  BY <1>1, <1>2, <1>5, <1>6, <1>7

\* The routines as given can be shipped: resolve walked to each of them.
LEMMA GivenLinked ==
  ASSUME program \in Programs, funcs = Given, nodes = {}
  PROVE  Linked
<1>1. /\ CountOf \in Nat \ {0} /\ FuncsOf(funcs, CountOf) /\ DOMAIN funcs = 1..CountOf
      /\ 1..CountOf \subseteq ReachOf(Calls(funcs), 1)
  BY GivenFuncs DEF FuncsOf
<1>2. AreFunctions(funcs) /\ Carries(funcs, nodes)
  BY <1>1 DEF AreFunctions, Carries, FuncsOf
<1>3. ASSUME NEW f \in DOMAIN funcs, NEW pc \in SitesOf(funcs[f].code, Leading)
      PROVE  funcs[f].code[pc].to \in DOMAIN funcs
  <2>1. funcs[f].code[pc].op \in Transfers
    BY <1>1, GivenCode DEF SitesOf, Leading
  <2>2. QED
    BY <1>1, <2>1, GivenCode DEF SitesOf
<1>4. ASSUME NEW f \in DOMAIN funcs \ {1}
      PROVE  \E g \in DOMAIN funcs \ {f} : \E pc \in SitesOf(funcs[g].code, Leading) :
               funcs[g].code[pc].to = f
  <2>1. IsFiniteSet(Calls(funcs)) /\ f \in ReachOf(Calls(funcs), 1) /\ f # 1
    BY <1>1, KeptAreFunctions
  <2>2. PICK e \in Calls(funcs) : e[1] \in ReachOf(Calls(funcs), 1) \ {f} /\ e[2] = f
    BY <2>1, ReachedFromElsewhere
  <2>3. e[1] \in DOMAIN funcs /\ e[1] # f
    BY <2>2, CallPair, CallIn
  <2>4. PICK pc \in SitesOf(funcs[e[1]].code, Transfers) : funcs[e[1]].code[pc].to = f
    BY <2>2, CallPair, CallIn
  <2>5. pc \in SitesOf(funcs[e[1]].code, Leading)
    BY <2>4 DEF SitesOf, Leading
  <2>6. QED
    BY <2>3, <2>4, <2>5
<1>5. QED
  BY <1>2, <1>3, <1>4 DEF Linked, Connected

\* Seeds are a least set of stamps.
LEMMA SeedsInv ==
  ASSUME program \in Programs, funcs = Given, closed = {}, NEW from \in SUBSET Projecting,
         seeds' = from, nodes' = {SeedNode(s) : s \in from}, UNCHANGED <<program, funcs, closed>>
  PROVE  StampInv'
<1> DEFINE h == [s \in from |-> SeedNode(s)]
<1>1. /\ CountOf' = CountOf /\ Projecting' = Projecting
      /\ \A comp : Children(comp)' = Children(comp)
      /\ \A s : SeedNode(s)' = SeedNode(s)
  BY StampingReads
<1>2. IsFiniteSet(nodes')
  <2>1. IsFiniteSet(AllSites({"bound"}))
    BY GivenFuncs, AllSitesFinite
  <2>2. from \in SUBSET AllSites({"bound"})
    BY DEF Projecting
  <2>3. IsFiniteSet(from)
    BY <2>1, <2>2, FS_Subset
  <2>4. DOMAIN h = from /\ {h[s] : s \in DOMAIN h} = nodes'
    OBVIOUS
  <2> HIDE DEF h
  <2>5. QED
    BY <2>3, <2>4, ImageFinite
<1>3. ASSUME NEW s \in from PROVE IsNode(SeedNode(s))
  <2>1. s \in AllSites({"bound"})
    BY DEF Projecting
  <2>2. PICK f \in DOMAIN funcs : \E x \in SitesOf(funcs[f].code, {"bound"}) : s = <<f, x>>
    BY <2>1, SiteIn
  <2>3. PICK pc \in SitesOf(funcs[f].code, {"bound"}) : s = <<f, pc>>
    BY <2>2
  <2>4. Site(s) = funcs[f].code[pc] /\ f \in 1..CountOf
    BY <2>3, GivenFuncs DEF Site, FuncsOf
  <2>5. Site(s).to \in 1..CountOf
    BY <2>4, GivenCode DEF SitesOf, Transfers
  <2>6. QED
    BY <2>5, ComposedNode DEF SeedNode
<1>4. \A comp \in nodes' : IsNode(comp)'
  <2>1. \A comp : IsNode(comp)' <=> IsNode(comp)
    BY <1>1 DEF IsNode
  <2>2. QED
    BY <1>3, <2>1
<1>5. {SeedNode(s) : s \in seeds}' = nodes'
  BY <1>1
<1>6. Generated({SeedNode(s) : s \in seeds})'
  BY <1>5 DEF Generated
<1>7. QED
  BY <1>1, <1>2, <1>4, <1>5, <1>6 DEF StampInv

\* Following a stamp keeps the set a least one: a set with the seeds that the
\* stamps followed so far close has the stamps there were, and then the
\* children of the one followed now.
LEMMA CloseStampInv ==
  ASSUME program \in Programs, funcs = Given, StampInv, NEW comp \in nodes \ closed,
         SitesOf(funcs[comp.routine].code, {"raw"}) = {},
         nodes' = nodes \cup Children(comp), closed' = closed \cup {comp},
         UNCHANGED <<program, funcs, seeds>>
  PROVE  StampInv'
<1> DEFINE base == {SeedNode(s) : s \in seeds}
<1>1. /\ CountOf' = CountOf /\ Projecting' = Projecting
      /\ \A c : Children(c)' = Children(c)
      /\ \A s : SeedNode(s)' = SeedNode(s)
  BY StampingReads
<1>2. /\ seeds \subseteq Projecting /\ IsFiniteSet(nodes) /\ closed \subseteq nodes
      /\ \A c \in nodes : IsNode(c)
      /\ base \subseteq nodes
      /\ \A c \in closed : Children(c) \subseteq nodes /\ SitesOf(funcs[c.routine].code, {"raw"}) = {}
      /\ Generated(base)
  BY DEF StampInv
<1>3. IsFiniteSet(Children(comp)) /\ \A c \in Children(comp) : IsNode(c)
  BY <1>2, ChildrenAreNodes
<1>4. IsFiniteSet(nodes')
  BY <1>2, <1>3, FS_Union
<1>5. \A c \in nodes' : IsNode(c)'
  <2>1. \A c : IsNode(c)' <=> IsNode(c)
    BY <1>1 DEF IsNode
  <2>2. QED
    BY <1>2, <1>3, <2>1
<1>6. base' = base
  BY <1>1
<1> HIDE DEF base
<1>7. ASSUME NEW X \in SUBSET (nodes'), base \subseteq X,
             \A c \in X \cap closed' : Children(c) \subseteq X
      PROVE  X = nodes'
  <2> DEFINE Y == X \cap nodes
  <2>1. base \subseteq Y
    BY <1>2, <1>7
  <2>2. ASSUME NEW c \in Y \cap closed PROVE Children(c) \subseteq Y
    BY <1>2, <1>7, <2>2
  <2>3. Y = nodes
    <3> HIDE DEF Y
    <3>1. Y \in SUBSET nodes
      BY DEF Y
    <3>2. QED
      BY <1>2, <2>1, <2>2, <3>1 DEF Generated
  <2>4. comp \in X /\ comp \in closed'
    BY <2>3
  <2>5. Children(comp) \subseteq X
    BY <1>7, <2>4
  <2>6. QED
    BY <2>3, <2>5
<1>8. Generated(base)'
  BY <1>1, <1>6, <1>7 DEF Generated
<1>9. closed' \subseteq nodes' /\ base' \subseteq nodes'
  BY <1>2, <1>6
<1>10. \A c \in closed' : Children(c)' \subseteq nodes' /\ SitesOf(funcs[c.routine].code, {"raw"})' = {}
  BY <1>1, <1>2
<1>11. QED
  BY <1>1, <1>2, <1>4, <1>5, <1>8, <1>9, <1>10 DEF StampInv, base

\* What is emitted ships: pruning connects it and keeps every stamp.
LEMMA EmittedLinked ==
  ASSUME program \in Programs, funcs = Given, StampInv, nodes \subseteq closed,
         funcs' = PruneUnreachable(Lowered), UNCHANGED nodes
  PROVE  /\ Linked'
         /\ ~Mixed => \A f \in DOMAIN funcs' : SitesOf(funcs'[f].code, {"bound"}) = {}
<1> DEFINE N == CountOf + Cardinality(nodes)
           kept == ReachOf(Calls(Lowered), 1)
           out  == PruneUnreachable(Lowered)
<1>1. IsFiniteSet(nodes)
  BY DEF StampInv
<1>2. /\ FuncsOf(Lowered, N) /\ N \in Nat \ {0}
      /\ \A f \in DOMAIN Lowered : SitesOf(Lowered[f].code, {"framed"}) = {}
      /\ ~Mixed => \A f \in DOMAIN Lowered : SitesOf(Lowered[f].code, {"bound"}) = {}
  BY <1>1, LoweredFuncs, LoweredParts
<1>3. DOMAIN Lowered = 1..N /\ kept \in SUBSET (1..N)
  BY <1>1, <1>2, LoweredParts, KeptAreFunctions
<1>4. /\ Connected(out)
      /\ \A i \in DOMAIN out : \E f \in kept :
           \A ops : SitesOf(out[i].code, ops) = SitesOf(Lowered[f].code, ops)
      /\ \A f \in kept : \E i \in DOMAIN out : out[i].comp = Lowered[f].comp
  <2>1. \A f \in 1..N : SitesOf(Lowered[f].code, {"framed"}) = {}
    BY <1>2, <1>3
  <2> HIDE DEF N
  <2>2. QED
    BY <1>2, <2>1, PruneConnects
<1>5. AreFunctions(out)
  <2>1. ASSUME NEW i \in DOMAIN out
        PROVE  out[i] = [routine |-> out[i].routine, comp |-> out[i].comp, code |-> out[i].code]
    <3>1. PICK f \in kept :
            out[i] = [routine |-> Lowered[f].routine, comp |-> Lowered[f].comp,
                      code |-> [pc \in DOMAIN Lowered[f].code |-> Renumbered(kept, Lowered[f].code[pc])]]
      <4> HIDE DEF N
      <4> QED BY <1>2, Shipped
    <3> HIDE DEF out, kept
    <3>2. QED
      BY <3>1
  <2>2. QED
    BY <2>1 DEF AreFunctions
<1>6. Carries(out, nodes)
  <2>1. ASSUME NEW comp \in nodes PROVE \E i \in DOMAIN out : out[i].comp = comp
    <3>1. StampOf(comp) \in kept /\ Lowered[StampOf(comp)] = BuildStamp(comp)
      BY <1>1, StampsKept, LoweredParts
    <3>2. BuildStamp(comp).comp = comp
      BY DEF BuildStamp
    <3>3. QED
      BY <1>4, <3>1, <3>2
  <2>2. QED
    BY <2>1 DEF Carries
<1>7. ~Mixed => \A i \in DOMAIN out : SitesOf(out[i].code, {"bound"}) = {}
  <2>1. ASSUME ~Mixed, NEW i \in DOMAIN out PROVE SitesOf(out[i].code, {"bound"}) = {}
    <3>1. PICK f \in kept : SitesOf(out[i].code, {"bound"}) = SitesOf(Lowered[f].code, {"bound"})
      BY <1>4
    <3>2. QED
      BY <1>2, <1>3, <2>1, <3>1
  <2>2. QED
    BY <2>1
<1> HIDE DEF out
<1>8. funcs' = out
  BY DEF out
<1>9. Linked'
  BY <1>4, <1>5, <1>6, <1>8 DEF Linked
<1>10. QED
  BY <1>7, <1>8, <1>9

\* A blob rewritten for frames leads where it led, through framed calls.
LEMMA PlannedLinked ==
  ASSUME Linked, funcs' = [f \in DOMAIN funcs |-> RewriteBlob(f)], UNCHANGED nodes
  PROVE  /\ Linked'
         /\ \A f \in DOMAIN funcs' : SitesOf(funcs'[f].code, {"bound"}) = {}
<1> DEFINE New(f, pc) ==
             IF funcs[f].code[pc].op \notin {"bound", "raw"} THEN funcs[f].code[pc]
             ELSE IF Framed(<<f, pc>>)
             THEN [op |-> "framed", to |-> funcs[f].code[pc].to, site |-> <<f, pc>>]
             ELSE [op |-> "call", to |-> funcs[f].code[pc].to]
           Code(f) == [pc \in DOMAIN funcs[f].code |-> New(f, pc)]
<1>1. AreFunctions(funcs) /\ Connected(funcs) /\ Carries(funcs, nodes)
  BY DEF Linked
<1>2. ASSUME NEW f \in DOMAIN funcs
      PROVE  funcs'[f] = [routine |-> funcs[f].routine, comp |-> funcs[f].comp, code |-> Code(f)]
  <2>1. funcs'[f] = [funcs[f] EXCEPT !.code = Code(f)]
    BY DEF RewriteBlob
  <2>2. funcs[f] = [routine |-> funcs[f].routine, comp |-> funcs[f].comp, code |-> funcs[f].code]
    BY <1>1 DEF AreFunctions
  <2> HIDE DEF Code
  <2>3. QED
    BY <2>1, <2>2
<1>3. DOMAIN funcs' = DOMAIN funcs
  OBVIOUS
<1>4. ASSUME NEW f \in DOMAIN funcs, NEW pc \in DOMAIN funcs[f].code
      PROVE  /\ funcs'[f].code[pc].op # "bound"
             /\ funcs'[f].code[pc].op \in Leading <=> funcs[f].code[pc].op \in Leading
             /\ funcs[f].code[pc].op \in Leading => funcs'[f].code[pc].to = funcs[f].code[pc].to
  <2>1. funcs'[f].code = Code(f)
    <3> HIDE DEF Code
    <3> QED BY <1>2
  <2>2. funcs'[f].code[pc] = New(f, pc)
    BY <2>1
  <2> DEFINE i == funcs[f].code[pc]
  <2>3. CASE i.op \notin {"bound", "raw"}
    <3>1. New(f, pc) = i
      BY <2>3
    <3> HIDE DEF i, New
    <3>2. QED
      BY <2>2, <2>3, <3>1 DEF i
  <2>4. CASE i.op \in {"bound", "raw"} /\ Framed(<<f, pc>>)
    <3>1. New(f, pc) = [op |-> "framed", to |-> i.to, site |-> <<f, pc>>]
      BY <2>4
    <3>2. New(f, pc).op = "framed" /\ New(f, pc).to = i.to
      BY <3>1
    <3> HIDE DEF i, New
    <3>3. QED
      BY <2>2, <2>4, <3>2 DEF i, Leading, Transfers
  <2>5. CASE i.op \in {"bound", "raw"} /\ ~Framed(<<f, pc>>)
    <3>1. New(f, pc) = [op |-> "call", to |-> i.to]
      BY <2>5
    <3>2. New(f, pc).op = "call" /\ New(f, pc).to = i.to
      BY <3>1
    <3> HIDE DEF i, New
    <3>3. QED
      BY <2>2, <2>5, <3>2 DEF i, Leading, Transfers
  <2>6. QED
    BY <2>3, <2>4, <2>5
<1>5. ASSUME NEW f \in DOMAIN funcs
      PROVE  /\ SitesOf(funcs'[f].code, {"bound"}) = {}
             /\ SitesOf(funcs'[f].code, Leading) = SitesOf(funcs[f].code, Leading)
             /\ \A pc \in SitesOf(funcs[f].code, Leading) : funcs'[f].code[pc].to = funcs[f].code[pc].to
             /\ funcs'[f] = [routine |-> funcs'[f].routine, comp |-> funcs'[f].comp, code |-> funcs'[f].code]
             /\ funcs'[f].comp = funcs[f].comp
  <2>1. DOMAIN funcs'[f].code = DOMAIN funcs[f].code
    BY <1>2
  <2> HIDE DEF Code, New
  <2>2. /\ funcs'[f] = [routine |-> funcs'[f].routine, comp |-> funcs'[f].comp, code |-> funcs'[f].code]
        /\ funcs'[f].comp = funcs[f].comp
    BY <1>2
  <2>3. QED
    BY <1>4, <2>1, <2>2 DEF SitesOf
<1>6. AreFunctions(funcs') /\ Connected(funcs') /\ Carries(funcs', nodes)
  <2> HIDE DEF Code, New
  <2>1. AreFunctions(funcs')
    BY <1>3, <1>5 DEF AreFunctions
  <2>2. Carries(funcs', nodes)
    BY <1>1, <1>3, <1>5 DEF Carries
  <2>3. Connected(funcs')
    BY <1>1, <1>3, <1>5 DEF Connected
  <2>4. QED
    BY <2>1, <2>2, <2>3
<1>7. QED
  BY <1>3, <1>5, <1>6 DEF Linked

-----------------------------------------------------------------------------
(* The theorem.                                                              *)

\* The invariant holds of a link that has done nothing.
LEMMA ShipInit == Init => ShipInv
<1>1. SUFFICES ASSUME Init PROVE ShipInv
  OBVIOUS
<1>2. /\ program \in Programs /\ mechanism \in Mechanisms /\ phase = "scan" /\ funcs = Given
      /\ nodes = {} /\ closed = {} /\ seeds = {}
  BY <1>1 DEF Init, Given
<1>3. QED
  BY <1>2 DEF ShipInv

\* A link that is not stamping yet, or no longer, or that was refused.
LEMMA ShipKept ==
  ASSUME ShipInv, UNCHANGED <<program, mechanism, phase, funcs, seeds, nodes, closed>>
  PROVE  ShipInv'
<1>1. /\ CountOf' = CountOf /\ Projecting' = Projecting /\ Given' = Given
      /\ \A comp : Children(comp)' = Children(comp)
      /\ \A s : SeedNode(s)' = SeedNode(s)
  BY StampingReads
<1>2. StampInv => StampInv'
  BY <1>1, SMT DEF StampInv, Generated, IsNode
<1>3. Linked => Linked'
  BY DEF Linked
<1>4. QED
  BY <1>1, <1>2, <1>3 DEF ShipInv

\* Every step of the engine and of the run keeps it.
LEMMA ShipStep == ShipInv /\ [Next]_vars => ShipInv'
<1>1. SUFFICES ASSUME ShipInv, [Next]_vars PROVE ShipInv'
  OBVIOUS
<1>2. /\ program \in Programs /\ mechanism \in Mechanisms
      /\ mechanism' = mechanism
  BY <1>1 DEF ShipInv, Next, Lower, Scan, CloseStamp, EmitStamps, Explore, Plan, Execute, vars
<1>3. CASE Scan
  <2>1. funcs = Given /\ nodes = {} /\ closed = {} /\ seeds = {} /\ UNCHANGED <<program, funcs, closed>>
    BY <1>1, <1>3 DEF Scan, ShipInv
  <2>2. \/ \E why \in {"BadBinding", "MonoRawFrame"} : Refuse(why)
        \/ ToFrames
        \/ \E from \in SUBSET Projecting : ToStamp(from)
    <3>1. Projecting \in SUBSET Projecting /\ Bijective \in SUBSET Projecting
      BY DEF Bijective
    <3> HIDE DEF ShipInv
    <3>2. Mono => Refuse("MonoRawFrame") \/ ToStamp(Projecting)
      BY DEF Mono
    <3>3. \/ Refuse("BadBinding")
          \/ CASE mechanism = "frames" -> ToFrames
               [] mechanism = "mono"   -> Mono
               [] mechanism = "hybrid" -> IF Bijective = {} THEN ToFrames
                                          ELSE IF Bijective = Projecting THEN Mono
                                          ELSE ToStamp(Bijective)
      BY <1>3 DEF Scan
    <3>4. mechanism \in {"frames", "mono", "hybrid"}
      BY <1>1, LinkerAssumption DEF ShipInv
    <3>5. QED
      BY <3>1, <3>2, <3>3, <3>4
  <2>3. CASE \E why \in {"BadBinding", "MonoRawFrame"} : Refuse(why)
    BY <1>2, <2>1, <2>3 DEF Refuse, ShipInv
  <2>4. CASE ToFrames
    <3>1. Linked
      BY <1>2, <2>1, GivenLinked
    <3>2. Linked'
      BY <3>1, <2>1, <2>4 DEF Linked, ToFrames
    <3>3. QED
      BY <1>2, <2>1, <2>4, <3>2 DEF ToFrames, ShipInv
  <2>5. ASSUME NEW from \in SUBSET Projecting, ToStamp(from) PROVE ShipInv'
    <3>1. StampInv'
      BY <1>2, <2>1, <2>5, SeedsInv DEF ToStamp
    <3>2. Given' = Given
      BY <2>1, StampingReads
    <3>3. QED
      BY <1>2, <2>1, <2>5, <3>1, <3>2 DEF ToStamp, ShipInv
  <2>6. QED
    BY <2>2, <2>3, <2>4, <2>5
<1>4. CASE CloseStamp
  <2>1. /\ phase = "stamp" /\ funcs = Given /\ StampInv
        /\ UNCHANGED <<program, funcs, seeds>>
    BY <1>1, <1>4 DEF CloseStamp, ShipInv, frameVars, runVars
  <2>2. PICK comp \in nodes \ closed :
          IF SitesOf(funcs[comp.routine].code, {"raw"}) # {}
          THEN phase' = "MonoRawFrame" /\ UNCHANGED <<nodes, closed>>
          ELSE /\ nodes' = nodes \cup Children(comp)
               /\ closed' = closed \cup {comp}
               /\ UNCHANGED phase
    BY <1>4 DEF CloseStamp
  <2>3. Given' = Given
    BY <2>1, StampingReads
  <2>4. CASE SitesOf(funcs[comp.routine].code, {"raw"}) # {}
    BY <1>2, <2>1, <2>2, <2>4 DEF ShipInv
  <2>5. CASE SitesOf(funcs[comp.routine].code, {"raw"}) = {}
    <3>1. StampInv'
      BY <1>2, <2>1, <2>2, <2>5, CloseStampInv
    <3>2. QED
      BY <1>2, <2>1, <2>2, <2>3, <2>5, <3>1 DEF ShipInv
  <2>6. QED
    BY <2>4, <2>5
<1>5. CASE EmitStamps
  <2>1. /\ phase = "stamp" /\ funcs = Given /\ StampInv /\ nodes \subseteq closed
        /\ UNCHANGED <<program, nodes>>
    BY <1>1, <1>5 DEF EmitStamps, ShipInv, stampVars
  <2>2. \/ phase' = "MonoHoleyMatchBranch"
        \/ /\ funcs' = PruneUnreachable(Lowered)
           /\ \/ Mixed /\ phase' = "frames"
              \/ ~Mixed /\ phase' = "ready"
    BY <1>5 DEF EmitStamps
  <2>3. CASE phase' = "MonoHoleyMatchBranch"
    BY <1>2, <2>1, <2>3 DEF ShipInv
  <2>4. CASE funcs' = PruneUnreachable(Lowered) /\ ((Mixed /\ phase' = "frames") \/ (~Mixed /\ phase' = "ready"))
    <3>1. /\ Linked'
          /\ ~Mixed => \A f \in DOMAIN funcs' : SitesOf(funcs'[f].code, {"bound"}) = {}
      BY <1>2, <2>1, <2>4, EmittedLinked
    <3>2. QED
      BY <1>2, <2>1, <2>4, <3>1 DEF ShipInv
  <2>5. QED
    BY <2>2, <2>3, <2>4
<1>6. CASE Explore
  BY <1>1, <1>6, ShipKept DEF Explore, stampVars
<1>7. CASE Plan
  <2>1. /\ phase = "frames" /\ phase' = "ready" /\ Linked
        /\ funcs' = [f \in DOMAIN funcs |-> RewriteBlob(f)] /\ UNCHANGED <<program, nodes>>
    BY <1>1, <1>7 DEF Plan, ShipInv, stampVars
  <2>2. Linked' /\ \A f \in DOMAIN funcs' : SitesOf(funcs'[f].code, {"bound"}) = {}
    BY <2>1, PlannedLinked
  <2>3. QED
    BY <1>2, <2>1, <2>2 DEF ShipInv
<1>8. CASE Execute
  BY <1>1, <1>8, ShipKept DEF Execute, stampVars
<1>9. CASE UNCHANGED vars
  BY <1>1, <1>9, ShipKept DEF vars, stampVars
<1>10. QED
  BY <1>1, <1>3, <1>4, <1>5, <1>6, <1>7, <1>8, <1>9 DEF Next, Lower

\* It says what ships once the image is ready.
LEMMA ShipInvHolds == ShipInv => ShipsWhatIsCalled
<1>1. SUFFICES ASSUME ShipInv, phase = "ready"
               PROVE  ShipsWhatIsCalled
  BY DEF ShipsWhatIsCalled
<1> DEFINE ops == {"call", "tail", "framed", "raw"}
           Called(f) == {funcs[f].code[pc].to : pc \in SitesOf(funcs[f].code, ops)}
<1>2. /\ Connected(funcs) /\ Carries(funcs, nodes)
      /\ \A f \in DOMAIN funcs : SitesOf(funcs[f].code, {"bound"}) = {}
  BY <1>1 DEF ShipInv, Linked
<1>3. \A f \in DOMAIN funcs : SitesOf(funcs[f].code, Leading) = SitesOf(funcs[f].code, ops)
  BY <1>2 DEF SitesOf, Leading, Transfers
<1> HIDE DEF ops
<1>4. \A f \in DOMAIN funcs : Called(f) \subseteq DOMAIN funcs
  BY <1>2, <1>3 DEF Connected
<1>5. \A f \in DOMAIN funcs \ {1} : \E g \in DOMAIN funcs \ {f} : f \in Called(g)
  BY <1>2, <1>3 DEF Connected
<1>6. QED
  BY <1>2, <1>4, <1>5 DEF ShipsWhatIsCalled, Carries, ops

\* Every image calls only what it has, has only what something else calls,
\* leaves no call bound and lost no stamp: for every program resolve accepts,
\* under every mechanism, in whatever order the engine explores.
THEOREM ShipsCalled == Spec => []ShipsWhatIsCalled
BY ShipInit, ShipStep, ShipInvHolds, PTL DEF Spec

-----------------------------------------------------------------------------
(* What a composite shows.                                                   *)

\* The maps a binding is lowered to are maps.
LEMMA BindingMaps ==
  ASSUME NEW c \in Nat, NEW d \in Nat, NEW pairs, PairsOver(pairs, c, d), LegalPairs(pairs, d)
  PROVE  IsMap(ReadMap(pairs, c, d)) /\ IsMap(WriteMap(pairs, c, d))
<1>1. IsMap(ReadMap(pairs, c, d))
  <2> DEFINE image == [t \in Sources(pairs) |-> (CHOOSE p \in pairs : p.src = t).dst]
             lost  == Close(Sources(pairs), c, d)
             moved == {t \in Sources(pairs) : image[t] # t /\ t \notin lost}
  <2>1. ReadMap(pairs, c, d) = [pairs |-> [t \in moved |-> image[t]], holes |-> lost]
    BY DEF ReadMap, Canonical
  <2>2. ASSUME NEW t \in Sources(pairs) PROVE t \in Nat /\ image[t] \in Nat
    <3>1. \E p \in pairs : p.src = t
      BY DEF Sources
    <3>2. PICK p \in pairs : p = CHOOSE q \in pairs : q.src = t
      BY <3>1
    <3>3. image[t] = p.dst /\ p.src = t
      BY <3>1, <3>2
    <3>4. QED
      BY <3>3 DEF PairsOver
  <2>3. lost \subseteq Nat
    BY DEF Close
  <2>4. moved \subseteq Sources(pairs)
    OBVIOUS
  <2> HIDE DEF image, lost, moved
  <2>5. QED
    BY <2>1, <2>2, <2>3, <2>4 DEF IsMap
<1>2. IsMap(WriteMap(pairs, c, d))
  <2> DEFINE named == Images(TwoWay(pairs))
             image == [t \in named |-> (CHOOSE p \in TwoWay(pairs) : p.dst = t).src]
             lost  == Close(named, d, c)
             moved == {t \in named : image[t] # t /\ t \notin lost}
  <2>1. WriteMap(pairs, c, d) = [pairs |-> [t \in moved |-> image[t]], holes |-> lost]
    BY DEF WriteMap, Canonical
  <2>2. ASSUME NEW t \in named PROVE t \in Nat /\ image[t] \in Nat
    <3>1. \E p \in TwoWay(pairs) : p.dst = t
      BY DEF Images
    <3>2. PICK p \in TwoWay(pairs) : p = CHOOSE q \in TwoWay(pairs) : q.dst = t
      BY <3>1
    <3>3. image[t] = p.src /\ p.dst = t /\ p \in pairs
      BY <3>1, <3>2 DEF TwoWay
    <3>4. QED
      BY <3>3 DEF PairsOver
  <2>3. lost \subseteq Nat
    BY DEF Close
  <2>4. moved \subseteq named
    OBVIOUS
  <2> HIDE DEF image, lost, moved, named
  <2>5. QED
    BY <2>1, <2>2, <2>3, <2>4 DEF IsMap
<1>3. QED
  BY <1>1, <1>2

\* They do on every symbol what the binding says.
LEMMA ReadsApplied ==
  ASSUME NEW c \in Nat \ {0}, NEW d \in Nat \ {0}, NEW pairs, PairsOver(pairs, c, d),
         LegalPairs(pairs, d), NEW v \in 0..c-1
  PROVE  /\ Apply(ReadMap(pairs, c, d), v) = ReadsAs(pairs, c = d, v)
         /\ ReadsAs(pairs, c = d, v) \in {Hole} \cup 0..d-1
<1>1. CASE \E p \in pairs : p.src = v
  <2> DEFINE p == CHOOSE q \in pairs : q.src = v
  <2>1. p \in pairs /\ p.src = v
    BY <1>1
  <2>2. ReadsAs(pairs, c = d, v) = p.dst
    BY <1>1 DEF ReadsAs
  <2> HIDE DEF p
  <2>3. Apply(ReadMap(pairs, c, d), v) = p.dst /\ p.dst \in 0..d-1
    BY <2>1, ReadMapApplied DEF PairsOver
  <2>4. QED
    BY <2>2, <2>3
<1>2. CASE \A p \in pairs : p.src # v
  <2>1. Apply(ReadMap(pairs, c, d), v) = IF c # d /\ v \in 1..c-1 THEN Hole ELSE v
    BY <1>2, ReadMapApplied
  <2>2. ReadsAs(pairs, c = d, v) = IF v = 0 \/ c = d THEN v ELSE Trapped
    BY <1>2 DEF ReadsAs
  <2>3. QED
    BY <2>1, <2>2 DEF Hole, Trapped
<1>3. QED
  BY <1>1, <1>2

\* The write map of a binding writes as the binding says.
LEMMA WritesApplied ==
  ASSUME NEW c \in Nat \ {0}, NEW d \in Nat \ {0}, NEW pairs, PairsOver(pairs, c, d),
         LegalPairs(pairs, d), NEW v \in 0..d-1
  PROVE  /\ Apply(WriteMap(pairs, c, d), v) = WritesAs(pairs, c = d, v)
         /\ WritesAs(pairs, c = d, v) \in {Hole} \cup 0..c-1
<1> DEFINE both == {p \in pairs : ~p.oneWay}
<1>0. both = TwoWay(pairs)
  BY DEF TwoWay
<1>1. CASE \E p \in both : p.dst = v
  <2> DEFINE p == CHOOSE q \in both : q.dst = v
  <2>1. p \in both /\ p.dst = v
    BY <1>1
  <2>2. WritesAs(pairs, c = d, v) = p.src
    BY <1>1 DEF WritesAs
  <2> HIDE DEF p
  <2>3. Apply(WriteMap(pairs, c, d), v) = p.src /\ p.src \in 0..c-1
    BY <1>0, <2>1, WriteMapApplied DEF PairsOver
  <2>4. QED
    BY <2>2, <2>3
<1>2. CASE \A p \in both : p.dst # v
  <2>1. Apply(WriteMap(pairs, c, d), v) = IF c # d /\ v \in 1..d-1 THEN Hole ELSE v
    BY <1>0, <1>2, WriteMapApplied
  <2>2. WritesAs(pairs, c = d, v) = IF v = 0 \/ c = d THEN v ELSE Trapped
    BY <1>2 DEF WritesAs
  <2>3. QED
    BY <2>1, <2>2 DEF Hole, Trapped
<1>3. QED
  BY <1>1, <1>2

\* What a tape shows when it is one of a binding put on another, of a machine
\* of m symbols, a caller of c and a callee of d.
TapeShows(both, outer, pairs, m, c, d) ==
  /\ IsTape(both) /\ both.phys = outer.phys
  /\ \A s \in 0..m-1 :
       /\ Apply(both.rmap, s) \in {Hole} \cup 0..d-1
       /\ ImageIn(both.rmap, s, d) =
            IF ImageIn(outer.rmap, s, c) = Trapped THEN Trapped
            ELSE ReadsAs(pairs, c = d, ImageIn(outer.rmap, s, c))
  /\ \A s \in 0..d-1 :
       /\ WritesAs(pairs, c = d, s) \in {Trapped} \cup 0..c-1
       /\ ImageIn(both.wmap, s, m) =
            IF WritesAs(pairs, c = d, s) = Trapped THEN Trapped
            ELSE ImageIn(outer.wmap, WritesAs(pairs, c = d, s), m)

\* One tape composed: reading and writing through two maps in turn is
\* reading and writing through their composition.
LEMMA TapeThrough ==
  ASSUME NEW m \in Nat \ {0}, NEW c \in Nat \ {0}, NEW d \in Nat \ {0},
         NEW pairs, PairsOver(pairs, c, d), LegalPairs(pairs, d),
         NEW outer, IsTape(outer), \A s \in 0..m-1 : Apply(outer.rmap, s) \in {Hole} \cup 0..c-1,
         NEW inner, inner.rmap = ReadMap(pairs, c, d), inner.wmap = WriteMap(pairs, c, d)
  PROVE  TapeShows(ComposeTape(outer, inner), outer, pairs, m, c, d)
<1> DEFINE r == ComposeMap(outer.rmap, ReadMap(pairs, c, d))
           w == ComposeMap(WriteMap(pairs, c, d), outer.wmap)
           both == ComposeTape(outer, inner)
<1>1. both = [phys |-> outer.phys, rmap |-> r, wmap |-> w]
  BY DEF ComposeTape
<1>2. /\ IsMap(outer.rmap) /\ IsMap(outer.wmap)
      /\ IsMap(ReadMap(pairs, c, d)) /\ IsMap(WriteMap(pairs, c, d))
  BY BindingMaps DEF IsTape
<1>3. IsMap(r) /\ IsMap(w)
  BY <1>2, ComposeMapCanonical DEF IsCanonical
<1>4. ASSUME NEW s \in 0..m-1
      PROVE  /\ Apply(r, s) \in {Hole} \cup 0..d-1
             /\ ImageIn(r, s, d) = IF ImageIn(outer.rmap, s, c) = Trapped THEN Trapped
                                   ELSE ReadsAs(pairs, c = d, ImageIn(outer.rmap, s, c))
  <2> DEFINE v == Apply(outer.rmap, s)
  <2>1. v \in {Hole} \cup 0..c-1 /\ s \in Nat
    OBVIOUS
  <2>2. Apply(r, s) = IF v = Hole THEN Hole ELSE Apply(ReadMap(pairs, c, d), v)
    BY <1>2, <2>1, ComposeMapLaw DEF Then
  <2>3. ImageIn(outer.rmap, s, c) = v
    BY <2>1 DEF ImageIn, Hole
  <2> HIDE DEF v, r
  <2>4. CASE v = Hole
    BY <2>2, <2>3, <2>4 DEF Hole, Trapped, ImageIn
  <2>5. CASE v \in 0..c-1
    <3>1. Apply(r, s) = ReadsAs(pairs, c = d, v) /\ Apply(r, s) \in {Hole} \cup 0..d-1
      BY <2>2, <2>5, ReadsApplied DEF Hole
    <3>2. ImageIn(r, s, d) = Apply(r, s)
      BY <3>1 DEF ImageIn, Hole
    <3>3. QED
      BY <2>3, <2>5, <3>1, <3>2 DEF Trapped
  <2>6. QED
    BY <2>1, <2>4, <2>5
<1>5. ASSUME NEW s \in 0..d-1
      PROVE  /\ WritesAs(pairs, c = d, s) \in {Trapped} \cup 0..c-1
             /\ ImageIn(w, s, m) = IF WritesAs(pairs, c = d, s) = Trapped THEN Trapped
                                   ELSE ImageIn(outer.wmap, WritesAs(pairs, c = d, s), m)
  <2> DEFINE v == WritesAs(pairs, c = d, s)
  <2>1. v \in {Hole} \cup 0..c-1 /\ Apply(WriteMap(pairs, c, d), s) = v /\ s \in Nat
    BY WritesApplied
  <2>2. Apply(w, s) = IF v = Hole THEN Hole ELSE Apply(outer.wmap, v)
    BY <1>2, <2>1, ComposeMapLaw DEF Then
  <2> HIDE DEF v, w
  <2>3. QED
    BY <2>1, <2>2 DEF v, Hole, Trapped, ImageIn
<1> HIDE DEF r, w
<1>6. both.rmap = r /\ both.wmap = w /\ both.phys = outer.phys
  BY <1>1
<1>7. IsTape(both)
  BY <1>1, <1>3, <1>6 DEF IsTape
<1> HIDE DEF both
<1>8. QED
  BY <1>4, <1>5, <1>6, <1>7 DEF both, TapeShows

\* What a composite shows a routine with this signature of the machine.
Shows(machine, cards, context) ==
  [k \in DOMAIN context.tapes |->
     LET tape == context.tapes[k]
     IN  [phys  |-> tape.phys,
          read  |-> [s \in 0..machine[tape.phys]-1 |-> ImageIn(tape.rmap, s, cards[k])],
          write |-> [s \in 0..cards[k]-1 |-> ImageIn(tape.wmap, s, machine[tape.phys])]]]

\* A composite a routine with this signature can run under: a tape of the
\* machine for each of its own, on which it reads its own alphabet.
Suits(machine, cards, context) ==
  /\ DOMAIN context.tapes = DOMAIN cards
  /\ \A k \in DOMAIN cards :
       LET tape == context.tapes[k]
       IN  /\ IsTape(tape) /\ tape.phys \in DOMAIN machine
           /\ \A s \in 0..machine[tape.phys]-1 : Apply(tape.rmap, s) \in {Hole} \cup 0..cards[k]-1

\* The pairs of a legal binding are over the alphabets they join.
LEMMA LegalTapes ==
  ASSUME NEW caller \in Seq(Nat \ {0}), NEW callee \in Seq(Nat \ {0}), NEW binding,
         BindingOK(binding), Legal(binding, caller, callee)
  PROVE  /\ DOMAIN binding = DOMAIN callee
         /\ \A k \in DOMAIN callee :
              /\ binding[k].tape \in DOMAIN caller
              /\ caller[binding[k].tape] \in Nat \ {0} /\ callee[k] \in Nat \ {0}
              /\ PairsOver(binding[k].pairs, caller[binding[k].tape], callee[k])
              /\ LegalPairs(binding[k].pairs, callee[k])
<1>1. DOMAIN binding = 1..Len(binding) /\ Len(binding) = Len(callee) /\ DOMAIN callee = 1..Len(callee)
  BY DEF BindingOK, IsList, Legal
<1>2. ASSUME NEW k \in DOMAIN callee
      PROVE  /\ binding[k].tape \in DOMAIN caller
             /\ LegalPairs(binding[k].pairs, callee[k])
             /\ \A p \in binding[k].pairs : p.src < caller[binding[k].tape]
  BY <1>1 DEF Legal
<1>3. ASSUME NEW k \in DOMAIN callee
      PROVE  /\ caller[binding[k].tape] \in Nat \ {0} /\ callee[k] \in Nat \ {0}
             /\ PairsOver(binding[k].pairs, caller[binding[k].tape], callee[k])
  <2> DEFINE c == caller[binding[k].tape]
             d == callee[k]
             pairs == binding[k].pairs
  <2>1. c \in Nat \ {0} /\ d \in Nat \ {0}
    BY <1>2
  <2>2. pairs \subseteq [src : Nat, dst : Nat, oneWay : BOOLEAN]
    BY <1>1 DEF BindingOK
  <2>3. \A p \in pairs : p.src < c /\ p.dst < d
    BY <1>2 DEF LegalPairs
  <2> HIDE DEF c, d, pairs
  <2>4. PairsOver(pairs, c, d)
    BY <2>1, <2>2, <2>3 DEF PairsOver
  <2>5. QED
    BY <2>1, <2>4 DEF c, d, pairs
<1>4. QED
  BY <1>1, <1>2, <1>3

\* Composing is looking through the binding: the composite of a bound call
\* shows the callee what the binding shows of the caller's frame.
THEOREM ComposeShows ==
  ASSUME NEW machine \in Seq(Nat \ {0}), NEW caller \in Seq(Nat \ {0}), NEW callee \in Seq(Nat \ {0}),
         NEW binding, BindingOK(binding), Legal(binding, caller, callee),
         NEW context, Suits(machine, caller, context), NEW routine
  PROVE  LET both == Compose(context, binding, caller, routine, callee)
         IN  /\ both.routine = routine /\ Suits(machine, callee, both)
             /\ Shows(machine, callee, both)
                  = Through(Shows(machine, caller, context), binding, caller, callee)
<1> DEFINE both == Compose(context, binding, caller, routine, callee)
           M(k) == machine[context.tapes[binding[k].tape].phys]
           C(k) == caller[binding[k].tape]
           Inner(k) == [phys |-> binding[k].tape,
                        rmap |-> ReadMap(binding[k].pairs, C(k), callee[k]),
                        wmap |-> WriteMap(binding[k].pairs, C(k), callee[k])]
           Outer(k) == context.tapes[binding[k].tape]
           T(k) == ComposeTape(Outer(k), Inner(k))
<1>1. /\ DOMAIN binding = DOMAIN callee
      /\ \A k \in DOMAIN callee :
           /\ binding[k].tape \in DOMAIN caller
           /\ C(k) \in Nat \ {0} /\ callee[k] \in Nat \ {0}
           /\ PairsOver(binding[k].pairs, C(k), callee[k])
           /\ LegalPairs(binding[k].pairs, callee[k])
  BY LegalTapes
<1>2. both = [routine |-> routine, tapes |-> [k \in DOMAIN callee |-> T(k)]]
  <2>1. BindingToComposite(binding, caller, routine, callee)
          = [routine |-> routine, tapes |-> [k \in DOMAIN callee |-> Inner(k)]]
    BY <1>1 DEF BindingToComposite
  <2> DEFINE inner == BindingToComposite(binding, caller, routine, callee)
  <2> HIDE DEF Inner
  <2>2. inner.routine = routine /\ inner.tapes = [k \in DOMAIN callee |-> Inner(k)]
    BY <2>1
  <2>3. DOMAIN inner.tapes = DOMAIN callee /\ \A k \in DOMAIN callee : inner.tapes[k] = Inner(k)
    BY <2>2
  <2>4. \A k \in DOMAIN callee : Inner(k).phys = binding[k].tape
    BY DEF Inner
  <2> HIDE DEF inner
  <2>5. both = [routine |-> inner.routine,
                tapes |-> [k \in DOMAIN inner.tapes |->
                             ComposeTape(context.tapes[inner.tapes[k].phys], inner.tapes[k])]]
    BY DEF Compose, ComposeComposites, inner
  <2>6. [k \in DOMAIN inner.tapes |-> ComposeTape(context.tapes[inner.tapes[k].phys], inner.tapes[k])]
          = [k \in DOMAIN callee |-> T(k)]
    BY <2>3, <2>4
  <2>7. QED
    BY <2>2, <2>5, <2>6
<1>3. ASSUME NEW k \in DOMAIN callee
      PROVE  /\ M(k) \in Nat \ {0} /\ Outer(k).phys \in DOMAIN machine
             /\ TapeShows(T(k), Outer(k), binding[k].pairs, M(k), C(k), callee[k])
  <2>1. /\ IsTape(Outer(k)) /\ Outer(k).phys \in DOMAIN machine
        /\ \A s \in 0..M(k)-1 : Apply(Outer(k).rmap, s) \in {Hole} \cup 0..C(k)-1
    BY <1>1 DEF Suits
  <2>2. M(k) \in Nat \ {0}
    BY <2>1
  <2>3. Inner(k).rmap = ReadMap(binding[k].pairs, C(k), callee[k])
        /\ Inner(k).wmap = WriteMap(binding[k].pairs, C(k), callee[k])
    OBVIOUS
  <2> DEFINE c == C(k)
             m == M(k)
             o == Outer(k)
             j == Inner(k)
             pairs == binding[k].pairs
             d == callee[k]
  <2>4. /\ m \in Nat \ {0} /\ c \in Nat \ {0} /\ d \in Nat \ {0}
        /\ PairsOver(pairs, c, d) /\ LegalPairs(pairs, d) /\ IsTape(o)
        /\ \A s \in 0..m-1 : Apply(o.rmap, s) \in {Hole} \cup 0..c-1
        /\ j.rmap = ReadMap(pairs, c, d) /\ j.wmap = WriteMap(pairs, c, d)
    BY <1>1, <2>1, <2>2, <2>3
  <2>5. T(k) = ComposeTape(o, j)
    OBVIOUS
  <2> HIDE DEF c, m, o, j, pairs, d, T
  <2>6. TapeShows(T(k), o, pairs, m, c, d)
    BY <2>4, <2>5, TapeThrough
  <2>7. QED
    BY <2>1, <2>2, <2>6 DEF c, m, o, pairs, d
<1> HIDE DEF T, both
<1>4. both.routine = routine /\ DOMAIN both.tapes = DOMAIN callee
      /\ \A k \in DOMAIN callee : both.tapes[k] = T(k)
  BY <1>2
<1>5. Suits(machine, callee, both)
  BY <1>3, <1>4 DEF Suits, TapeShows
<1> DEFINE view == Shows(machine, caller, context)
<1>6. ASSUME NEW k \in DOMAIN callee
      PROVE  /\ view[binding[k].tape].phys = Outer(k).phys
             /\ view[binding[k].tape].read = [s \in 0..M(k)-1 |-> ImageIn(Outer(k).rmap, s, C(k))]
             /\ view[binding[k].tape].write = [s \in 0..C(k)-1 |-> ImageIn(Outer(k).wmap, s, M(k))]
  <2>1. binding[k].tape \in DOMAIN context.tapes
    BY <1>1 DEF Suits
  <2>2. QED
    BY <2>1 DEF Shows
<1> HIDE DEF view
<1>7. ASSUME NEW k \in DOMAIN callee
      PROVE  /\ [s \in DOMAIN view[binding[k].tape].read |->
                   IF view[binding[k].tape].read[s] = Trapped THEN Trapped
                   ELSE ReadsAs(binding[k].pairs, C(k) = callee[k], view[binding[k].tape].read[s])]
                  = [s \in 0..M(k)-1 |-> ImageIn(T(k).rmap, s, callee[k])]
             /\ [s \in 0..callee[k]-1 |->
                   IF WritesAs(binding[k].pairs, C(k) = callee[k], s) = Trapped THEN Trapped
                   ELSE view[binding[k].tape].write[WritesAs(binding[k].pairs, C(k) = callee[k], s)]]
                  = [s \in 0..callee[k]-1 |-> ImageIn(T(k).wmap, s, M(k))]
  <2> DEFINE rd == view[binding[k].tape].read
             wr == view[binding[k].tape].write
             W(s) == WritesAs(binding[k].pairs, C(k) = callee[k], s)
             R(v) == ReadsAs(binding[k].pairs, C(k) = callee[k], v)
  <2>1. /\ DOMAIN rd = 0..M(k)-1
        /\ \A s \in 0..M(k)-1 : rd[s] = ImageIn(Outer(k).rmap, s, C(k))
        /\ \A s \in 0..C(k)-1 : wr[s] = ImageIn(Outer(k).wmap, s, M(k))
    BY <1>6
  <2>2. \A s \in 0..M(k)-1 :
          (IF rd[s] = Trapped THEN Trapped ELSE R(rd[s])) = ImageIn(T(k).rmap, s, callee[k])
    <3>1. SUFFICES ASSUME NEW s \in 0..M(k)-1
                   PROVE  (IF rd[s] = Trapped THEN Trapped ELSE R(rd[s])) = ImageIn(T(k).rmap, s, callee[k])
      OBVIOUS
    <3>2. ImageIn(T(k).rmap, s, callee[k])
            = IF ImageIn(Outer(k).rmap, s, C(k)) = Trapped THEN Trapped
              ELSE R(ImageIn(Outer(k).rmap, s, C(k)))
      BY <1>3 DEF TapeShows
    <3> HIDE DEF R, rd, M, C, Outer
    <3>3. QED
      BY <2>1, <3>2
  <2>3. \A s \in 0..callee[k]-1 :
          (IF W(s) = Trapped THEN Trapped ELSE wr[W(s)]) = ImageIn(T(k).wmap, s, M(k))
    <3>1. SUFFICES ASSUME NEW s \in 0..callee[k]-1
                   PROVE  (IF W(s) = Trapped THEN Trapped ELSE wr[W(s)]) = ImageIn(T(k).wmap, s, M(k))
      OBVIOUS
    <3>2. /\ W(s) \in {Trapped} \cup 0..C(k)-1
          /\ ImageIn(T(k).wmap, s, M(k)) = IF W(s) = Trapped THEN Trapped
                                          ELSE ImageIn(Outer(k).wmap, W(s), M(k))
      BY <1>3 DEF TapeShows
    <3> HIDE DEF W, wr, M, C, Outer
    <3>3. QED
      BY <2>1, <3>2
  <2> HIDE DEF rd, wr, W, R, M, C
  <2>4. [s \in DOMAIN rd |-> IF rd[s] = Trapped THEN Trapped ELSE R(rd[s])]
          = [s \in 0..M(k)-1 |-> ImageIn(T(k).rmap, s, callee[k])]
    BY <2>1, <2>2
  <2>5. [s \in 0..callee[k]-1 |-> IF W(s) = Trapped THEN Trapped ELSE wr[W(s)]]
          = [s \in 0..callee[k]-1 |-> ImageIn(T(k).wmap, s, M(k))]
    BY <2>3
  <2>6. QED
    BY <2>4, <2>5 DEF rd, wr, W, R, C
<1>8. ASSUME NEW k \in DOMAIN callee
      PROVE  Shows(machine, callee, both)[k] = Through(view, binding, caller, callee)[k]
  <2>1. Shows(machine, callee, both)[k] =
          [phys  |-> Outer(k).phys,
           read  |-> [s \in 0..M(k)-1 |-> ImageIn(T(k).rmap, s, callee[k])],
           write |-> [s \in 0..callee[k]-1 |-> ImageIn(T(k).wmap, s, M(k))]]
    <3>1. both.tapes[k] = T(k) /\ T(k).phys = Outer(k).phys
      BY <1>3, <1>4 DEF TapeShows
    <3>2. QED
      BY <1>4, <3>1 DEF Shows
  <2>2. Through(view, binding, caller, callee)[k] =
          [phys  |-> view[binding[k].tape].phys,
           read  |-> [s \in DOMAIN view[binding[k].tape].read |->
                        IF view[binding[k].tape].read[s] = Trapped THEN Trapped
                        ELSE ReadsAs(binding[k].pairs, C(k) = callee[k], view[binding[k].tape].read[s])],
           write |-> [s \in 0..callee[k]-1 |->
                        IF WritesAs(binding[k].pairs, C(k) = callee[k], s) = Trapped THEN Trapped
                        ELSE view[binding[k].tape].write[WritesAs(binding[k].pairs, C(k) = callee[k], s)]]]
    BY <1>1 DEF Through
  <2>3. QED
    BY <1>6, <1>7, <2>1, <2>2
<1>9. /\ Shows(machine, callee, both) = [k \in DOMAIN callee |-> Shows(machine, callee, both)[k]]
      /\ Through(view, binding, caller, callee)
           = [k \in DOMAIN callee |-> Through(view, binding, caller, callee)[k]]
  BY <1>1, <1>4 DEF Shows, Through
<1>10. Shows(machine, callee, both) = Through(view, binding, caller, callee)
  BY <1>8, <1>9
<1>11. QED
  BY <1>4, <1>5, <1>10 DEF both, view

\* A map that is recorded as unchanged changes no symbol.
LEMMA UnchangedApplied ==
  ASSUME NEW map, IsUnchanged(map), NEW s
  PROVE  Apply(map, s) = s
BY DEF IsUnchanged, Apply

\* A call that collapses leaves the frame what it was: seen through such a
\* binding a frame is itself.
THEOREM PassthroughShows ==
  ASSUME NEW machine \in Seq(Nat \ {0}), NEW caller \in Seq(Nat \ {0}), NEW callee \in Seq(Nat \ {0}),
         NEW binding, BindingOK(binding), Legal(binding, caller, callee),
         NEW context, Suits(machine, caller, context), NEW routine,
         IsFullPassthrough(BindingToComposite(binding, caller, routine, callee), caller, callee)
  PROVE  /\ caller = callee
         /\ Through(Shows(machine, caller, context), binding, caller, callee)
              = Shows(machine, caller, context)
<1> DEFINE inner == BindingToComposite(binding, caller, routine, callee)
           view == Shows(machine, caller, context)
           M(k) == machine[context.tapes[k].phys]
           tape(k) == context.tapes[k]
<1>1. /\ DOMAIN binding = DOMAIN callee
      /\ \A k \in DOMAIN callee :
           /\ binding[k].tape \in DOMAIN caller
           /\ caller[binding[k].tape] \in Nat \ {0} /\ callee[k] \in Nat \ {0}
           /\ PairsOver(binding[k].pairs, caller[binding[k].tape], callee[k])
           /\ LegalPairs(binding[k].pairs, callee[k])
  BY LegalTapes
<1>2. /\ caller = callee
      /\ \A k \in DOMAIN inner.tapes : /\ inner.tapes[k].phys = k
                                       /\ IsUnchanged(inner.tapes[k].rmap)
                                       /\ IsUnchanged(inner.tapes[k].wmap)
  BY DEF IsFullPassthrough
<1>3. /\ DOMAIN inner.tapes = DOMAIN callee
      /\ \A k \in DOMAIN callee :
           /\ inner.tapes[k].phys = binding[k].tape
           /\ inner.tapes[k].rmap = ReadMap(binding[k].pairs, caller[binding[k].tape], callee[k])
           /\ inner.tapes[k].wmap = WriteMap(binding[k].pairs, caller[binding[k].tape], callee[k])
  BY <1>1 DEF BindingToComposite
<1> HIDE DEF inner
<1>4. ASSUME NEW k \in DOMAIN callee
      PROVE  /\ binding[k].tape = k /\ callee[k] \in Nat \ {0}
             /\ \A v \in 0..callee[k]-1 : /\ ReadsAs(binding[k].pairs, TRUE, v) = v
                                          /\ WritesAs(binding[k].pairs, TRUE, v) = v
  <2> DEFINE d == callee[k]
             pairs == binding[k].pairs
  <2>1. binding[k].tape = k /\ caller[binding[k].tape] = d
    BY <1>2, <1>3
  <2>2. /\ d \in Nat \ {0} /\ PairsOver(pairs, d, d) /\ LegalPairs(pairs, d)
        /\ IsUnchanged(ReadMap(pairs, d, d)) /\ IsUnchanged(WriteMap(pairs, d, d))
    <3>1. d \in Nat \ {0} /\ PairsOver(pairs, d, d) /\ LegalPairs(pairs, d)
      BY <1>1, <2>1
    <3>2. IsUnchanged(inner.tapes[k].rmap) /\ IsUnchanged(inner.tapes[k].wmap)
      BY <1>2, <1>3
    <3>3. inner.tapes[k].rmap = ReadMap(pairs, d, d) /\ inner.tapes[k].wmap = WriteMap(pairs, d, d)
      BY <1>3, <2>1
    <3>4. QED
      BY <3>1, <3>2, <3>3
  <2> HIDE DEF d, pairs
  <2>3. ASSUME NEW v \in 0..d-1 PROVE ReadsAs(pairs, d = d, v) = v /\ WritesAs(pairs, d = d, v) = v
    <3>1. Apply(ReadMap(pairs, d, d), v) = v /\ Apply(WriteMap(pairs, d, d), v) = v
      BY <2>2, UnchangedApplied
    <3>2. Apply(ReadMap(pairs, d, d), v) = ReadsAs(pairs, d = d, v)
      BY <2>2, ReadsApplied
    <3>3. Apply(WriteMap(pairs, d, d), v) = WritesAs(pairs, d = d, v)
      BY <2>2, WritesApplied
    <3>4. QED
      BY <3>1, <3>2, <3>3
  <2>4. \A v \in 0..d-1 : ReadsAs(pairs, TRUE, v) = v /\ WritesAs(pairs, TRUE, v) = v
    BY <2>3 DEF ReadsAs, WritesAs
  <2>5. QED
    BY <2>1, <2>2, <2>4 DEF d, pairs
<1>5. ASSUME NEW k \in DOMAIN callee
      PROVE  view[k] = [phys  |-> tape(k).phys,
                        read  |-> [s \in 0..M(k)-1 |-> ImageIn(tape(k).rmap, s, callee[k])],
                        write |-> [s \in 0..callee[k]-1 |-> ImageIn(tape(k).wmap, s, M(k))]]
  <2>1. k \in DOMAIN context.tapes
    BY <1>2 DEF Suits
  <2>2. QED
    BY <1>2, <2>1 DEF Shows
<1> HIDE DEF view, M, tape
<1>6. ASSUME NEW k \in DOMAIN callee
      PROVE  Through(view, binding, caller, callee)[k] = view[k]
  <2> DEFINE rd == view[k].read
             wr == view[k].write
             pairs == binding[k].pairs
             d == callee[k]
  <2>0. view[k] = [phys  |-> tape(k).phys,
                   read  |-> [s \in 0..M(k)-1 |-> ImageIn(tape(k).rmap, s, d)],
                   write |-> [s \in 0..d-1 |-> ImageIn(tape(k).wmap, s, M(k))]]
    BY <1>5
  <2>1. /\ rd = [s \in 0..M(k)-1 |-> ImageIn(tape(k).rmap, s, d)]
        /\ wr = [s \in 0..d-1 |-> ImageIn(tape(k).wmap, s, M(k))]
    BY <2>0
  <2>2. \A s \in DOMAIN rd : rd[s] \in {Hole} \cup 0..d-1
    <3>1. \A s \in 0..M(k)-1 : Apply(tape(k).rmap, s) \in {Hole} \cup 0..d-1
      BY <1>2 DEF Suits, M, tape
    <3>2. QED
      BY <2>1, <3>1 DEF ImageIn
  <2>3. Through(view, binding, caller, callee)[k] =
          [phys  |-> view[k].phys,
           read  |-> [s \in DOMAIN rd |-> IF rd[s] = Trapped THEN Trapped ELSE ReadsAs(pairs, TRUE, rd[s])],
           write |-> [s \in 0..d-1 |-> IF WritesAs(pairs, TRUE, s) = Trapped THEN Trapped
                                       ELSE wr[WritesAs(pairs, TRUE, s)]]]
    <3>1. binding[k].tape = k /\ k \in DOMAIN binding /\ (caller[k] = callee[k]) = TRUE
      BY <1>1, <1>2, <1>4
    <3>2. QED
      BY <3>1 DEF Through
  <2>4. [s \in DOMAIN rd |-> IF rd[s] = Trapped THEN Trapped ELSE ReadsAs(pairs, TRUE, rd[s])] = rd
    <3>1. \A s \in DOMAIN rd : (IF rd[s] = Trapped THEN Trapped ELSE ReadsAs(pairs, TRUE, rd[s])) = rd[s]
      BY <1>4, <2>2 DEF Hole, Trapped
    <3>2. rd = [s \in DOMAIN rd |-> rd[s]]
      BY <2>1
    <3> HIDE DEF rd, pairs, d
    <3>3. QED
      BY <3>1, <3>2
  <2>5. [s \in 0..d-1 |-> IF WritesAs(pairs, TRUE, s) = Trapped THEN Trapped
                          ELSE wr[WritesAs(pairs, TRUE, s)]] = wr
    <3>1. \A s \in 0..d-1 : (IF WritesAs(pairs, TRUE, s) = Trapped THEN Trapped
                             ELSE wr[WritesAs(pairs, TRUE, s)]) = wr[s]
      <4> DEFINE W(s) == WritesAs(pairs, TRUE, s)
      <4>1. d \in Nat /\ \A s \in 0..d-1 : W(s) = s
        BY <1>4
      <4> HIDE DEF d, wr, W
      <4>2. \A s \in 0..d-1 : s # Trapped
        BY <4>1 DEF Trapped
      <4>3. \A s \in 0..d-1 : (IF W(s) = Trapped THEN Trapped ELSE wr[W(s)]) = wr[s]
        BY <4>1, <4>2
      <4>4. QED
        BY <4>3 DEF W
    <3>2. wr = [s \in 0..d-1 |-> wr[s]]
      BY <2>1
    <3> HIDE DEF wr, pairs, d
    <3>3. QED
      BY <3>1, <3>2
  <2>6. view[k] = [phys |-> view[k].phys, read |-> rd, write |-> wr]
    BY <2>0
  <2> HIDE DEF rd, wr
  <2>7. QED
    BY <2>3, <2>4, <2>5, <2>6
<1>7. /\ DOMAIN view = DOMAIN callee /\ view = [k \in DOMAIN view |-> view[k]]
      /\ Through(view, binding, caller, callee)
           = [k \in DOMAIN callee |-> Through(view, binding, caller, callee)[k]]
  BY <1>1, <1>2 DEF view, Shows, Through, Suits
<1>8. Through(view, binding, caller, callee) = view
  BY <1>6, <1>7
<1>9. QED
  BY <1>2, <1>8 DEF view

\* The machine's own frame: nothing is translated.
LEMMA OwnShows ==
  ASSUME NEW machine \in Seq(Nat \ {0}), NEW routine
  PROVE  LET own == IdentityComposite(Len(machine), routine)
         IN  /\ Suits(machine, machine, own)
             /\ Shows(machine, machine, own) = NoTranslation(Len(machine), machine)
<1> DEFINE own == IdentityComposite(Len(machine), routine)
<1>1. DOMAIN machine = 1..Len(machine)
  OBVIOUS
<1>2. /\ DOMAIN own.tapes = DOMAIN machine
      /\ \A k \in DOMAIN machine : own.tapes[k] = [phys |-> k, rmap |-> Unchanged, wmap |-> Unchanged]
  BY <1>1 DEF IdentityComposite
<1>3. IsMap(Unchanged) /\ \A s : Apply(Unchanged, s) = s
  BY DEF IsMap, Unchanged, Apply
<1> HIDE DEF own
<1>4. ASSUME NEW k \in DOMAIN machine
      PROVE  /\ IsTape(own.tapes[k]) /\ own.tapes[k].phys = k
             /\ machine[k] \in Nat \ {0}
             /\ \A s \in 0..machine[k]-1 : /\ Apply(own.tapes[k].rmap, s) = s
                                           /\ ImageIn(own.tapes[k].rmap, s, machine[k]) = s
                                           /\ ImageIn(own.tapes[k].wmap, s, machine[k]) = s
  <2>0. own.tapes[k] = [phys |-> k, rmap |-> Unchanged, wmap |-> Unchanged]
    BY <1>2
  <2>1. own.tapes[k].rmap = Unchanged /\ own.tapes[k].wmap = Unchanged /\ own.tapes[k].phys = k
    BY <2>0
  <2>2. IsTape(own.tapes[k])
    BY <1>2, <1>3, <2>1 DEF IsTape
  <2>3. machine[k] \in Nat \ {0}
    OBVIOUS
  <2>4. \A s \in 0..machine[k]-1 : ImageIn(Unchanged, s, machine[k]) = s
    BY <1>3, <2>3 DEF ImageIn, Hole
  <2>5. QED
    BY <1>3, <2>1, <2>2, <2>3, <2>4
<1>5. Suits(machine, machine, own)
  BY <1>2, <1>4 DEF Suits
<1>6. ASSUME NEW k \in DOMAIN machine
      PROVE  Shows(machine, machine, own)[k] = NoTranslation(Len(machine), machine)[k]
  <2>1. Shows(machine, machine, own)[k] =
          [phys  |-> k,
           read  |-> [s \in 0..machine[k]-1 |-> ImageIn(own.tapes[k].rmap, s, machine[k])],
           write |-> [s \in 0..machine[k]-1 |-> ImageIn(own.tapes[k].wmap, s, machine[k])]]
    BY <1>2, <1>4 DEF Shows
  <2>2. NoTranslation(Len(machine), machine)[k] =
          [phys |-> k, read |-> [s \in 0..machine[k]-1 |-> s], write |-> [s \in 0..machine[k]-1 |-> s]]
    BY <1>1 DEF NoTranslation
  <2>3. /\ [s \in 0..machine[k]-1 |-> ImageIn(own.tapes[k].rmap, s, machine[k])] = [s \in 0..machine[k]-1 |-> s]
        /\ [s \in 0..machine[k]-1 |-> ImageIn(own.tapes[k].wmap, s, machine[k])] = [s \in 0..machine[k]-1 |-> s]
    BY <1>4
  <2>4. QED
    BY <2>1, <2>2, <2>3
<1>7. /\ Shows(machine, machine, own) = [k \in DOMAIN machine |-> Shows(machine, machine, own)[k]]
      /\ NoTranslation(Len(machine), machine)
           = [k \in DOMAIN machine |-> NoTranslation(Len(machine), machine)[k]]
  BY <1>1, <1>2 DEF Shows, NoTranslation
<1>8. QED
  BY <1>5, <1>6, <1>7 DEF own

\* The descriptor of a composite, with its empty tables, shows what the
\* composite shows.
Dense(machine, cards, context) ==
  [k \in DOMAIN context.tapes |->
     LET tape == context.tapes[k]
     IN  [phys |-> tape.phys,
          rmap |-> DenseMap(tape.rmap, machine[tape.phys], cards[k]),
          wmap |-> DenseMap(tape.wmap, cards[k], machine[tape.phys])]]

\* A dense map and the map it was made from agree on every symbol of a tape.
LEMMA DenseShown ==
  ASSUME NEW map, NEW a \in Nat \ {0}, NEW b \in Nat \ {0}
  PROVE  (IF DenseMap(map, a, b) = <<>> THEN [s \in 0..a-1 |-> s] ELSE DenseMap(map, a, b))
           = [s \in 0..a-1 |-> ImageIn(map, s, b)]
<1> DEFINE table == [s \in 0..a-1 |-> ImageIn(map, s, b)]
<1>1. CASE IsUnchanged(map) /\ a = b
  <2>1. \A s \in 0..a-1 : ImageIn(map, s, b) = s
    BY <1>1, UnchangedApplied DEF ImageIn, Hole
  <2>2. [s \in 0..a-1 |-> s] = table
    BY <2>1
  <2>3. DenseMap(map, a, b) = <<>>
    BY <1>1 DEF DenseMap
  <2>4. QED
    BY <2>2, <2>3
<1>2. CASE ~(IsUnchanged(map) /\ a = b)
  <2>1. DenseMap(map, a, b) = table
    BY <1>2 DEF DenseMap
  <2>2. DOMAIN table # {}
    <3>1. DOMAIN table = 0..a-1 /\ 0 \in 0..a-1
      OBVIOUS
    <3>2. QED
      BY <3>1
  <2>3. table # <<>>
    <3> HIDE DEF table
    <3>1. DOMAIN <<>> = {}
      OBVIOUS
    <3>2. QED
      BY <2>2, <3>1
  <2> HIDE DEF table
  <2>4. QED
    BY <2>1, <2>3 DEF table
<1>3. QED
  BY <1>1, <1>2

\* The descriptor materialized for a composite shows the tapes the composite
\* shows (engine.rs, materialize).
THEOREM MaterializeShows ==
  ASSUME NEW machine \in Seq(Nat \ {0}), NEW cards \in Seq(Nat \ {0}), NEW context,
         Suits(machine, cards, context)
  PROVE  Absolute(Dense(machine, cards, context), machine, cards) = Shows(machine, cards, context)
<1> DEFINE dense == Dense(machine, cards, context)
           tape(k) == context.tapes[k]
           M(k) == machine[tape(k).phys]
<1>1. /\ DOMAIN dense = DOMAIN context.tapes
      /\ \A k \in DOMAIN context.tapes :
           /\ dense[k].phys = tape(k).phys
           /\ dense[k].rmap = DenseMap(tape(k).rmap, M(k), cards[k])
           /\ dense[k].wmap = DenseMap(tape(k).wmap, cards[k], M(k))
  BY DEF Dense
<1>2. ASSUME NEW k \in DOMAIN context.tapes PROVE M(k) \in Nat \ {0} /\ cards[k] \in Nat \ {0}
  BY DEF Suits
<1> HIDE DEF dense
<1>3. ASSUME NEW k \in DOMAIN context.tapes
      PROVE  Absolute(dense, machine, cards)[k] = Shows(machine, cards, context)[k]
  <2>1. Absolute(dense, machine, cards)[k] =
          [phys  |-> tape(k).phys,
           read  |-> IF dense[k].rmap = <<>> THEN [s \in 0..M(k)-1 |-> s] ELSE dense[k].rmap,
           write |-> IF dense[k].wmap = <<>> THEN [s \in 0..cards[k]-1 |-> s] ELSE dense[k].wmap]
    BY <1>1 DEF Absolute
  <2>2. (IF dense[k].rmap = <<>> THEN [s \in 0..M(k)-1 |-> s] ELSE dense[k].rmap)
          = [s \in 0..M(k)-1 |-> ImageIn(tape(k).rmap, s, cards[k])]
    <3> DEFINE m == M(k)
               r == tape(k).rmap
    <3>1. m \in Nat \ {0} /\ cards[k] \in Nat \ {0} /\ dense[k].rmap = DenseMap(r, m, cards[k])
      BY <1>1, <1>2
    <3> HIDE DEF m, r
    <3>2. QED
      BY <3>1, DenseShown DEF m, r
  <2>3. (IF dense[k].wmap = <<>> THEN [s \in 0..cards[k]-1 |-> s] ELSE dense[k].wmap)
          = [s \in 0..cards[k]-1 |-> ImageIn(tape(k).wmap, s, M(k))]
    <3> DEFINE m == M(k)
               w == tape(k).wmap
               d == cards[k]
    <3>1. m \in Nat \ {0} /\ d \in Nat \ {0} /\ dense[k].wmap = DenseMap(w, d, m)
      BY <1>1, <1>2
    <3> HIDE DEF m, w, d
    <3>2. (IF DenseMap(w, d, m) = <<>> THEN [s \in 0..d-1 |-> s] ELSE DenseMap(w, d, m))
            = [s \in 0..d-1 |-> ImageIn(w, s, m)]
      BY <3>1, DenseShown
    <3>3. QED
      BY <3>1, <3>2 DEF m, w, d
  <2>4. Shows(machine, cards, context)[k] =
          [phys  |-> tape(k).phys,
           read  |-> [s \in 0..M(k)-1 |-> ImageIn(tape(k).rmap, s, cards[k])],
           write |-> [s \in 0..cards[k]-1 |-> ImageIn(tape(k).wmap, s, M(k))]]
    BY DEF Shows
  <2>5. QED
    BY <2>1, <2>2, <2>3, <2>4
<1>4. /\ Absolute(dense, machine, cards) = [k \in DOMAIN context.tapes |-> Absolute(dense, machine, cards)[k]]
      /\ Shows(machine, cards, context) = [k \in DOMAIN context.tapes |-> Shows(machine, cards, context)[k]]
  BY <1>1 DEF Absolute, Shows
<1>5. QED
  BY <1>3, <1>4 DEF dense

-----------------------------------------------------------------------------
(* Links by frames: what is explored and what runs.                          *)

\* A program as the engine reads it, whatever has become of its functions: a
\* routine's signature, the instruction at a place <<routine, pc>>, the places
\* of some opcodes, and the opcodes Explore follows.
Sig(p, r)     == p.routines[r].cards
InstrAt(p, s) == p.routines[s[1]].code[s[2]]
SitesAt(p, r, ops) == {r} \X SitesOf(p.routines[r].code, ops)
Followed == {"call", "tail", "bound"}

\* Where a frame is needed, and the composite a call hands on.
Collapsed(p, s) ==
  LET i == InstrAt(p, s)
  IN  /\ i.op = "bound"
      /\ IsFullPassthrough(BindingToComposite(i.binding, Sig(p, s[1]), 1, Sig(p, i.to)),
                           Sig(p, s[1]), Sig(p, i.to))
InFrame(p, s) == InstrAt(p, s).op \in {"bound", "raw"} /\ ~Collapsed(p, s)
Leads(p, context, s) ==
  IF InFrame(p, s)
  THEN Compose(context, InstrAt(p, s).binding, Sig(p, s[1]), InstrAt(p, s).to, Sig(p, InstrAt(p, s).to))
  ELSE context

\* The composite of the machine's own frame, and the row of a composite.
Own(p) == IdentityComposite(Len(Sig(p, 1)), 1)
RowAt(p, context) == IF context = Own(p) THEN Zero ELSE Entry(context)

\* Routines that may run under a descriptor written by hand.
UnderRaw(p) ==
  {r \in DOMAIN p.routines : \E f \in DOMAIN p.routines :
     \E pc \in SitesOf(p.routines[f].code, {"raw"}) :
       r \in ReachOf(Calls(p.routines), p.routines[f].code[pc].to)}

\* What the engine takes for granted of a program it lowers to frames: a call
\* without a binding keeps the signature, the entry is not bound by anyone, and
\* nothing is bound under a descriptor written by hand.
Framable(p) ==
  /\ \A r \in DOMAIN p.routines :
       /\ \A pc \in SitesOf(p.routines[r].code, {"call", "tail"}) :
            Sig(p, p.routines[r].code[pc].to) = Sig(p, r)
       /\ \A pc \in SitesOf(p.routines[r].code, {"bound"}) : p.routines[r].code[pc].to # 1
  /\ \A r \in UnderRaw(p) : SitesOf(p.routines[r].code, {"bound"}) = {}

\* Scan accepted every binding.
BoundLegal(p) ==
  \A r \in DOMAIN p.routines : \A pc \in SitesOf(p.routines[r].code, {"bound"}) :
    Legal(p.routines[r].code[pc].binding, Sig(p, r), Sig(p, p.routines[r].code[pc].to))

\* A composite this routine can run under.
Hosts(p, r, context) ==
  /\ context.routine \in DOMAIN p.routines /\ Sig(p, context.routine) = Sig(p, r)
  /\ Suits(Sig(p, 1), Sig(p, r), context)

\* While exploring: every pair is one of a routine and a composite it can run
\* under, and a pair visited has all its calls accounted for.
PairOK(pair) ==
  /\ pair = <<pair[1], pair[2]>> /\ pair[1] \in DOMAIN program.routines
  /\ Hosts(program, pair[1], pair[2]) /\ pair[2] \in {Own(program)} \cup comps
Accounted(pair, s) ==
  LET next == Leads(program, pair[2], s)
      cell == <<s, RowAt(program, pair[2])>>
  IN  /\ <<InstrAt(program, s).to, next>> \in visited \cup pending
      /\ InFrame(program, s) => /\ next \in comps /\ cell \in DOMAIN columns
                                /\ columns[cell] = Entry(next)
ExploreInv ==
  /\ \A pair \in visited \cup pending : PairOK(pair)
  /\ \A comp \in comps : comp.routine \in DOMAIN program.routines /\ comp # Own(program)
  /\ <<1, Own(program)>> \in visited \cup pending
  /\ \A pair \in visited : \A s \in SitesAt(program, pair[1], Followed) : Accounted(pair, s)

\* The code that ships, and what its frame register and tables say.
ShippedInstr(p, s) ==
  LET i == InstrAt(p, s)
  IN  IF i.op \notin {"bound", "raw"} THEN i
      ELSE IF InFrame(p, s) THEN [op |-> "framed", to |-> i.to, site |-> s]
      ELSE [op |-> "call", to |-> i.to]
Image0(p) ==
  [r \in DOMAIN p.routines |->
     [routine |-> r, comp |-> Generic,
      code |-> [pc \in DOMAIN p.routines[r].code |-> ShippedInstr(p, <<r, pc>>)]]]
ByHand(p, s) == <<s[1], InstrAt(p, s).desc>>

\* The tables Plan emits say what was explored, and every descriptor written by
\* hand is in the directory.
TablesInv ==
  /\ \A comp \in comps :
       /\ Entry(comp) \in DOMAIN tables.directory
       /\ tables.directory[Entry(comp)] = Dense(Sig(program, 1), Sig(program, comp.routine), comp)
  /\ \A f \in DOMAIN program.routines : \A s \in SitesAt(program, f, {"raw"}) :
       /\ ByHand(program, s) \in DOMAIN tables.directory
       /\ tables.directory[ByHand(program, s)] = InstrAt(program, s).desc
  /\ \A row \in {Zero} \cup DOMAIN tables.directory : \A f \in DOMAIN program.routines :
       \A s \in SitesAt(program, f, {"bound", "raw"}) :
         InFrame(program, s) =>
           tables.compose[row][s] = IF InstrAt(program, s).op = "raw" THEN ByHand(program, s)
                                    ELSE IF <<s, row>> \in DOMAIN columns THEN columns[<<s, row>>] ELSE Zero

\* An activation runs a pair that was visited, or under a descriptor written
\* by hand.
Activation ==
  [fn : DOMAIN program.routines, pc : Nat, fr : {Zero} \cup DOMAIN tables.directory]
Visits(a, context) == <<a.fn, context>> \in visited /\ a.fr = RowAt(program, context)
HandRun(a) ==
  /\ a.fn \in UnderRaw(program)
  /\ \E f \in DOMAIN program.routines : \E s \in SitesAt(program, f, {"raw"}) : a.fr = ByHand(program, s)
Runs(a) ==
  /\ a.pc \in DOMAIN program.routines[a.fn].code
  /\ HandRun(a) \/ \E context \in {Own(program)} \cup comps : Visits(a, context)

\* Links that stamp nothing.
FramesInv ==
  /\ program \in Programs /\ mechanism \in Mechanisms /\ Framable(program)
  /\ phase # "stamp"
  /\ phase = "scan" => funcs = Given /\ visited = {} /\ comps = {}
  /\ phase \in {"frames", "ready"} => BoundLegal(program) /\ ExploreInv
  /\ phase = "frames" => funcs = Given
  /\ phase = "ready" => pending = {} /\ funcs = Image0(program) /\ TablesInv
  /\ phase # "ready" => acts = <<>> /\ outcome = "waiting"
  /\ acts \in Seq(Activation) /\ \A i \in DOMAIN acts : Runs(acts[i])
  /\ outcome = "running" <=> acts # <<>>

Mapped(v, s) == [i \in DOMAIN s |-> v[s[i]]]

\* A stack seen through a view of its frames is pushed and popped alike.
LEMMA MappedSeq ==
  ASSUME NEW S, NEW v, DOMAIN v = S, NEW s \in Seq(S)
  PROVE  /\ Len(Mapped(v, s)) = Len(s)
         /\ Mapped(v, s) = <<>> <=> s = <<>>
         /\ \A e \in S : Mapped(v, Append(s, e)) = Append(Mapped(v, s), v[e])
         /\ s # <<>> => /\ Mapped(v, s)[Len(s)] = v[s[Len(s)]]
                        /\ SubSeq(s, 1, Len(s) - 1) \in Seq(S)
                        /\ SubSeq(Mapped(v, s), 1, Len(s) - 1) = Mapped(v, SubSeq(s, 1, Len(s) - 1))
<1> DEFINE T == {v[x] : x \in S}
<1>0. \A e \in S : v[e] \in T
  OBVIOUS
<1> HIDE DEF T
<1>1. DOMAIN s = 1..Len(s) /\ Len(s) \in Nat /\ \A i \in 1..Len(s) : s[i] \in S /\ v[s[i]] \in T
  BY <1>0
<1>2. Mapped(v, s) = [i \in 1..Len(s) |-> v[s[i]]]
  BY <1>1 DEF Mapped
<1>3. Mapped(v, s) \in Seq(T) /\ Len(Mapped(v, s)) = Len(s)
  BY <1>1, <1>2
<1>4. Mapped(v, s) = <<>> <=> s = <<>>
  BY <1>3
<1>5. ASSUME NEW e \in S PROVE Mapped(v, Append(s, e)) = Append(Mapped(v, s), v[e])
  <2>1. Append(s, e) \in Seq(S) /\ Len(Append(s, e)) = Len(s) + 1
    OBVIOUS
  <2>2. Mapped(v, Append(s, e)) = [i \in 1..Len(s) + 1 |-> v[Append(s, e)[i]]]
    BY <2>1 DEF Mapped
  <2>3. v[e] \in T
    BY <1>0
  <2>4. /\ Append(Mapped(v, s), v[e]) \in Seq(T)
        /\ DOMAIN Append(Mapped(v, s), v[e]) = 1..Len(s) + 1
    BY <1>3, <2>3
  <2>5. \A i \in 1..Len(s) + 1 : v[Append(s, e)[i]] = Append(Mapped(v, s), v[e])[i]
    BY <1>1, <1>2, <1>3, <2>3
  <2>6. QED
    BY <1>1, <2>2, <2>4, <2>5
<1>6. ASSUME s # <<>>
      PROVE  /\ Mapped(v, s)[Len(s)] = v[s[Len(s)]]
             /\ SubSeq(s, 1, Len(s) - 1) \in Seq(S)
             /\ SubSeq(Mapped(v, s), 1, Len(s) - 1) = Mapped(v, SubSeq(s, 1, Len(s) - 1))
  <2> DEFINE low == SubSeq(s, 1, Len(s) - 1)
  <2>1. Len(s) \in 1..Len(s) /\ Len(s) - 1 \in Nat
    BY <1>1, <1>6
  <2>2. low \in Seq(S) /\ Len(low) = Len(s) - 1 /\ \A i \in 1..Len(s) - 1 : low[i] = s[i]
    BY <1>1, <2>1
  <2>3. /\ SubSeq(Mapped(v, s), 1, Len(s) - 1) \in Seq(T)
        /\ DOMAIN SubSeq(Mapped(v, s), 1, Len(s) - 1) = 1..Len(s) - 1
        /\ \A i \in 1..Len(s) - 1 : SubSeq(Mapped(v, s), 1, Len(s) - 1)[i] = v[s[i]]
    BY <1>1, <1>2, <1>3, <2>1
  <2> HIDE DEF low
  <2>4. Mapped(v, low) = [i \in 1..Len(s) - 1 |-> v[s[i]]]
    BY <2>1, <2>2 DEF Mapped
  <2>5. SubSeq(Mapped(v, s), 1, Len(s) - 1) = Mapped(v, low)
    BY <2>3, <2>4
  <2>6. QED
    BY <1>1, <1>2, <2>1, <2>2, <2>5 DEF low
<1>7. QED
  BY <1>3, <1>4, <1>5, <1>6

\* The tapes and frames of the two modules are the same.
LEMMA SameBands ==
  /\ Bound!Machine = Machine /\ Bound!Keep = Keep /\ Bound!Trapped = Hole
  /\ \A n, cards : Bound!NoTranslation(n, cards) = NoTranslation(n, cards)
  /\ \A desc, machine, callee : Bound!Absolute(desc, machine, callee) = Absolute(desc, machine, callee)
  /\ \A frame, binding, caller, callee :
       Bound!Through(frame, binding, caller, callee) = Through(frame, binding, caller, callee)
  /\ \A t : Bound!Under(t) = Under(t)
  /\ \A ts, frame, v : /\ Bound!WriteAll(ts, frame, v) = WriteAll(ts, frame, v)
                       /\ Bound!MoveAll(ts, frame, v) = MoveAll(ts, frame, v)
  /\ \A rows, seen : /\ Bound!Matches(rows, seen) = Matches(rows, seen)
                     /\ Bound!FirstMatch(rows, seen) = FirstMatch(rows, seen)
<1>1. Bound!Machine = Machine /\ Bound!Keep = Keep /\ Bound!Trapped = Hole /\ Trapped = Hole
      /\ Bound!Trapped = Trapped /\ Bound!Wildcard = Wildcard
  BY DEF Bound!Machine, Machine, Bound!Keep, Keep, Bound!Trapped, Hole, Trapped, Bound!Wildcard, Wildcard
<1>2. \A n, cards : Bound!NoTranslation(n, cards) = NoTranslation(n, cards)
  BY DEF Bound!NoTranslation, NoTranslation
<1>3. \A desc, machine, callee : Bound!Absolute(desc, machine, callee) = Absolute(desc, machine, callee)
  BY DEF Bound!Absolute, Absolute
<1>4. \A frame, binding, caller, callee :
       Bound!Through(frame, binding, caller, callee) = Through(frame, binding, caller, callee)
  BY DEF Bound!Through, Through, Bound!ReadsAs, ReadsAs, Bound!WritesAs, WritesAs, Bound!Trapped, Trapped
<1>5. \A t : Bound!Under(t) = Under(t)
  BY DEF Bound!Under, Under
<1>6. \A ts, frame, v : Bound!WriteAll(ts, frame, v) = WriteAll(ts, frame, v)
  BY DEF Bound!WriteAll, WriteAll, Bound!Put, Put, Bound!Keep, Keep
<1>7. \A ts, frame, v : Bound!MoveAll(ts, frame, v) = MoveAll(ts, frame, v)
  BY DEF Bound!MoveAll, MoveAll, Bound!Shift, Shift
<1>8. \A rows, seen : Bound!Matches(rows, seen) = Matches(rows, seen)
  BY <1>1 DEF Bound!Matches, Matches, Bound!Fits, Fits
<1>9. \A rows, seen : Bound!FirstMatch(rows, seen) = FirstMatch(rows, seen)
  BY <1>8 DEF Bound!FirstMatch, FirstMatch
<1>10. QED
  BY <1>1, <1>2, <1>3, <1>4, <1>5, <1>6, <1>7, <1>8, <1>9

\* The routines of a program, whose code the runs are about.
LEMMA ProgramFacts ==
  ASSUME NEW p, WellFormed(p)
  PROVE  /\ 1 \in DOMAIN p.routines
         /\ \A r \in DOMAIN p.routines :
              /\ Sig(p, r) \in Seq(Nat \ {0}) /\ 1 \in DOMAIN p.routines[r].code
              /\ \A pc \in DOMAIN p.routines[r].code :
                   LET i == InstrAt(p, <<r, pc>>)
                   IN  /\ pc \in Nat
                       /\ IsInstr(i)
                       /\ i.op \in Transfers => i.to \in DOMAIN p.routines
                       /\ i.op \notin Leaves => pc + 1 \in DOMAIN p.routines[r].code
                       /\ i.op = "wrmv" => IsList(i.w)
                       /\ i.op \in {"match", "branch"} =>
                            /\ IsList(i.rows)
                            /\ \A k \in DOMAIN i.rows : i.rows[k].to \in DOMAIN p.routines[r].code
                       /\ i.op = "bound" => BindingOK(i.binding)
<1>1. 1 \in DOMAIN p.routines
  BY DEF WellFormed
<1>2. ASSUME NEW r \in DOMAIN p.routines
      PROVE  /\ Sig(p, r) \in Seq(Nat \ {0}) /\ CodeOK(p.routines, p.routines[r].code)
             /\ \A pc \in SitesOf(p.routines[r].code, {"bound"}) : BindingOK(p.routines[r].code[pc].binding)
  BY DEF WellFormed, Sig
<1>3. ASSUME NEW r \in DOMAIN p.routines, NEW pc \in DOMAIN p.routines[r].code
      PROVE  LET i == InstrAt(p, <<r, pc>>)
             IN  /\ pc \in Nat
                 /\ IsInstr(i)
                 /\ i.op \in Transfers => i.to \in DOMAIN p.routines
                 /\ i.op \notin Leaves => pc + 1 \in DOMAIN p.routines[r].code
                 /\ i.op = "wrmv" => IsList(i.w)
                 /\ i.op \in {"match", "branch"} =>
                      /\ IsList(i.rows)
                      /\ \A k \in DOMAIN i.rows : i.rows[k].to \in DOMAIN p.routines[r].code
                 /\ i.op = "bound" => BindingOK(i.binding)
  <2> DEFINE code == p.routines[r].code
             i == InstrAt(p, <<r, pc>>)
  <2>1. i = code[pc] /\ CodeOK(p.routines, code)
    BY <1>2 DEF InstrAt
  <2>2. pc \in Nat
    BY <2>1 DEF CodeOK, IsList
  <2>3. i.op = "bound" => BindingOK(i.binding)
    BY <1>2, <2>1 DEF SitesOf
  <2> HIDE DEF i, code
  <2>4. /\ IsInstr(i)
        /\ i.op \in Transfers => i.to \in DOMAIN p.routines
        /\ i.op \notin Leaves => pc + 1 \in DOMAIN code
        /\ i.op = "wrmv" => IsList(i.w)
        /\ i.op \in {"match", "branch"} =>
             /\ IsList(i.rows)
             /\ \A k \in DOMAIN i.rows : i.rows[k].to \in DOMAIN code
    <3>1. pc \in DOMAIN code
      BY DEF code
    <3>2. QED
      BY <2>1, <3>1 DEF CodeOK
  <2>5. QED
    BY <2>2, <2>3, <2>4 DEF i, code
<1>4. \A r \in DOMAIN p.routines : 1 \in DOMAIN p.routines[r].code
  BY <1>2 DEF CodeOK
<1>5. QED
  BY <1>1, <1>2, <1>3, <1>4

\* While nothing has been lowered the engine reads the program itself.
LEMMA GivenReads ==
  ASSUME program \in Programs, funcs = Given
  PROVE  /\ DOMAIN funcs = DOMAIN program.routines
         /\ \A r \in DOMAIN program.routines :
              /\ funcs[r] = [routine |-> r, comp |-> Generic, code |-> program.routines[r].code]
              /\ Cards(r) = Sig(program, r)
         /\ \A r \in DOMAIN program.routines : \A pc \in DOMAIN program.routines[r].code :
              LET s == <<r, pc>>
              IN  /\ Site(s) = InstrAt(program, s)
                  /\ Collapses(s) <=> Collapsed(program, s)
                  /\ Framed(s) <=> InFrame(program, s)
                  /\ \A context : Site(s).op # "raw" => CalleeContext(context, s) = Leads(program, context, s)
<1>1. WellFormed(program)
  BY LinkerAssumption
<1>2. DOMAIN program.routines = 1..CountOf
  BY <1>1 DEF WellFormed, CountOf, IsList
<1>3. DOMAIN funcs = DOMAIN program.routines
  BY <1>2 DEF Given
<1>4. ASSUME NEW r \in DOMAIN program.routines
      PROVE  /\ funcs[r] = [routine |-> r, comp |-> Generic, code |-> program.routines[r].code]
             /\ Cards(r) = Sig(program, r)
  <2>1. funcs[r] = [routine |-> r, comp |-> Generic, code |-> program.routines[r].code]
    BY <1>2 DEF Given
  <2>2. funcs[r].comp = Generic /\ funcs[r].routine = r
    BY <2>1
  <2>3. QED
    BY <2>1, <2>2 DEF Cards, Sig
<1>5. ASSUME NEW r \in DOMAIN program.routines, NEW pc \in DOMAIN program.routines[r].code
      PROVE  LET s == <<r, pc>>
             IN  /\ Site(s) = InstrAt(program, s)
                 /\ Collapses(s) <=> Collapsed(program, s)
                 /\ Framed(s) <=> InFrame(program, s)
                 /\ \A context : Site(s).op # "raw" => CalleeContext(context, s) = Leads(program, context, s)
  <2> DEFINE s == <<r, pc>>
             i == InstrAt(program, s)
  <2>1. Site(s) = i
    <3>1. funcs[r] = [routine |-> r, comp |-> Generic, code |-> program.routines[r].code]
      BY <1>4
    <3>2. funcs[r].code = program.routines[r].code
      BY <3>1
    <3>3. QED
      BY <3>2 DEF Site, InstrAt
  <2>2. /\ IsInstr(i)
        /\ i.op \in Transfers => i.to \in DOMAIN program.routines
    BY <1>1, ProgramFacts
  <2>3. s[1] = r
    OBVIOUS
  <2> HIDE DEF s, i
  <2>4. i.op = "bound" => Cards(i.to) = Sig(program, i.to)
    BY <1>4, <2>2 DEF Transfers
  <2>5. Cards(r) = Sig(program, r)
    BY <1>4
  <2>6. Collapses(s) <=> Collapsed(program, s)
    BY <2>1, <2>3, <2>4, <2>5 DEF Collapses, Collapsed, Absolutized, i
  <2>7. Framed(s) <=> InFrame(program, s)
    BY <2>1, <2>6 DEF Framed, InFrame, i
  <2>8. ASSUME NEW context, i.op # "raw"
        PROVE  CalleeContext(context, s) = Leads(program, context, s)
    <3>1. CASE ~InFrame(program, s)
      BY <2>7, <3>1 DEF CalleeContext, Leads
    <3>2. CASE InFrame(program, s)
      <4>1. i.op = "bound"
        BY <3>2, <2>8 DEF InFrame, i
      <4>2. QED
        BY <2>1, <2>3, <2>4, <2>5, <2>7, <3>2, <4>1 DEF CalleeContext, Leads, i
    <3>3. QED
      BY <3>1, <3>2
  <2>9. QED
    BY <2>1, <2>6, <2>7, <2>8 DEF s, i
<1>6. QED
  BY <1>3, <1>4, <1>5

\* A call leads to a routine and a composite it can run under, and the
\* composite shows of the machine what the binding shows of the caller's view.
LEMMA LeadsHosted ==
  ASSUME NEW p, WellFormed(p), Framable(p), BoundLegal(p), NEW r \in DOMAIN p.routines,
         NEW context, Hosts(p, r, context), NEW s \in SitesAt(p, r, Followed)
  PROVE  LET i    == InstrAt(p, s)
             next == Leads(p, context, s)
             view == Shows(Sig(p, 1), Sig(p, r), context)
         IN  /\ i.to \in DOMAIN p.routines /\ Hosts(p, i.to, next)
             /\ InFrame(p, s) => /\ i.op = "bound" /\ next.routine = i.to /\ i.to # 1
                                 /\ Shows(Sig(p, 1), Sig(p, i.to), next)
                                      = Through(view, i.binding, Sig(p, r), Sig(p, i.to))
             /\ ~InFrame(p, s) => /\ next = context /\ Sig(p, i.to) = Sig(p, r)
                                  /\ i.op = "bound" =>
                                       Through(view, i.binding, Sig(p, r), Sig(p, i.to)) = view
<1> DEFINE i    == InstrAt(p, s)
           next == Leads(p, context, s)
           view == Shows(Sig(p, 1), Sig(p, r), context)
<1>1. PICK pc \in SitesOf(p.routines[r].code, Followed) : s = <<r, pc>>
  BY DEF SitesAt
<1>2. pc \in DOMAIN p.routines[r].code /\ i = p.routines[r].code[pc] /\ s[1] = r
  BY <1>1 DEF SitesOf, InstrAt
<1>3. i.op \in Followed
  BY <1>1, <1>2 DEF SitesOf
<1>4. /\ i.to \in DOMAIN p.routines
      /\ i.op = "bound" => BindingOK(i.binding)
  <2>1. i.op \in Transfers
    BY <1>3 DEF Followed, Transfers
  <2>2. QED
    BY <1>1, <1>2, <2>1, ProgramFacts
<1>5. /\ Sig(p, 1) \in Seq(Nat \ {0}) /\ Sig(p, r) \in Seq(Nat \ {0}) /\ Sig(p, i.to) \in Seq(Nat \ {0})
  BY <1>4, ProgramFacts
<1>6. /\ i.op \in {"call", "tail"} => Sig(p, i.to) = Sig(p, r)
      /\ i.op = "bound" => i.to # 1
  BY <1>2 DEF Framable, SitesOf
<1>7. i.op = "bound" => Legal(i.binding, Sig(p, r), Sig(p, i.to))
  BY <1>2 DEF BoundLegal, SitesOf
<1>8. /\ context.routine \in DOMAIN p.routines /\ Sig(p, context.routine) = Sig(p, r)
      /\ Suits(Sig(p, 1), Sig(p, r), context)
  BY DEF Hosts
<1> HIDE DEF i
<1>9. CASE InFrame(p, s)
  <2>1. i.op = "bound"
    BY <1>3, <1>9 DEF InFrame, Followed, i
  <2>2. next = Compose(context, i.binding, Sig(p, r), i.to, Sig(p, i.to))
    BY <1>2, <1>9 DEF Leads, i
  <2>3. /\ next.routine = i.to /\ Suits(Sig(p, 1), Sig(p, i.to), next)
        /\ Shows(Sig(p, 1), Sig(p, i.to), next) = Through(view, i.binding, Sig(p, r), Sig(p, i.to))
    BY <1>4, <1>5, <1>7, <1>8, <2>1, <2>2, ComposeShows
  <2>4. Hosts(p, i.to, next)
    BY <1>4, <2>3 DEF Hosts
  <2> HIDE DEF next, view
  <2>5. QED
    BY <1>4, <1>6, <1>9, <2>1, <2>3, <2>4 DEF i, next, view
<1>10. CASE ~InFrame(p, s)
  <2>1. next = context
    BY <1>10 DEF Leads
  <2>2. /\ Sig(p, i.to) = Sig(p, r)
        /\ i.op = "bound" => Through(view, i.binding, Sig(p, r), Sig(p, i.to)) = view
    <3>1. CASE i.op = "bound"
      <4>1. Collapsed(p, s)
        BY <1>10, <3>1 DEF InFrame, i
      <4>2. IsFullPassthrough(BindingToComposite(i.binding, Sig(p, r), 1, Sig(p, i.to)), Sig(p, r), Sig(p, i.to))
        BY <1>2, <4>1 DEF Collapsed, i
      <4>3. QED
        BY <1>4, <1>5, <1>7, <1>8, <3>1, <4>2, PassthroughShows
    <3>2. CASE i.op # "bound"
      BY <1>3, <1>6, <3>2 DEF Followed
    <3>3. QED
      BY <3>1, <3>2
  <2>3. Hosts(p, i.to, next)
    BY <1>4, <1>8, <2>1, <2>2 DEF Hosts
  <2> HIDE DEF next, view
  <2>4. QED
    BY <1>4, <1>10, <2>1, <2>2, <2>3 DEF i, next, view
<1>11. QED
  BY <1>9, <1>10

\* A link starts to explore with the entry at the machine's own frame.
LEMMA ExploreStarts ==
  ASSUME program \in Programs, visited' = {}, comps' = {},
         pending' = {<<1, IdentityComposite(Arity, 1)>>}, UNCHANGED program
  PROVE  ExploreInv'
<1>1. WellFormed(program)
  BY LinkerAssumption
<1>2. Own(program) = IdentityComposite(Arity, 1)
  BY DEF Own, Arity, Machine, Sig
<1>3. Hosts(program, 1, Own(program))
  <2>1. 1 \in DOMAIN program.routines /\ Sig(program, 1) \in Seq(Nat \ {0})
    BY <1>1, ProgramFacts
  <2>2. Own(program).routine = 1
    BY DEF Own, IdentityComposite
  <2>3. Suits(Sig(program, 1), Sig(program, 1), Own(program))
    BY <2>1, OwnShows DEF Own
  <2>4. QED
    BY <2>1, <2>2, <2>3 DEF Hosts
<1>4. 1 \in DOMAIN program.routines
  BY <1>1, ProgramFacts
<1>5. \A pair \in visited' \cup pending' : pair = <<1, Own(program)>>
  BY <1>2
<1>6. \A pair \in visited' \cup pending' : PairOK(pair)'
  <2>1. PairOK(<<1, Own(program)>>)'
    BY <1>3, <1>4 DEF PairOK
  <2>2. QED
    BY <1>5, <2>1
<1>7. QED
  BY <1>2, <1>6 DEF ExploreInv

\* Exploring a pair accounts for its calls, and what was accounted for stays
\* so: a cell of the table is written for one pair only, as rows tell the
\* composites apart.
LEMMA ExploreKeeps ==
  ASSUME program \in Programs, Framable(program), BoundLegal(program), ExploreInv, UNCHANGED program,
         NEW pair \in pending, NEW sites, sites = SitesAt(program, pair[1], Followed),
         NEW framed, framed = {s \in sites : InFrame(program, s)},
         visited' = visited \cup {pair},
         comps' = comps \cup {Leads(program, pair[2], s) : s \in framed},
         NEW cells, cells = framed \X {RowAt(program, pair[2])},
         columns' = [x \in cells \cup DOMAIN columns |->
                       IF x \in cells THEN Entry(Leads(program, pair[2], x[1])) ELSE columns[x]],
         pending' = (pending \ {pair})
                      \cup {<<InstrAt(program, s).to, Leads(program, pair[2], s)>> : s \in sites}
  PROVE  ExploreInv'
<1> DEFINE r == pair[1]
           context == pair[2]
           Next1(s) == Leads(program, context, s)
           To(s) == <<InstrAt(program, s).to, Next1(s)>>
<1>1. WellFormed(program)
  BY LinkerAssumption
<1>2. /\ \A q \in visited \cup pending : PairOK(q)
      /\ \A comp \in comps : comp.routine \in DOMAIN program.routines /\ comp # Own(program)
      /\ <<1, Own(program)>> \in visited \cup pending
      /\ \A q \in visited : \A s \in SitesAt(program, q[1], Followed) : Accounted(q, s)
  BY DEF ExploreInv
<1>3. /\ pair = <<r, context>> /\ r \in DOMAIN program.routines /\ Hosts(program, r, context)
      /\ context \in {Own(program)} \cup comps
  BY <1>2 DEF PairOK
<1>4. ASSUME NEW s \in sites
      PROVE  LET to == InstrAt(program, s).to
             IN  /\ to \in DOMAIN program.routines /\ Hosts(program, to, Next1(s))
                 /\ InFrame(program, s) => Next1(s).routine = to /\ to # 1
                 /\ ~InFrame(program, s) => Next1(s) = context
  BY <1>1, <1>3, LeadsHosted
<1>5. Own(program).routine = 1
  BY DEF Own, IdentityComposite
<1> HIDE DEF r, context, Next1
<1>6. comps' = comps \cup {Next1(s) : s \in framed}
      /\ pending' = (pending \ {pair}) \cup {To(s) : s \in sites}
  BY DEF Next1, r, context
<1>7. ASSUME NEW s \in sites PROVE Next1(s) \in {Own(program)} \cup comps'
  BY <1>3, <1>4, <1>6
<1>8. \A comp \in comps' : comp.routine \in DOMAIN program.routines /\ comp # Own(program)
  <2>1. ASSUME NEW s \in framed
        PROVE  Next1(s).routine \in DOMAIN program.routines /\ Next1(s) # Own(program)
    BY <1>4, <1>5
  <2>2. QED
    BY <1>2, <1>6, <2>1
<1>9. visited' \cup pending' = visited \cup pending \cup {To(s) : s \in sites}
  BY <1>6
<1>10. \A q \in visited' \cup pending' : PairOK(q)'
  <2>1. ASSUME NEW q \in visited \cup pending PROVE PairOK(q)'
    BY <1>2, <1>6, <2>1 DEF PairOK
  <2>2. ASSUME NEW q, NEW s \in sites, q = To(s) PROVE PairOK(q)'
    <3>1. q[1] = InstrAt(program, s).to /\ q[2] = Next1(s) /\ q = <<q[1], q[2]>>
      BY <2>2
    <3>2. QED
      BY <1>4, <1>7, <3>1 DEF PairOK
  <2>3. QED
    BY <1>9, <2>1, <2>2
<1>11. /\ DOMAIN columns' = cells \cup DOMAIN columns
       /\ \A x \in DOMAIN columns \ cells : columns'[x] = columns[x]
  OBVIOUS
<1>12. ASSUME NEW s \in framed
       PROVE  LET cell == <<s, RowAt(program, context)>>
              IN  cell \in cells /\ columns'[cell] = Entry(Next1(s))
  BY DEF Next1, context
<1> HIDE DEF To
<1>13. ASSUME NEW s \in sites PROVE Accounted(pair, s)'
  <2>1. To(s) \in visited' \cup pending'
    BY <1>9
  <2>2. ASSUME InFrame(program, s)
        PROVE  LET cell == <<s, RowAt(program, context)>>
               IN  Next1(s) \in comps' /\ cell \in DOMAIN columns' /\ columns'[cell] = Entry(Next1(s))
    <3>1. s \in framed
      BY <2>2
    <3>2. QED
      BY <1>6, <1>11, <1>12, <3>1
  <2>3. QED
    BY <2>1, <2>2 DEF Accounted, To, Next1, context, Entry
<1>14. ASSUME NEW q \in visited, NEW s \in SitesAt(program, q[1], Followed) PROVE Accounted(q, s)'
  <2> DEFINE next == Leads(program, q[2], s)
             cell == <<s, RowAt(program, q[2])>>
  <2>1. Accounted(q, s)
    BY <1>2
  <2>2. <<InstrAt(program, s).to, next>> \in visited' \cup pending'
    BY <1>9, <2>1 DEF Accounted
  <2>3. ASSUME InFrame(program, s) PROVE next \in comps' /\ cell \in DOMAIN columns' /\ columns'[cell] = Entry(next)
    <3>1. next \in comps /\ cell \in DOMAIN columns /\ columns[cell] = Entry(next)
      BY <2>1, <2>3 DEF Accounted
    <3>2. CASE cell \in cells
      <4>1. s \in framed /\ RowAt(program, q[2]) = RowAt(program, context)
        BY <3>2 DEF context
      <4>2. q[2] = context
        <5>1. q[2] \in {Own(program)} \cup comps
          BY <1>2 DEF PairOK
        <5>2. \A a, b : Entry(a) # Zero /\ (Entry(a) = Entry(b) => a = b)
          BY DEF Entry, Zero
        <5>3. QED
          BY <4>1, <5>2 DEF RowAt
      <4>3. next = Next1(s)
        BY <4>2 DEF Next1
      <4> HIDE DEF next
      <4>4. QED
        BY <1>6, <1>11, <1>12, <3>1, <4>1, <4>3
    <3>3. CASE cell \notin cells
      BY <1>6, <1>11, <3>1, <3>3
    <3>4. QED
      BY <3>2, <3>3
  <2>4. QED
    BY <2>2, <2>3 DEF Accounted, Entry
<1>15. \A q \in visited' : \A s \in SitesAt(program, q[1], Followed) : Accounted(q, s)'
  <2>1. \A s \in SitesAt(program, pair[1], Followed) : Accounted(pair, s)'
    BY <1>13
  <2>2. QED
    BY <1>14, <2>1
<1>16. <<1, Own(program)>> \in visited' \cup pending'
  BY <1>2, <1>9
<1>17. QED
  BY <1>8, <1>10, <1>15, <1>16 DEF ExploreInv

\* Exploring keeps its invariant, whichever pair is taken next.
LEMMA ExploreStep ==
  ASSUME program \in Programs, Framable(program), BoundLegal(program), funcs = Given,
         ExploreInv, Explore
  PROVE  ExploreInv'
<1>0. UNCHANGED program
  BY DEF Explore
<1>1. PICK pair \in pending :
        LET context == pair[2]
            sites   == {pair[1]} \X SitesOf(funcs[pair[1]].code, {"call", "tail", "bound"})
            framed  == {s \in sites : Framed(s)}
            cells   == framed \X {Row(context)}
        IN  IF Explored(pair)
            THEN pending' = pending \ {pair} /\ UNCHANGED <<visited, comps, columns>>
            ELSE /\ visited' = visited \cup {pair}
                 /\ comps' = comps \cup {CalleeContext(context, s) : s \in framed}
                 /\ columns' = [x \in cells \cup DOMAIN columns |->
                                  IF x \in cells THEN Entry(CalleeContext(context, x[1])) ELSE columns[x]]
                 /\ pending' = (pending \ {pair}) \cup {<<Site(s).to, CalleeContext(context, s)>> : s \in sites}
  BY DEF Explore
<1>2. CASE Explored(pair)
  <2>1. /\ visited' = visited /\ comps' = comps /\ columns' = columns
        /\ visited' \cup pending' = visited \cup pending
    BY <1>1, <1>2 DEF Explored
  <2>2. \A q : PairOK(q)' <=> PairOK(q)
    BY <1>0, <2>1 DEF PairOK
  <2>3. \A q, s : Accounted(q, s)' <=> Accounted(q, s)
    BY <1>0, <2>1 DEF Accounted, Entry
  <2>4. QED
    BY <1>0, <2>1, <2>2, <2>3 DEF ExploreInv
<1>3. CASE ~Explored(pair)
  <2> DEFINE r == pair[1]
             context == pair[2]
             sites == {r} \X SitesOf(funcs[r].code, {"call", "tail", "bound"})
             framed == {s \in sites : Framed(s)}
  <2>1. /\ pair = <<r, context>> /\ r \in DOMAIN program.routines
        /\ context \in {Own(program)} \cup comps /\ Own(program) \notin comps
    BY DEF ExploreInv, PairOK
  <2>2. funcs[r].code = program.routines[r].code
    <3>1. funcs[r] = [routine |-> r, comp |-> Generic, code |-> program.routines[r].code]
      BY <2>1, GivenReads
    <3>2. QED
      BY <3>1
  <2>3. sites = SitesAt(program, r, Followed)
    BY <2>2 DEF SitesAt, Followed
  <2>4. ASSUME NEW s \in sites
        PROVE  /\ Site(s) = InstrAt(program, s)
               /\ Framed(s) <=> InFrame(program, s)
               /\ CalleeContext(context, s) = Leads(program, context, s)
    <3>1. PICK pc \in SitesOf(program.routines[r].code, Followed) : s = <<r, pc>>
      BY <2>3 DEF SitesAt
    <3>2. pc \in DOMAIN program.routines[r].code /\ InstrAt(program, s).op \in Followed
      BY <3>1 DEF SitesOf, InstrAt
    <3>3. InstrAt(program, s).op # "raw"
      BY <3>2 DEF Followed
    <3>4. QED
      BY <2>1, <3>1, <3>2, <3>3, GivenReads
  <2>5. Row(context) = RowAt(program, context)
    BY <2>1 DEF Row, RowAt
  <2> DEFINE cells == framed \X {RowAt(program, context)}
  <2>6. /\ visited' = visited \cup {pair}
        /\ comps' = comps \cup {CalleeContext(context, s) : s \in framed}
        /\ columns' = [x \in cells \cup DOMAIN columns |->
                         IF x \in cells THEN Entry(CalleeContext(context, x[1])) ELSE columns[x]]
        /\ pending' = (pending \ {pair}) \cup {<<Site(s).to, CalleeContext(context, s)>> : s \in sites}
    BY <1>1, <1>3, <2>5
  <2>7. framed = {s \in sites : InFrame(program, s)}
    BY <2>4
  <2> HIDE DEF sites
  <2>8. \A x \in cells : x[1] \in sites
    OBVIOUS
  <2> HIDE DEF framed, context, r, cells
  <2>9. \A s \in framed : s \in sites
    BY <2>7
  <2>10. /\ comps' = comps \cup {Leads(program, context, s) : s \in framed}
         /\ columns' = [x \in cells \cup DOMAIN columns |->
                          IF x \in cells THEN Entry(Leads(program, context, x[1])) ELSE columns[x]]
         /\ pending' = (pending \ {pair})
                         \cup {<<InstrAt(program, s).to, Leads(program, context, s)>> : s \in sites}
    <3>1. {CalleeContext(context, s) : s \in framed} = {Leads(program, context, s) : s \in framed}
      BY <2>4, <2>9
    <3>2. {<<Site(s).to, CalleeContext(context, s)>> : s \in sites}
            = {<<InstrAt(program, s).to, Leads(program, context, s)>> : s \in sites}
      BY <2>4
    <3>3. [x \in cells \cup DOMAIN columns |->
             IF x \in cells THEN Entry(CalleeContext(context, x[1])) ELSE columns[x]]
            = [x \in cells \cup DOMAIN columns |->
                 IF x \in cells THEN Entry(Leads(program, context, x[1])) ELSE columns[x]]
      BY <2>4, <2>8
    <3>4. QED
      BY <2>6, <3>1, <3>2, <3>3
  <2>11. cells = framed \X {RowAt(program, context)}
    BY DEF cells
  <2>12. visited' = visited \cup {pair}
    BY <2>6
  <2>13. QED
    BY <1>0, <2>3, <2>7, <2>10, <2>11, <2>12, ExploreKeeps DEF context, r
<1>4. QED
  BY <1>2, <1>3

\* Planning ships the code and the tables that were explored.
LEMMA PlanStep ==
  ASSUME program \in Programs, funcs = Given, ExploreInv, Plan
  PROVE  /\ pending' = {} /\ ExploreInv' /\ funcs' = Image0(program) /\ TablesInv'
<1>0. /\ pending = {} /\ UNCHANGED <<program, pending, visited, comps, columns>>
      /\ tables' = [directory |-> Directory, compose |-> ComposeTable]
      /\ funcs' = [f \in DOMAIN funcs |-> RewriteBlob(f)]
  BY DEF Plan
<1>1. ExploreInv'
  <2>1. \A q : PairOK(q)' <=> PairOK(q)
    BY <1>0 DEF PairOK
  <2>2. \A q, s : Accounted(q, s)' <=> Accounted(q, s)
    BY <1>0 DEF Accounted, Entry
  <2>3. QED
    BY <1>0, <2>1, <2>2 DEF ExploreInv
<1>2. /\ DOMAIN funcs = DOMAIN program.routines
      /\ \A r \in DOMAIN program.routines :
           /\ funcs[r] = [routine |-> r, comp |-> Generic, code |-> program.routines[r].code]
           /\ funcs[r].code = program.routines[r].code
           /\ Cards(r) = Sig(program, r)
  <2>1. \A r \in DOMAIN program.routines :
          funcs[r] = [routine |-> r, comp |-> Generic, code |-> program.routines[r].code]
    BY GivenReads
  <2>2. ASSUME NEW r \in DOMAIN program.routines PROVE funcs[r].code = program.routines[r].code
    <3>1. funcs[r] = [routine |-> r, comp |-> Generic, code |-> program.routines[r].code]
      BY <2>1
    <3>2. QED
      BY <3>1
  <2>3. QED
    BY <2>1, <2>2, GivenReads
<1>3. ASSUME NEW r \in DOMAIN program.routines, NEW pc \in DOMAIN program.routines[r].code
      PROVE  LET s == <<r, pc>>
             IN  Site(s) = InstrAt(program, s) /\ (Framed(s) <=> InFrame(program, s))
  BY GivenReads
<1>4. funcs' = Image0(program)
  <2>1. ASSUME NEW r \in DOMAIN program.routines
        PROVE  RewriteBlob(r) = [routine |-> r, comp |-> Generic,
                 code |-> [pc \in DOMAIN program.routines[r].code |-> ShippedInstr(program, <<r, pc>>)]]
    <3> DEFINE code == program.routines[r].code
               New(pc) == IF code[pc].op \notin {"bound", "raw"} THEN code[pc]
                          ELSE IF Framed(<<r, pc>>)
                          THEN [op |-> "framed", to |-> code[pc].to, site |-> <<r, pc>>]
                          ELSE [op |-> "call", to |-> code[pc].to]
    <3>1. RewriteBlob(r) = [funcs[r] EXCEPT !.code = [pc \in DOMAIN code |-> New(pc)]]
      BY <1>2 DEF RewriteBlob
    <3>2. \A pc \in DOMAIN code : New(pc) = ShippedInstr(program, <<r, pc>>)
      BY <1>3 DEF ShippedInstr, InstrAt
    <3> HIDE DEF New
    <3>3. [pc \in DOMAIN code |-> New(pc)] = [pc \in DOMAIN code |-> ShippedInstr(program, <<r, pc>>)]
      BY <3>2
    <3>4. funcs[r] = [routine |-> r, comp |-> Generic, code |-> code]
      BY <1>2
    <3> DEFINE rewritten == [pc \in DOMAIN code |-> ShippedInstr(program, <<r, pc>>)]
    <3>5. RewriteBlob(r) = [funcs[r] EXCEPT !.code = rewritten]
      BY <3>1, <3>3
    <3> HIDE DEF rewritten, code
    <3>6. RewriteBlob(r) = [routine |-> r, comp |-> Generic, code |-> rewritten]
      BY <3>4, <3>5
    <3>7. QED
      BY <3>6 DEF rewritten, code
  <2>2. QED
    BY <1>0, <1>2, <2>1 DEF Image0
<1>5. /\ tables'.directory = Directory /\ tables'.compose = ComposeTable
  BY <1>0
<1>6. ASSUME NEW s, NEW ops
      PROVE  s \in AllSites(ops) <=> \E f \in DOMAIN program.routines : s \in SitesAt(program, f, ops)
  BY <1>2 DEF AllSites, SitesAt
<1>7. ASSUME NEW f \in DOMAIN program.routines, NEW ops, NEW s \in SitesAt(program, f, ops)
      PROVE  /\ Site(s) = InstrAt(program, s) /\ (Framed(s) <=> InFrame(program, s))
             /\ s[1] = f /\ InstrAt(program, s).op \in ops
  <2>1. PICK pc \in SitesOf(program.routines[f].code, ops) : s = <<f, pc>>
    BY DEF SitesAt
  <2>2. QED
    BY <1>3, <2>1 DEF SitesOf, InstrAt
<1>8. ASSUME NEW e \in RawDescriptors PROVE \A comp : e # Entry(comp)
  <2>1. PICK s : e = <<s[1], Site(s).desc>>
    BY DEF RawDescriptors, RawEntry
  <2>2. QED
    BY <2>1 DEF Entry
<1>9. ASSUME NEW comp \in comps
      PROVE  /\ Entry(comp) \in DOMAIN Directory
             /\ Directory[Entry(comp)] = Dense(Sig(program, 1), Sig(program, comp.routine), comp)
  <2>1. Entry(comp) \in DOMAIN Directory /\ Directory[Entry(comp)] = Materialize(Entry(comp)[1])
    BY <1>8 DEF Directory
  <2>2. Entry(comp)[1] = comp
    BY DEF Entry
  <2>3. comp.routine \in DOMAIN program.routines
    BY DEF ExploreInv
  <2>4. Materialize(comp) = Dense(Sig(program, 1), Sig(program, comp.routine), comp)
    BY <1>2, <2>3 DEF Materialize, Dense, Machine, Sig
  <2>5. QED
    BY <2>1, <2>2, <2>4
<1>10. ASSUME NEW f \in DOMAIN program.routines, NEW s \in SitesAt(program, f, {"raw"})
       PROVE  /\ ByHand(program, s) \in DOMAIN Directory
              /\ Directory[ByHand(program, s)] = InstrAt(program, s).desc
  <2>1. s \in AllSites({"raw"}) /\ RawEntry(s) = ByHand(program, s)
    BY <1>6, <1>7 DEF RawEntry, ByHand
  <2>2. ByHand(program, s) \in RawDescriptors /\ ByHand(program, s)[2] = InstrAt(program, s).desc
    BY <2>1 DEF RawDescriptors, ByHand
  <2>3. QED
    BY <2>2 DEF Directory
<1>11. ASSUME NEW row \in {Zero} \cup DOMAIN Directory, NEW f \in DOMAIN program.routines,
              NEW s \in SitesAt(program, f, {"bound", "raw"}), InFrame(program, s)
       PROVE  ComposeTable[row][s] =
                IF InstrAt(program, s).op = "raw" THEN ByHand(program, s)
                ELSE IF <<s, row>> \in DOMAIN columns THEN columns[<<s, row>>] ELSE Zero
  <2>1. s \in AllSites({"bound", "raw"}) /\ Framed(s) /\ Site(s) = InstrAt(program, s)
    BY <1>6, <1>7, <1>11
  <2>2. ComposeTable[row][s] = Composed(row, s)
    BY <2>1 DEF ComposeTable
  <2>3. QED
    BY <2>1, <2>2 DEF Composed, RawEntry, ByHand
<1>12. TablesInv'
  <2>1. /\ Entry(0)' = Entry(0) /\ \A c : Entry(c)' = Entry(c)
        /\ Zero' = Zero
    BY DEF Entry, Zero
  <2>2. QED
    BY <1>0, <1>5, <1>9, <1>10, <1>11 DEF TablesInv, Entry, Zero
<1>13. QED
  BY <1>0, <1>1, <1>4, <1>12

\* What ships is the routines, their calls rewritten.
LEMMA ReadyReads ==
  ASSUME program \in Programs, funcs = Image0(program)
  PROVE  /\ DOMAIN funcs = DOMAIN program.routines
         /\ \A r \in DOMAIN program.routines :
              /\ funcs[r].routine = r /\ funcs[r].comp = Generic /\ Cards(r) = Sig(program, r)
              /\ DOMAIN funcs[r].code = DOMAIN program.routines[r].code
              /\ \A pc \in DOMAIN program.routines[r].code :
                   funcs[r].code[pc] = ShippedInstr(program, <<r, pc>>)
<1>1. DOMAIN funcs = DOMAIN program.routines
  BY DEF Image0
<1>2. ASSUME NEW r \in DOMAIN program.routines
      PROVE  /\ funcs[r].routine = r /\ funcs[r].comp = Generic /\ Cards(r) = Sig(program, r)
             /\ DOMAIN funcs[r].code = DOMAIN program.routines[r].code
             /\ \A pc \in DOMAIN program.routines[r].code :
                  funcs[r].code[pc] = ShippedInstr(program, <<r, pc>>)
  <2> DEFINE code == [pc \in DOMAIN program.routines[r].code |-> ShippedInstr(program, <<r, pc>>)]
  <2>1. funcs[r] = [routine |-> r, comp |-> Generic, code |-> code]
    BY DEF Image0
  <2>2. DOMAIN code = DOMAIN program.routines[r].code
        /\ \A pc \in DOMAIN program.routines[r].code : code[pc] = ShippedInstr(program, <<r, pc>>)
    OBVIOUS
  <2> HIDE DEF code
  <2>3. funcs[r].routine = r /\ funcs[r].comp = Generic /\ funcs[r].code = code
    BY <2>1
  <2>4. Cards(r) = Sig(program, r)
    BY <2>3 DEF Cards, Sig
  <2>5. QED
    BY <2>2, <2>3, <2>4
<1>3. QED
  BY <1>1, <1>2

\* The refinement mapping, where nothing is a stamp.
View(a) == [routine |-> a.fn, pc |-> a.pc, frame |-> Shown(a)]
Views == [a \in Activation |-> View(a)]

\* What the refinement mapping shows of a link that stamps nothing.
LEMMA MirrorReads ==
  FramesInv => Reported = outcome /\ Mirror = Mapped(Views, acts)
<1>0. SUFFICES ASSUME FramesInv
               PROVE  Reported = outcome /\ Mirror = Mapped(Views, acts)
  OBVIOUS
<1>1. CASE acts = <<>>
  <2>1. outcome # "running"
    BY <1>0, <1>1 DEF FramesInv
  <2>2. AtStub = FALSE
    BY <2>1 DEF AtStub
  <2>3. Mirror = <<>>
    BY <1>1, <2>2 DEF Mirror
  <2>4. Mapped(Views, acts) = <<>>
    BY <1>1 DEF Mapped
  <2>5. QED
    BY <2>2, <2>3, <2>4 DEF Reported
<1>2. CASE acts # <<>>
  <2>1. /\ phase = "ready" /\ program \in Programs /\ funcs = Image0(program)
        /\ acts \in Seq(Activation)
    BY <1>0, <1>2 DEF FramesInv
  <2>2. ASSUME NEW a \in Activation
        PROVE  /\ a.fn \in DOMAIN program.routines /\ funcs[a.fn].routine = a.fn
               /\ funcs[a.fn].comp = Generic
    BY <2>1, ReadyReads DEF Activation
  <2>3. DOMAIN acts = 1..Len(acts) /\ Len(acts) \in 1..Len(acts) /\ \A i \in DOMAIN acts : acts[i] \in Activation
    BY <1>2, <2>1
  <2>4. Top \in Activation
    BY <2>3 DEF Top
  <2>5. AtStub = FALSE
    BY <2>2, <2>4 DEF AtStub
  <2>6. ASSUME NEW i \in DOMAIN acts
        PROVE  [routine |-> funcs[acts[i].fn].routine, pc |-> acts[i].pc, frame |-> FrameOf(acts[i])]
                 = Views[acts[i]]
    <3>1. acts[i] \in Activation
      BY <2>3
    <3>2. FrameOf(acts[i]) = Shown(acts[i])
      BY <2>2, <3>1 DEF FrameOf
    <3>3. QED
      BY <2>2, <3>1, <3>2 DEF Views, View
  <2>7. Mirror = Mapped(Views, acts)
    BY <2>5, <2>6 DEF Mirror, Mapped
  <2>8. QED
    BY <2>5, <2>7 DEF Reported
<1>3. QED
  BY <1>1, <1>2

\* An activation sees what the composite it was visited under shows.
LEMMA ShownVisited ==
  ASSUME FramesInv, phase = "ready", NEW a \in Activation,
         NEW context \in {Own(program)} \cup comps, Visits(a, context)
  PROVE  /\ Hosts(program, a.fn, context)
         /\ Shown(a) = Shows(Sig(program, 1), Sig(program, a.fn), context)
<1>1. /\ program \in Programs /\ WellFormed(program) /\ funcs = Image0(program)
      /\ ExploreInv /\ TablesInv
  BY LinkerAssumption DEF FramesInv
<1>2. a.fn \in DOMAIN program.routines /\ Hosts(program, a.fn, context)
  <2>1. PairOK(<<a.fn, context>>)
    BY <1>1 DEF Visits, ExploreInv
  <2>2. QED
    BY <2>1 DEF PairOK
<1>3. /\ Sig(program, 1) \in Seq(Nat \ {0}) /\ Sig(program, a.fn) \in Seq(Nat \ {0})
      /\ Machine = Sig(program, 1) /\ Arity = Len(Sig(program, 1)) /\ Cards(a.fn) = Sig(program, a.fn)
  BY <1>1, <1>2, ProgramFacts, ReadyReads DEF Machine, Arity, Sig
<1>4. /\ Sig(program, context.routine) = Sig(program, a.fn)
      /\ Suits(Sig(program, 1), Sig(program, a.fn), context)
  BY <1>2 DEF Hosts
<1>5. CASE context = Own(program)
  <2>1. context.routine = 1
    BY <1>5 DEF Own, IdentityComposite
  <2>2. a.fr = Zero
    BY <1>5 DEF Visits, RowAt
  <2>3. Shown(a) = NoTranslation(Len(Sig(program, 1)), Sig(program, 1))
    BY <1>3, <2>2 DEF Shown
  <2>4. Shows(Sig(program, 1), Sig(program, 1), context)
          = NoTranslation(Len(Sig(program, 1)), Sig(program, 1))
    BY <1>3, <1>5, OwnShows DEF Own
  <2>5. QED
    BY <1>2, <1>4, <2>1, <2>3, <2>4
<1>6. CASE context # Own(program)
  <2>1. context \in comps /\ a.fr = Entry(context) /\ a.fr # Zero
    BY <1>6 DEF Visits, RowAt, Entry, Zero
  <2>2. tables.directory[a.fr] = Dense(Sig(program, 1), Sig(program, a.fn), context)
    BY <1>1, <1>4, <2>1 DEF TablesInv
  <2>3. Shown(a) = Absolute(Dense(Sig(program, 1), Sig(program, a.fn), context),
                            Sig(program, 1), Sig(program, a.fn))
    BY <1>3, <2>1, <2>2 DEF Shown
  <2>4. QED
    BY <1>2, <1>3, <1>4, <2>3, MaterializeShows
<1>7. QED
  BY <1>5, <1>6

\* What is called under a descriptor written by hand runs under it too.
LEMMA UnderRawClosed ==
  ASSUME NEW p, WellFormed(p)
  PROVE  \A r \in DOMAIN p.routines : \A pc \in SitesOf(p.routines[r].code, Transfers) :
           LET i == p.routines[r].code[pc]
           IN  /\ i.op = "raw" => i.to \in UnderRaw(p)
               /\ r \in UnderRaw(p) => i.to \in UnderRaw(p)
<1>0. \A n \in Nat : IsFiniteSet(1..n)
  <2>1. \A n \in Nat : 1 \in Int /\ n \in Int
    OBVIOUS
  <2>2. QED
    BY <2>1, FS_Interval
<1> DEFINE rs == p.routines
<1>1. IsFiniteSet(Calls(rs))
  <2>1. IsFiniteSet(DOMAIN rs)
    <3>1. DOMAIN rs = 1..Len(rs) /\ Len(rs) \in Nat
      BY DEF WellFormed, IsList
    <3>2. QED
      BY <3>1, <1>0
  <2>2. ASSUME NEW f \in DOMAIN rs PROVE IsFiniteSet(DOMAIN rs[f].code)
    <3>1. CodeOK(rs, rs[f].code)
      BY DEF WellFormed
    <3> HIDE DEF rs
    <3>2. PICK n \in Nat : DOMAIN rs[f].code = 1..n
      BY <3>1 DEF CodeOK, IsList
    <3>3. QED
      BY <3>2, <1>0
  <2> HIDE DEF rs
  <2>3. QED
    BY <2>1, <2>2, CallsFinite
<1>2. ASSUME NEW r \in DOMAIN rs, NEW pc \in SitesOf(rs[r].code, Transfers)
      PROVE  LET i == rs[r].code[pc]
             IN  /\ i.op = "raw" => i.to \in UnderRaw(p)
                 /\ r \in UnderRaw(p) => i.to \in UnderRaw(p)
  <2> DEFINE i == rs[r].code[pc]
  <2>1. i.to \in DOMAIN rs
    <3>1. CodeOK(rs, rs[r].code)
      BY DEF WellFormed
    <3>2. pc \in DOMAIN rs[r].code /\ i.op \in Transfers
      BY DEF SitesOf
    <3> HIDE DEF rs
    <3>3. QED
      BY <3>1, <3>2 DEF CodeOK
  <2>2. ASSUME i.op = "raw" PROVE i.to \in UnderRaw(p)
    <3>1. pc \in SitesOf(rs[r].code, {"raw"})
      BY <2>2 DEF SitesOf
    <3>2. i.to \in ReachOf(Calls(rs), i.to)
      BY <1>1, ReachRoot
    <3>3. QED
      BY <2>1, <3>1, <3>2 DEF UnderRaw
  <2>3. ASSUME r \in UnderRaw(p) PROVE i.to \in UnderRaw(p)
    <3>0. PICK f \in DOMAIN rs : \E at \in SitesOf(rs[f].code, {"raw"}) : r \in ReachOf(Calls(rs), rs[f].code[at].to)
      BY <2>3 DEF UnderRaw
    <3>1. PICK at \in SitesOf(rs[f].code, {"raw"}) : r \in ReachOf(Calls(rs), rs[f].code[at].to)
      BY <3>0
    <3> DEFINE e == <<r, i.to>>
    <3>2. e \in Calls(rs) /\ e[1] = r /\ e[2] = i.to
      BY CallIn
    <3> HIDE DEF e, i
    <3>3. i.to \in ReachOf(Calls(rs), rs[f].code[at].to)
      BY <1>1, <3>1, <3>2, ReachClosed
    <3>4. QED
      BY <2>1, <3>1, <3>3 DEF UnderRaw
  <2>4. QED
    BY <2>2, <2>3
<1>3. QED
  BY <1>2

\* The frame register after a call at s, and the frame the program means.
Loaded(a, s) == IF InFrame(program, s) THEN tables.compose[a.fr][s] ELSE a.fr
Meant(a, s) ==
  LET i == InstrAt(program, s)
  IN  IF i.op = "bound" THEN Through(Shown(a), i.binding, Sig(program, a.fn), Sig(program, i.to))
      ELSE IF i.op = "raw" THEN Absolute(i.desc, Machine, Sig(program, i.to))
      ELSE Shown(a)

\* Whatever a call loads into the frame register, the callee sees what the
\* program means it to see.
LEMMA CallEnters ==
  ASSUME FramesInv, phase = "ready", NEW a \in Activation, Runs(a),
         NEW s, s = <<a.fn, a.pc>>, InstrAt(program, s).op \in Transfers,
         NEW b, b = [fn |-> InstrAt(program, s).to, pc |-> 1, fr |-> Loaded(a, s)]
  PROVE  /\ b \in Activation /\ Runs(b)
         /\ InFrame(program, s) => Loaded(a, s) # Zero
         /\ Shown(b) = Meant(a, s)
<1> DEFINE i == InstrAt(program, s)
           rs == program.routines
<1>1. /\ program \in Programs /\ WellFormed(program) /\ Framable(program) /\ BoundLegal(program)
      /\ pending = {} /\ funcs = Image0(program) /\ ExploreInv /\ TablesInv
  BY LinkerAssumption DEF FramesInv
<1>2. /\ a.fn \in DOMAIN rs /\ a.fr \in {Zero} \cup DOMAIN tables.directory
      /\ a.pc \in DOMAIN rs[a.fn].code /\ i = rs[a.fn].code[a.pc] /\ s[1] = a.fn
  BY DEF Activation, Runs, InstrAt
<1>3. /\ i.to \in DOMAIN rs /\ 1 \in DOMAIN rs[i.to].code
      /\ i.op \in {"call", "tail", "bound", "raw"}
  BY <1>1, <1>2, ProgramFacts DEF Transfers
<1>4. Cards(a.fn) = Sig(program, a.fn) /\ Cards(i.to) = Sig(program, i.to) /\ Machine = Sig(program, 1)
  BY <1>1, <1>2, <1>3, ReadyReads DEF Machine, Sig
<1>5. /\ i.op = "raw" => i.to \in UnderRaw(program)
      /\ a.fn \in UnderRaw(program) => i.to \in UnderRaw(program)
  <2>1. a.pc \in SitesOf(rs[a.fn].code, Transfers)
    BY <1>2 DEF SitesOf
  <2>2. QED
    BY <1>1, <1>2, <2>1, UnderRawClosed
<1>6. b.fn = i.to /\ b.pc = 1 /\ b.fr = Loaded(a, s) /\ b = [fn |-> b.fn, pc |-> b.pc, fr |-> b.fr]
  OBVIOUS
<1> HIDE DEF i
<1>7. CASE i.op = "raw"
  <2>1. InFrame(program, s)
    BY <1>7 DEF InFrame, Collapsed, i
  <2>2. s \in SitesAt(program, a.fn, {"raw"}) /\ s \in SitesAt(program, a.fn, {"bound", "raw"})
    BY <1>2, <1>7 DEF SitesAt, SitesOf
  <2>3. Loaded(a, s) = ByHand(program, s)
    BY <1>1, <1>2, <1>7, <2>1, <2>2 DEF TablesInv, Loaded, i
  <2>4. /\ ByHand(program, s) \in DOMAIN tables.directory
        /\ tables.directory[ByHand(program, s)] = i.desc
    BY <1>1, <1>2, <2>2 DEF TablesInv, i
  <2>5. ByHand(program, s) # Zero
    BY DEF ByHand, Zero
  <2>6. HandRun(b)
    BY <1>2, <1>5, <1>6, <1>7, <2>2, <2>3 DEF HandRun
  <2>7. b \in Activation /\ Runs(b)
    BY <1>3, <1>6, <2>3, <2>4, <2>6 DEF Activation, Runs
  <2>8. Shown(b) = Absolute(i.desc, Machine, Sig(program, i.to))
    BY <1>4, <1>6, <2>3, <2>4, <2>5 DEF Shown
  <2>9. QED
    BY <1>7, <2>3, <2>5, <2>7, <2>8 DEF Meant, i
<1>8. CASE i.op = "bound" /\ InFrame(program, s)
  <2>1. s \in SitesAt(program, a.fn, Followed) /\ s \in SitesAt(program, a.fn, {"bound", "raw"})
        /\ a.pc \in SitesOf(rs[a.fn].code, {"bound"})
    BY <1>2, <1>8 DEF SitesAt, SitesOf, Followed
  <2>2. ~HandRun(a)
    BY <1>1, <2>1 DEF HandRun, Framable
  <2>3. PICK context \in {Own(program)} \cup comps : Visits(a, context)
    BY <2>2 DEF Runs
  <2> DEFINE next == Leads(program, context, s)
             cell == <<s, RowAt(program, context)>>
  <2>4. /\ Hosts(program, a.fn, context)
        /\ Shown(a) = Shows(Sig(program, 1), Sig(program, a.fn), context)
    BY <1>1, <2>3, ShownVisited
  <2>5. Accounted(<<a.fn, context>>, s)
    <3>1. <<a.fn, context>>[1] = a.fn /\ <<a.fn, context>> \in visited
      BY <2>3 DEF Visits
    <3>2. QED
      BY <1>1, <2>1, <3>1 DEF ExploreInv
  <2>6. /\ <<i.to, next>> \in visited /\ next \in comps
        /\ cell \in DOMAIN columns /\ columns[cell] = Entry(next)
    BY <1>1, <1>8, <2>5 DEF Accounted, i
  <2>7. Loaded(a, s) = Entry(next)
    <3>1. a.fr = RowAt(program, context)
      BY <2>3 DEF Visits
    <3>2. tables.compose[a.fr][s] = Entry(next)
      BY <1>1, <1>2, <1>8, <2>1, <2>6, <3>1 DEF TablesInv, i
    <3>3. QED
      BY <1>8, <3>2 DEF Loaded
  <2>8. Entry(next) # Zero
    BY DEF Entry, Zero
  <2>9. /\ Entry(next) \in DOMAIN tables.directory
        /\ next # Own(program)
    BY <1>1, <2>6 DEF TablesInv, ExploreInv
  <2>10. Visits(b, next)
    BY <1>6, <2>6, <2>7, <2>9 DEF Visits, RowAt
  <2>11. b \in Activation /\ Runs(b)
    BY <1>3, <1>6, <2>6, <2>7, <2>9, <2>10 DEF Activation, Runs
  <2>12. Shown(b) = Shows(Sig(program, 1), Sig(program, i.to), next)
    BY <1>1, <1>6, <2>6, <2>10, <2>11, ShownVisited
  <2>13. Shows(Sig(program, 1), Sig(program, i.to), next)
           = Through(Shown(a), i.binding, Sig(program, a.fn), Sig(program, i.to))
    BY <1>1, <1>2, <1>8, <2>1, <2>4, LeadsHosted DEF i
  <2>14. QED
    BY <1>8, <2>7, <2>8, <2>11, <2>12, <2>13 DEF Meant, i
<1>9. CASE i.op # "raw" /\ ~InFrame(program, s)
  <2>1. s \in SitesAt(program, a.fn, Followed)
    BY <1>2, <1>3, <1>9 DEF SitesAt, SitesOf, Followed
  <2>2. Loaded(a, s) = a.fr
    BY <1>9 DEF Loaded
  <2>3. ASSUME HandRun(a) PROVE HandRun(b) /\ i.op # "bound" /\ Sig(program, i.to) = Sig(program, a.fn)
    <3>1. HandRun(b)
      BY <1>5, <1>6, <2>2, <2>3 DEF HandRun
    <3>2. i.op # "bound"
      BY <1>1, <1>2, <2>3 DEF HandRun, Framable, SitesOf
    <3>3. Sig(program, i.to) = Sig(program, a.fn)
      BY <1>1, <1>2, <1>3, <1>9, <3>2 DEF Framable, SitesOf
    <3>4. QED
      BY <3>1, <3>2, <3>3
  <2>4. ASSUME NEW context \in {Own(program)} \cup comps, Visits(a, context)
        PROVE  /\ Visits(b, context) /\ Sig(program, i.to) = Sig(program, a.fn)
               /\ i.op = "bound" => Through(Shown(a), i.binding, Sig(program, a.fn), Sig(program, i.to)) = Shown(a)
    <3>1. /\ Hosts(program, a.fn, context)
          /\ Shown(a) = Shows(Sig(program, 1), Sig(program, a.fn), context)
      BY <1>1, <2>4, ShownVisited
    <3>2. /\ Leads(program, context, s) = context /\ Sig(program, i.to) = Sig(program, a.fn)
          /\ i.op = "bound" => Through(Shown(a), i.binding, Sig(program, a.fn), Sig(program, i.to)) = Shown(a)
      BY <1>1, <1>2, <1>9, <2>1, <3>1, LeadsHosted DEF i
    <3>3. Accounted(<<a.fn, context>>, s)
      <4>1. <<a.fn, context>>[1] = a.fn /\ <<a.fn, context>> \in visited
        BY <2>4 DEF Visits
      <4>2. QED
        BY <1>1, <2>1, <4>1 DEF ExploreInv
    <3>4. <<i.to, context>> \in visited
      BY <1>1, <3>2, <3>3 DEF Accounted, i
    <3>5. Visits(b, context)
      BY <1>6, <2>2, <2>4, <3>4 DEF Visits
    <3>6. QED
      BY <3>2, <3>5
  <2>5. Sig(program, i.to) = Sig(program, a.fn) /\ Runs(b)
        /\ (i.op = "bound" => Through(Shown(a), i.binding, Sig(program, a.fn), Sig(program, i.to)) = Shown(a))
    BY <1>3, <1>6, <2>3, <2>4 DEF Runs
  <2>6. b \in Activation
    BY <1>2, <1>3, <1>6, <2>2 DEF Activation
  <2>7. Shown(b) = Shown(a)
    BY <1>4, <1>6, <2>2, <2>5 DEF Shown
  <2>8. QED
    BY <1>9, <2>5, <2>6, <2>7 DEF Meant, i
<1>10. QED
  BY <1>3, <1>7, <1>8, <1>9 DEF InFrame, i

\* The base machine runs what the program says, but for calls.
LEMMA ShippedOps ==
  ASSUME NEW p, NEW s, IsInstr(InstrAt(p, s))
  PROVE  LET i == InstrAt(p, s)
             j == ShippedInstr(p, s)
         IN  /\ j.op = "framed" => InFrame(p, s) /\ i.op \in {"bound", "raw"} /\ j.to = i.to /\ j.site = s
             /\ j.op = "call" => ~InFrame(p, s) /\ i.op \in {"call", "bound"} /\ j.to = i.to
             /\ j.op \notin {"framed", "call"} => j = i /\ ~InFrame(p, s)
             /\ j.op # "trap"
<1> DEFINE i == InstrAt(p, s)
           j == ShippedInstr(p, s)
<1>1. i.op \notin {"trap", "framed"} /\ (i.op = "raw" => InFrame(p, s)) /\ (InFrame(p, s) => i.op \in {"bound", "raw"})
  BY DEF IsInstr, InFrame, Collapsed
<1>2. CASE i.op \notin {"bound", "raw"}
  <2>1. j = i
    BY <1>2 DEF ShippedInstr
  <2> HIDE DEF i, j
  <2>2. QED
    BY <1>1, <1>2, <2>1 DEF i, j
<1>3. CASE InFrame(p, s)
  <2>1. j = [op |-> "framed", to |-> i.to, site |-> s]
    BY <1>1, <1>3 DEF ShippedInstr
  <2>2. j.op = "framed" /\ j.to = i.to /\ j.site = s
    BY <2>1
  <2> HIDE DEF i, j
  <2>3. QED
    BY <1>1, <1>3, <2>2 DEF i, j
<1>4. CASE i.op \in {"bound", "raw"} /\ ~InFrame(p, s)
  <2>1. j = [op |-> "call", to |-> i.to]
    BY <1>4 DEF ShippedInstr
  <2>2. j.op = "call" /\ j.to = i.to
    BY <2>1
  <2> HIDE DEF i, j
  <2>3. QED
    BY <1>1, <1>4, <2>2 DEF i, j
<1>5. QED
  BY <1>2, <1>3, <1>4

\* The activation on top, here and in the program as it is meant.
LEMMA RunReads ==
  ASSUME FramesInv, outcome = "running"
  PROVE  LET s == <<Top.fn, Top.pc>>
         IN  /\ phase = "ready" /\ program \in Programs /\ WellFormed(program) /\ acts # <<>>
             /\ Top \in Activation /\ Runs(Top) /\ DOMAIN Views = Activation
             /\ Below \in Seq(Activation) /\ \A i \in DOMAIN Below : Runs(Below[i])
             /\ Instr = ShippedInstr(program, s) /\ IsInstr(InstrAt(program, s))
             /\ Bound!Top = View(Top) /\ Bound!Below = Mapped(Views, Below)
             /\ Bound!Routine = program.routines[Top.fn] /\ Bound!Instr = InstrAt(program, s)
             /\ Len(Mirror) = Len(acts) /\ (Bound!Below = <<>> <=> Below = <<>>)
             /\ Reported = outcome
<1>1. /\ phase = "ready" /\ program \in Programs /\ WellFormed(program) /\ acts # <<>>
      /\ acts \in Seq(Activation) /\ \A i \in DOMAIN acts : Runs(acts[i])
      /\ funcs = Image0(program)
  BY LinkerAssumption DEF FramesInv
<1>2. DOMAIN Views = Activation
  BY DEF Views
<1>3. /\ DOMAIN acts = 1..Len(acts) /\ Len(acts) \in 1..Len(acts) /\ Len(acts) - 1 \in Nat
  BY <1>1
<1>4. Top \in Activation /\ Runs(Top)
  BY <1>1, <1>3 DEF Top
<1>5. Below \in Seq(Activation) /\ \A i \in DOMAIN Below : Runs(Below[i])
  <2>1. /\ Below \in Seq(Activation) /\ DOMAIN Below = 1..Len(acts) - 1
        /\ \A i \in 1..Len(acts) - 1 : Below[i] = acts[i]
    BY <1>1, <1>3 DEF Below
  <2>2. QED
    BY <1>1, <1>3, <2>1
<1>6. Reported = outcome /\ Mirror = Mapped(Views, acts)
  BY MirrorReads
<1>7. /\ Len(Mirror) = Len(acts) /\ Mirror[Len(acts)] = Views[Top]
      /\ SubSeq(Mirror, 1, Len(acts) - 1) = Mapped(Views, Below)
      /\ Mapped(Views, Below) = <<>> <=> Below = <<>>
  <2>1. /\ Len(Mapped(Views, acts)) = Len(acts) /\ Mapped(Views, acts)[Len(acts)] = Views[acts[Len(acts)]]
        /\ SubSeq(Mapped(Views, acts), 1, Len(acts) - 1) = Mapped(Views, SubSeq(acts, 1, Len(acts) - 1))
    BY <1>1, <1>2, MappedSeq
  <2>2. Mapped(Views, Below) = <<>> <=> Below = <<>>
    BY <1>2, <1>5, MappedSeq
  <2>3. QED
    BY <1>6, <2>1, <2>2 DEF Top, Below
<1>8. Bound!Top = View(Top) /\ Bound!Below = Mapped(Views, Below)
  BY <1>4, <1>7 DEF Bound!Top, Bound!Below, Views
<1>9. /\ Top.fn \in DOMAIN program.routines /\ Top.pc \in DOMAIN program.routines[Top.fn].code
  BY <1>4 DEF Activation, Runs
<1>10. Bound!Routine = program.routines[Top.fn] /\ Bound!Instr = InstrAt(program, <<Top.fn, Top.pc>>)
  <2>1. View(Top).routine = Top.fn /\ View(Top).pc = Top.pc
    BY DEF View
  <2>2. QED
    BY <1>8, <2>1 DEF Bound!Routine, Bound!Instr, InstrAt
<1>11. Instr = ShippedInstr(program, <<Top.fn, Top.pc>>) /\ IsInstr(InstrAt(program, <<Top.fn, Top.pc>>))
  BY <1>1, <1>9, ReadyReads, ProgramFacts DEF Instr
<1>12. QED
  BY <1>1, <1>2, <1>4, <1>5, <1>6, <1>7, <1>8, <1>10, <1>11

\* Activations on top of the ones below.
LEMMA Resumes ==
  ASSUME FramesInv, outcome = "running", NEW a \in Activation, Runs(a)
  PROVE  LET s == Append(Below, a)
         IN  /\ s \in Seq(Activation) /\ s # <<>> /\ \A i \in DOMAIN s : Runs(s[i])
             /\ Mapped(Views, s) = Append(Bound!Below, View(a))
             /\ \A b \in Activation : Runs(b) =>
                  LET t == Append(s, b)
                  IN  /\ t \in Seq(Activation) /\ t # <<>> /\ \A i \in DOMAIN t : Runs(t[i])
                      /\ Mapped(Views, t) = Append(Append(Bound!Below, View(a)), View(b))
<1> DEFINE s == Append(Below, a)
<1>1. /\ DOMAIN Views = Activation /\ Below \in Seq(Activation)
      /\ Bound!Below = Mapped(Views, Below)
      /\ \A i \in DOMAIN Below : Runs(Below[i])
      /\ \A x \in Activation : Views[x] = View(x)
  BY RunReads DEF Views
<1>2. /\ s \in Seq(Activation) /\ s # <<>> /\ DOMAIN s = 1..Len(Below) + 1
      /\ \A i \in 1..Len(Below) : s[i] = Below[i]
      /\ s[Len(Below) + 1] = a
  BY <1>1
<1>3. \A i \in DOMAIN s : Runs(s[i])
  BY <1>1, <1>2
<1>4. Mapped(Views, s) = Append(Bound!Below, View(a))
  <2>1. Mapped(Views, Append(Below, a)) = Append(Mapped(Views, Below), Views[a])
    BY <1>1, MappedSeq
  <2>2. QED
    BY <1>1, <2>1
<1> HIDE DEF s
<1>5. ASSUME NEW b \in Activation, Runs(b)
      PROVE  LET t == Append(s, b)
             IN  /\ t \in Seq(Activation) /\ t # <<>> /\ \A i \in DOMAIN t : Runs(t[i])
                 /\ Mapped(Views, t) = Append(Append(Bound!Below, View(a)), View(b))
  <2> DEFINE t == Append(s, b)
  <2>1. /\ t \in Seq(Activation) /\ t # <<>> /\ DOMAIN t = 1..Len(s) + 1
        /\ \A i \in 1..Len(s) : t[i] = s[i]
        /\ t[Len(s) + 1] = b
    BY <1>2
  <2>2. \A i \in DOMAIN t : Runs(t[i])
    BY <1>2, <1>3, <1>5, <2>1
  <2>3. Mapped(Views, t) = Append(Mapped(Views, s), Views[b])
    BY <1>1, <1>2, MappedSeq
  <2>4. QED
    BY <1>1, <1>4, <2>1, <2>2, <2>3
<1>6. QED
  BY <1>2, <1>3, <1>4, <1>5 DEF s

\* What the engine made, which execution leaves alone.
Lowerings == <<program, mechanism, phase, funcs, pending, visited, comps, columns, tables>>

\* A run that leaves it alone keeps the invariant as long as its activations
\* are of pairs that were visited.
LEMMA RunKeeps ==
  ASSUME FramesInv, phase = "ready", UNCHANGED Lowerings,
         acts' \in Seq(Activation), \A i \in DOMAIN acts' : Runs(acts'[i]),
         outcome' = "running" <=> acts' # <<>>
  PROVE  /\ FramesInv'
         /\ Reported' = outcome' /\ Mirror' = Mapped(Views, acts')
<1>1. /\ Activation' = Activation /\ \A a : Runs(a)' <=> Runs(a)
      /\ \A a : Shown(a)' = Shown(a)
  <2>1. Activation' = Activation
    BY DEF Lowerings, Activation, Zero
  <2>2. \A a : HandRun(a)' <=> HandRun(a)
    BY DEF Lowerings, HandRun
  <2>3. \A a, c : Visits(a, c)' <=> Visits(a, c)
    BY DEF Lowerings, Visits
  <2>4. \A a : Runs(a)' <=> Runs(a)
    BY <2>2, <2>3 DEF Lowerings, Runs
  <2>5. \A a : Shown(a)' = Shown(a)
    BY DEF Lowerings, Shown, Zero, Arity, Machine, Cards, Generic
  <2>6. QED
    BY <2>1, <2>4, <2>5
<1>2. ExploreInv' <=> ExploreInv
  <2>1. \A q : PairOK(q)' <=> PairOK(q)
    BY DEF Lowerings, PairOK
  <2>2. \A q, s : Accounted(q, s)' <=> Accounted(q, s)
    BY DEF Lowerings, Accounted, Entry
  <2>3. QED
    BY <2>1, <2>2 DEF Lowerings, ExploreInv
<1>3. TablesInv' <=> TablesInv
  BY DEF Lowerings, TablesInv, Entry, Zero
<1>4. FramesInv'
  BY <1>1, <1>2, <1>3 DEF FramesInv, Lowerings
<1>5. Reported' = outcome' /\ Mirror' = Mapped(Views, acts)'
  <2>1. (FramesInv => Reported = outcome /\ Mirror = Mapped(Views, acts))'
    BY MirrorReads, PTL
  <2>2. QED
    BY <1>4, <2>1
<1>6. Mapped(Views, acts)' = Mapped(Views, acts')
  BY <1>1 DEF Mapped, Views, View
<1>7. QED
  BY <1>4, <1>5, <1>6

\* The two runs end together, and go on together.
LEMMA Ends ==
  ASSUME FramesInv, outcome = "running", UNCHANGED Lowerings, NEW how, Finish(how), how # "running"
  PROVE  FramesInv' /\ Bound!Finish(how)
<1>1. phase = "ready" /\ acts' = <<>> /\ outcome' = how
  BY RunReads DEF Finish
<1>2. FramesInv' /\ Reported' = outcome' /\ Mirror' = Mapped(Views, acts')
  BY <1>1, RunKeeps
<1>3. Mapped(Views, acts') = <<>>
  BY <1>1 DEF Mapped
<1>4. QED
  BY <1>1, <1>2, <1>3 DEF Bound!Finish

\* An activation is replaced or pushed: the invariant holds and the
\* abstract stack follows.
LEMMA GoesOn ==
  ASSUME FramesInv, outcome = "running", UNCHANGED Lowerings, UNCHANGED outcome,
         NEW a \in Activation, Runs(a), acts' = Append(Below, a)
  PROVE  /\ FramesInv' /\ Reported' = Reported
         /\ Mirror' = Append(Bound!Below, View(a))
<1>1. phase = "ready" /\ Reported = outcome
  BY RunReads
<1>2. /\ acts' \in Seq(Activation) /\ acts' # <<>> /\ \A i \in DOMAIN acts' : Runs(acts'[i])
      /\ Mapped(Views, acts') = Append(Bound!Below, View(a))
  BY Resumes
<1>3. QED
  BY <1>1, <1>2, RunKeeps

\* Moving on within a routine is the same move in the program.
LEMMA GoesTo ==
  ASSUME FramesInv, outcome = "running", UNCHANGED Lowerings, UNCHANGED outcome,
         NEW pc \in DOMAIN program.routines[Top.fn].code, Goto(pc)
  PROVE  FramesInv' /\ Bound!Goto(pc) /\ Reported' = Reported
<1> DEFINE a == [Top EXCEPT !.pc = pc]
<1>1. /\ Top \in Activation /\ Runs(Top) /\ WellFormed(program) /\ Bound!Top = View(Top)
  BY RunReads
<1>2. /\ Top = [fn |-> Top.fn, pc |-> Top.pc, fr |-> Top.fr] /\ Top.fn \in DOMAIN program.routines
      /\ Top.fr \in {Zero} \cup DOMAIN tables.directory
  BY <1>1 DEF Activation
<1>3. pc \in Nat
  BY <1>1, <1>2, ProgramFacts
<1>4. a = [fn |-> Top.fn, pc |-> pc, fr |-> Top.fr]
  BY <1>2
<1> HIDE DEF a
<1>5. a.fn = Top.fn /\ a.pc = pc /\ a.fr = Top.fr
  BY <1>4
<1>6. a \in Activation
  BY <1>2, <1>3, <1>4 DEF Activation
<1>7. Runs(a)
  BY <1>1, <1>5 DEF Runs, HandRun, Visits
<1>8. View(a) = [Bound!Top EXCEPT !.pc = pc]
  <2>1. Shown(a) = Shown(Top)
    BY <1>5 DEF Shown
  <2>2. Bound!Top = [routine |-> Top.fn, pc |-> Top.pc, frame |-> Shown(Top)]
    BY <1>1 DEF View
  <2>3. QED
    BY <1>5, <2>1, <2>2 DEF View
<1>9. acts' = Append(Below, a)
  BY DEF Goto, a
<1>10. QED
  BY <1>6, <1>7, <1>8, <1>9, GoesOn DEF Bound!Goto

\* Stopping is stopping.
LEMMA StopRefines ==
  ASSUME FramesInv, UNCHANGED Lowerings, Stop
  PROVE  FramesInv' /\ Bound!Stop
<1>1. outcome = "running" /\ Instr.op = "stop" /\ Finish("Stopped") /\ UNCHANGED tapes
  BY DEF Stop, At
<1>2. Bound!At("stop")
  BY <1>1, RunReads, ShippedOps DEF Bound!At
<1>3. FramesInv' /\ Bound!Finish("Stopped")
  BY <1>1, Ends
<1>4. UNCHANGED program
  BY DEF Lowerings
<1>5. QED
  BY <1>1, <1>2, <1>3, <1>4 DEF Bound!Stop

\* A return pops the caller with its frame, as the program does.
LEMMA ReturnRefines ==
  ASSUME FramesInv, UNCHANGED Lowerings, Return
  PROVE  FramesInv' /\ Bound!Return
<1>1. /\ outcome = "running" /\ Instr.op = "ret" /\ UNCHANGED <<program, tapes>>
      /\ IF Below = <<>> THEN Finish("StackUnderflow") ELSE acts' = Below /\ UNCHANGED outcome
  BY DEF Return, At, Lowerings
<1>2. Bound!At("ret") /\ (Bound!Below = <<>> <=> Below = <<>>)
  BY <1>1, RunReads, ShippedOps DEF Bound!At
<1>3. CASE Below = <<>>
  <2>1. FramesInv' /\ Bound!Finish("StackUnderflow")
    BY <1>1, <1>3, Ends
  <2>2. QED
    BY <1>1, <1>2, <1>3, <2>1 DEF Bound!Return
<1>4. CASE Below # <<>>
  <2>1. acts' = Below /\ UNCHANGED outcome
    BY <1>1, <1>4
  <2>2. /\ Below \in Seq(Activation) /\ \A i \in DOMAIN Below : Runs(Below[i])
        /\ phase = "ready" /\ Bound!Below = Mapped(Views, Below) /\ Reported = outcome
    BY <1>1, RunReads
  <2>3. FramesInv' /\ Mirror' = Bound!Below /\ Reported' = Reported
    BY <1>1, <1>4, <2>1, <2>2, RunKeeps
  <2>4. QED
    BY <1>1, <1>2, <1>4, <2>3 DEF Bound!Return
<1>5. QED
  BY <1>3, <1>4

\* A tail call keeps the frame register, which is what the callee is to see.
LEMMA TailCallRefines ==
  ASSUME FramesInv, UNCHANGED Lowerings, TailCall
  PROVE  FramesInv' /\ Bound!TailCall
<1> DEFINE s == <<Top.fn, Top.pc>>
           i == InstrAt(program, s)
           a == [fn |-> i.to, pc |-> 1, fr |-> Loaded(Top, s)]
<1>1. /\ outcome = "running" /\ Instr.op = "tail" /\ UNCHANGED <<program, tapes, outcome>>
      /\ acts' = Append(Below, [fn |-> Instr.to, pc |-> 1, fr |-> Top.fr])
  BY DEF TailCall, At, Lowerings
<1>2. /\ Top \in Activation /\ Runs(Top) /\ phase = "ready" /\ Bound!Top = View(Top)
      /\ Bound!Instr = i /\ Reported = outcome
      /\ Instr = i /\ i.op = "tail" /\ ~InFrame(program, s)
  BY <1>1, RunReads, ShippedOps
<1>3. a \in Activation /\ Runs(a) /\ Shown(a) = Shown(Top)
  <2>1. i.op \in Transfers
    BY <1>2 DEF Transfers
  <2>2. a \in Activation /\ Runs(a) /\ Shown(a) = Meant(Top, s)
    BY <1>2, <2>1, CallEnters
  <2>3. QED
    BY <1>2, <2>2 DEF Meant
<1>4. [fn |-> Instr.to, pc |-> 1, fr |-> Top.fr] = a
  BY <1>2 DEF Loaded
<1>5. View(a) = [routine |-> Bound!Instr.to, pc |-> 1, frame |-> Bound!Top.frame]
  <2>1. Bound!Top.frame = Shown(Top)
    BY <1>2 DEF View
  <2>2. a.fn = i.to /\ a.pc = 1
    OBVIOUS
  <2>3. QED
    BY <1>2, <1>3, <2>1, <2>2 DEF View
<1> HIDE DEF a, i, s
<1>6. FramesInv' /\ Reported' = Reported /\ Mirror' = Append(Bound!Below, View(a))
  BY <1>1, <1>3, <1>4, GoesOn
<1>7. Bound!At("tail")
  BY <1>1, <1>2 DEF Bound!At
<1>8. QED
  BY <1>1, <1>5, <1>6, <1>7 DEF Bound!TailCall

\* A routine entered here is the routine entered there, under the same frame.
LEMMA Entered ==
  ASSUME FramesInv, outcome = "running", UNCHANGED Lowerings, UNCHANGED outcome,
         NEW s, s = <<Top.fn, Top.pc>>, InstrAt(program, s).op \in {"call", "bound", "raw"},
         Instr.to = InstrAt(program, s).to, Enter(Loaded(Top, s))
  PROVE  /\ FramesInv' /\ Reported' = Reported
         /\ Mirror' = Append(Append(Bound!Below, [Bound!Top EXCEPT !.pc = @ + 1]),
                             [routine |-> Bound!Instr.to, pc |-> 1, frame |-> Bound!FrameOfCall])
<1> DEFINE i == InstrAt(program, s)
           a == [Top EXCEPT !.pc = @ + 1]
           b == [fn |-> i.to, pc |-> 1, fr |-> Loaded(Top, s)]
<1>1. /\ phase = "ready" /\ WellFormed(program) /\ Top \in Activation /\ Runs(Top)
      /\ Bound!Top = View(Top) /\ Bound!Instr = i /\ Bound!Routine = program.routines[Top.fn]
      /\ Reported = outcome
  BY RunReads
<1>2. /\ Top = [fn |-> Top.fn, pc |-> Top.pc, fr |-> Top.fr] /\ Top.fn \in DOMAIN program.routines
      /\ Top.fr \in {Zero} \cup DOMAIN tables.directory
      /\ Top.pc \in DOMAIN program.routines[Top.fn].code
  BY <1>1 DEF Activation, Runs
<1>3. Top.pc + 1 \in DOMAIN program.routines[Top.fn].code /\ Top.pc + 1 \in Nat
  <2>1. i.op \notin Leaves
    BY DEF Leaves
  <2>2. QED
    BY <1>1, <1>2, <2>1, ProgramFacts
<1>4. a = [fn |-> Top.fn, pc |-> Top.pc + 1, fr |-> Top.fr]
  BY <1>2
<1>5. b \in Activation /\ Runs(b) /\ Shown(b) = Meant(Top, s)
  <2>1. i.op \in Transfers
    BY DEF Transfers
  <2>2. QED
    BY <1>1, <2>1, CallEnters
<1>6. acts' = Append(Append(Below, a), b)
  BY DEF Enter
<1>7. b.fn = i.to /\ b.pc = 1
  OBVIOUS
<1> HIDE DEF a, b, i
<1>8. a.fn = Top.fn /\ a.pc = Top.pc + 1 /\ a.fr = Top.fr
  BY <1>4
<1>9. a \in Activation /\ Runs(a)
  <2>1. a \in Activation
    BY <1>2, <1>3, <1>4 DEF Activation
  <2>2. QED
    BY <1>1, <1>3, <1>8, <2>1 DEF Runs, HandRun, Visits
<1>10. View(a) = [Bound!Top EXCEPT !.pc = @ + 1]
  <2>1. Shown(a) = Shown(Top)
    BY <1>8 DEF Shown
  <2>2. Bound!Top = [routine |-> Top.fn, pc |-> Top.pc, frame |-> Shown(Top)]
    BY <1>1 DEF View
  <2>3. QED
    BY <1>8, <2>1, <2>2 DEF View
<1>11. View(b) = [routine |-> Bound!Instr.to, pc |-> 1, frame |-> Bound!FrameOfCall]
  <2>1. Bound!Top.frame = Shown(Top) /\ Bound!Machine = Machine
    BY <1>1, SameBands DEF View
  <2>2. Bound!FrameOfCall = Meant(Top, s)
    BY <1>1, <2>1, SameBands DEF Bound!FrameOfCall, Meant, Sig, i
  <2>3. QED
    BY <1>1, <1>5, <1>7, <2>2 DEF View
<1>12. /\ acts' \in Seq(Activation) /\ acts' # <<>> /\ \A k \in DOMAIN acts' : Runs(acts'[k])
       /\ Mapped(Views, acts') = Append(Append(Bound!Below, View(a)), View(b))
  BY <1>5, <1>6, <1>9, Resumes
<1>13. FramesInv' /\ Reported' = outcome' /\ Mirror' = Mapped(Views, acts')
  BY <1>1, <1>12, RunKeeps
<1>14. QED
  BY <1>1, <1>10, <1>11, <1>12, <1>13

\* A call, with or without a frame, enters the callee the program calls,
\* seeing the tapes its binding says.
LEMMA CallRefines ==
  ASSUME FramesInv, UNCHANGED Lowerings, Call \/ FramedCall
  PROVE  FramesInv' /\ Bound!Call
<1> DEFINE s == <<Top.fn, Top.pc>>
           i == InstrAt(program, s)
<1>1. outcome = "running" /\ UNCHANGED <<program, tapes>>
  BY DEF Call, FramedCall, At, Lowerings
<1>2. /\ Len(Mirror) = Len(acts) /\ Bound!Instr = i /\ Reported = outcome /\ phase = "ready"
      /\ Instr = ShippedInstr(program, s) /\ Top \in Activation /\ Runs(Top)
      /\ IsInstr(InstrAt(program, s))
  BY <1>1, RunReads
<1>3. /\ ~Full => Enter(Loaded(Top, s)) /\ UNCHANGED outcome
      /\ Full => Finish("StackOverflow")
      /\ Instr.to = i.to /\ i.op \in {"call", "bound", "raw"}
  <2>1. CASE Call
    <3>1. Instr.op = "call"
      BY <2>1 DEF Call, At
    <3>2. ~InFrame(program, s) /\ i.op \in {"call", "bound"} /\ Instr.to = i.to
      BY <1>2, <3>1, ShippedOps
    <3>3. Loaded(Top, s) = Top.fr
      BY <3>2 DEF Loaded
    <3>4. QED
      BY <2>1, <3>2, <3>3 DEF Call, Enter, Finish
  <2>2. CASE FramedCall
    <3>1. Instr.op = "framed"
      BY <2>2 DEF FramedCall, At
    <3>2. InFrame(program, s) /\ i.op \in {"bound", "raw"} /\ Instr.to = i.to /\ Instr.site = s
      BY <1>2, <3>1, ShippedOps
    <3>3. Loaded(Top, s) = tables.compose[Top.fr][Instr.site]
      BY <3>2 DEF Loaded
    <3>4. Loaded(Top, s) # Zero
      <4>1. i.op \in Transfers
        BY <3>2 DEF Transfers
      <4>2. QED
        BY <1>2, <3>2, <4>1, CallEnters
    <3>5. QED
      BY <2>2, <3>2, <3>3, <3>4 DEF FramedCall, Enter, Finish
  <2>3. QED
    BY <2>1, <2>2
<1>4. Bound!At("call") \/ Bound!At("bound") \/ Bound!At("raw")
  BY <1>1, <1>2, <1>3 DEF Bound!At
<1> HIDE DEF i
<1>5. CASE Full
  <2>1. FramesInv' /\ Bound!Finish("StackOverflow")
    BY <1>1, <1>3, <1>5, Ends
  <2>2. QED
    BY <1>1, <1>2, <1>4, <1>5, <2>1 DEF Bound!Call, Full
<1>6. CASE ~Full
  <2>1. /\ FramesInv' /\ Reported' = Reported
        /\ Mirror' = Append(Append(Bound!Below, [Bound!Top EXCEPT !.pc = @ + 1]),
                            [routine |-> Bound!Instr.to, pc |-> 1, frame |-> Bound!FrameOfCall])
    BY <1>1, <1>3, <1>6, Entered DEF i
  <2>2. QED
    BY <1>1, <1>2, <1>4, <1>6, <2>1 DEF Bound!Call, Full
<1>7. QED
  BY <1>5, <1>6

\* A match sees the symbols the program would and takes the same row.
LEMMA MatchRefines ==
  ASSUME FramesInv, UNCHANGED Lowerings, Match
  PROVE  FramesInv' /\ Bound!Match
<1> DEFINE s == <<Top.fn, Top.pc>>
           i == InstrAt(program, s)
<1>1. /\ outcome = "running" /\ UNCHANGED <<program, tapes>> /\ Instr.op \in {"match", "branch"}
      /\ IF \E k \in DOMAIN Seen : Seen[k] = Hole THEN Finish("UnmappedRead")
         ELSE IF Matches(Instr.rows, Seen) # {}
         THEN Goto(Instr.rows[FirstMatch(Instr.rows, Seen)].to) /\ UNCHANGED outcome
         ELSE IF Instr.op = "branch" THEN Goto(Top.pc + 1) /\ UNCHANGED outcome
         ELSE Finish("NoTransition")
  BY DEF Match, At, Lowerings
<1>2. /\ Bound!Instr = i /\ Reported = outcome /\ Bound!Top = View(Top)
      /\ WellFormed(program) /\ Top \in Activation /\ Runs(Top)
      /\ IsInstr(InstrAt(program, s)) /\ Instr = ShippedInstr(program, s)
  BY <1>1, RunReads
<1>3. Instr = i
  BY <1>1, <1>2, ShippedOps
<1>4. Bound!Top.frame = Shown(Top) /\ Bound!Top.pc = Top.pc
  BY <1>2 DEF View
<1>5. Bound!Seen = Seen
  BY <1>4, SameBands DEF Bound!Seen, Seen
<1>6. Bound!At("match") \/ Bound!At("branch")
  BY <1>1, <1>2, <1>3 DEF Bound!At
<1>7. /\ Top.fn \in DOMAIN program.routines /\ Top.pc \in DOMAIN program.routines[Top.fn].code
  BY <1>2 DEF Activation, Runs
<1>8. /\ Bound!Trapped = Hole
      /\ Bound!Matches(i.rows, Seen) = Matches(i.rows, Seen)
      /\ Bound!FirstMatch(i.rows, Seen) = FirstMatch(i.rows, Seen)
  BY SameBands
<1>9. CASE \E k \in DOMAIN Seen : Seen[k] = Hole
  <2>1. FramesInv' /\ Bound!Finish("UnmappedRead")
    BY <1>1, <1>9, Ends
  <2>2. QED
    BY <1>1, <1>5, <1>6, <1>8, <1>9, <2>1 DEF Bound!Match
<1>10. CASE ~(\E k \in DOMAIN Seen : Seen[k] = Hole) /\ Matches(i.rows, Seen) # {}
  <2> DEFINE row == FirstMatch(i.rows, Seen)
  <2>1. IsList(i.rows) /\ \A k \in DOMAIN i.rows : i.rows[k].to \in DOMAIN program.routines[Top.fn].code
    BY <1>1, <1>2, <1>3, <1>7, ProgramFacts
  <2>2. row \in DOMAIN i.rows
    <3>1. Matches(i.rows, Seen) \subseteq DOMAIN i.rows /\ DOMAIN i.rows \subseteq Nat
      BY <2>1 DEF Matches, IsList
    <3>2. \E m \in Matches(i.rows, Seen) : \A k \in Matches(i.rows, Seen) : m <= k
      BY <1>10, <3>1, LeastOf
    <3>3. row \in Matches(i.rows, Seen)
      BY <3>2 DEF FirstMatch
    <3>4. QED
      BY <3>1, <3>3
  <2>3. Goto(i.rows[row].to) /\ UNCHANGED outcome
    BY <1>1, <1>3, <1>10
  <2>4. i.rows[row].to \in DOMAIN program.routines[Top.fn].code
    BY <2>1, <2>2
  <2>5. FramesInv' /\ Bound!Goto(i.rows[row].to) /\ Reported' = Reported
    BY <1>1, <2>3, <2>4, GoesTo
  <2> HIDE DEF i
  <2>6. QED
    BY <1>1, <1>2, <1>5, <1>6, <1>8, <1>10, <2>5 DEF Bound!Match
<1>11. CASE /\ ~(\E k \in DOMAIN Seen : Seen[k] = Hole) /\ Matches(i.rows, Seen) = {}
            /\ i.op = "branch"
  <2>1. Goto(Top.pc + 1) /\ UNCHANGED outcome
    BY <1>1, <1>3, <1>11
  <2>2. Top.pc + 1 \in DOMAIN program.routines[Top.fn].code
    <3>1. i.op \notin Leaves
      BY <1>11 DEF Leaves
    <3>2. QED
      BY <1>2, <1>7, <3>1, ProgramFacts
  <2>3. FramesInv' /\ Bound!Goto(Top.pc + 1) /\ Reported' = Reported
    BY <1>1, <2>1, <2>2, GoesTo
  <2> HIDE DEF i
  <2>4. QED
    BY <1>1, <1>2, <1>4, <1>5, <1>6, <1>8, <1>11, <2>3 DEF Bound!Match
<1>12. CASE /\ ~(\E k \in DOMAIN Seen : Seen[k] = Hole) /\ Matches(i.rows, Seen) = {}
            /\ i.op # "branch"
  <2>1. FramesInv' /\ Bound!Finish("NoTransition")
    BY <1>1, <1>3, <1>12, Ends
  <2> HIDE DEF i
  <2>2. QED
    BY <1>1, <1>2, <1>5, <1>6, <1>8, <1>12, <2>1 DEF Bound!Match
<1>13. QED
  BY <1>9, <1>10, <1>11, <1>12

\* The tapes before the first that cannot be written are one of the choices
\* left open.
LEMMA WriteMoveRefines ==
  ASSUME FramesInv, UNCHANGED Lowerings, WriteMove
  PROVE  FramesInv' /\ Bound!WriteMove
<1> DEFINE s == <<Top.fn, Top.pc>>
           i == InstrAt(program, s)
<1>1. /\ outcome = "running" /\ UNCHANGED program /\ Instr.op = "wrmv"
      /\ IF Unwritable = {}
         THEN /\ tapes' = MoveAll(WriteAll(tapes, Shown(Top), Instr.w), Shown(Top), Instr.mv)
              /\ Goto(Top.pc + 1) /\ UNCHANGED outcome
         ELSE /\ tapes' = WriteAll(tapes, Shown(Top), SubSeq(Instr.w, 1, Min(Unwritable) - 1))
              /\ Finish("UnmappedWrite")
  BY DEF WriteMove, At, Lowerings
<1>2. /\ Bound!Instr = i /\ Reported = outcome /\ Bound!Top = View(Top)
      /\ WellFormed(program) /\ Top \in Activation /\ Runs(Top)
      /\ IsInstr(InstrAt(program, s)) /\ Instr = ShippedInstr(program, s)
  BY <1>1, RunReads
<1>3. Instr = i /\ i.op = "wrmv"
  BY <1>1, <1>2, ShippedOps
<1>4. Bound!Top.frame = Shown(Top) /\ Bound!Top.pc = Top.pc
  BY <1>2 DEF View
<1>5. /\ Top.fn \in DOMAIN program.routines /\ Top.pc \in DOMAIN program.routines[Top.fn].code
  BY <1>2 DEF Activation, Runs
<1>6. IsList(i.w) /\ Top.pc + 1 \in DOMAIN program.routines[Top.fn].code
  <2>1. i.op \notin Leaves
    BY <1>3 DEF Leaves
  <2>2. QED
    BY <1>2, <1>3, <1>5, <2>1, ProgramFacts
<1>7. Bound!Unwritable = Unwritable
  BY <1>2, <1>3, <1>4, SameBands DEF Bound!Unwritable, Unwritable
<1>8. Bound!At("wrmv")
  BY <1>1, <1>2, <1>3 DEF Bound!At
<1> HIDE DEF i
<1>9. CASE Unwritable = {}
  <2>1. FramesInv' /\ Bound!Goto(Top.pc + 1) /\ Reported' = Reported
    BY <1>1, <1>6, <1>9, GoesTo
  <2>2. tapes' = Bound!MoveAll(Bound!WriteAll(tapes, Shown(Top), i.w), Shown(Top), i.mv)
    BY <1>1, <1>3, <1>9, SameBands
  <2>3. QED
    BY <1>1, <1>2, <1>4, <1>7, <1>8, <1>9, <2>1, <2>2 DEF Bound!WriteMove
<1>10. CASE Unwritable # {}
  <2> DEFINE n == Min(Unwritable) - 1
  <2>1. FramesInv' /\ Bound!Finish("UnmappedWrite")
    BY <1>1, <1>10, Ends
  <2>2. Unwritable \subseteq 1..Len(i.w) /\ Len(i.w) \in Nat
    BY <1>3, <1>6 DEF Unwritable, IsList
  <2>3. n \in 0..Len(i.w) /\ \A k \in Unwritable : n < k
    <3>1. \E m \in Unwritable : \A k \in Unwritable : m <= k
      <4>1. Unwritable \subseteq Nat
        BY <2>2
      <4>2. QED
        BY <1>10, <4>1, LeastOf
    <3>2. Min(Unwritable) \in Unwritable /\ \A k \in Unwritable : Min(Unwritable) <= k
      BY <3>1 DEF Min
    <3>3. \A k \in Unwritable : k \in 1..Len(i.w)
      BY <2>2
    <3> DEFINE m == Min(Unwritable)
    <3>4. m \in 1..Len(i.w) /\ \A k \in Unwritable : m <= k
      BY <3>2, <3>3
    <3>5. n = m - 1
      OBVIOUS
    <3> HIDE DEF n, m
    <3>6. QED
      BY <2>2, <3>3, <3>4, <3>5
  <2>4. tapes' = Bound!WriteAll(tapes, Shown(Top), SubSeq(i.w, 1, n))
    BY <1>1, <1>3, <1>10, SameBands
  <2> HIDE DEF n
  <2>5. QED
    BY <1>1, <1>2, <1>4, <1>7, <1>8, <1>10, <2>1, <2>3, <2>4 DEF Bound!WriteMove
<1>11. QED
  BY <1>9, <1>10

\* Nothing that ships traps by itself.
LEMMA NeverStubbed ==
  ASSUME FramesInv
  PROVE  ~Trap
<1>1. SUFFICES ASSUME outcome = "running", Instr.op = "trap" PROVE FALSE
  BY DEF Trap, At
<1>2. QED
  BY <1>1, RunReads, ShippedOps

\* The entry starts at the machine's own frame.
LEMMA BootRefines ==
  ASSUME FramesInv, UNCHANGED Lowerings, Boot
  PROVE  FramesInv' /\ Bound!Begin
<1> DEFINE a == [fn |-> 1, pc |-> 1, fr |-> Zero]
<1>1. /\ phase = "ready" /\ outcome = "waiting" /\ tapes' \in Inputs(program)
      /\ acts' = <<a>> /\ outcome' = "running" /\ UNCHANGED program
  BY DEF Boot, Lowerings
<1>2. /\ program \in Programs /\ WellFormed(program) /\ ExploreInv /\ pending = {}
      /\ funcs = Image0(program)
  BY <1>1, LinkerAssumption DEF FramesInv
<1>3. 1 \in DOMAIN program.routines /\ 1 \in DOMAIN program.routines[1].code
  BY <1>2, ProgramFacts
<1>4. a.fn = 1 /\ a.pc = 1 /\ a.fr = Zero
  OBVIOUS
<1>5. a \in Activation
  BY <1>3 DEF Activation
<1> HIDE DEF a
<1>6. Visits(a, Own(program))
  BY <1>2, <1>4 DEF Visits, ExploreInv, RowAt
<1>7. Runs(a)
  BY <1>3, <1>4, <1>6 DEF Runs
<1>8. acts' \in Seq(Activation) /\ acts' # <<>> /\ \A k \in DOMAIN acts' : Runs(acts'[k])
  BY <1>1, <1>5, <1>7
<1>9. FramesInv' /\ Reported' = outcome' /\ Mirror' = Mapped(Views, acts')
  BY <1>1, <1>8, RunKeeps
<1>10. Mapped(Views, acts') = <<View(a)>>
  <2>1. DOMAIN acts' = 1..1 /\ acts'[1] = a
    BY <1>1
  <2>2. Views[a] = View(a)
    BY <1>5 DEF Views
  <2>3. Mapped(Views, acts') = [k \in 1..1 |-> View(a)]
    BY <2>1, <2>2 DEF Mapped
  <2>4. QED
    BY <2>3
<1>11. View(a) = [routine |-> 1, pc |-> 1,
                  frame |-> Bound!NoTranslation(Len(Bound!Machine), Bound!Machine)]
  <2>1. Shown(a) = NoTranslation(Arity, Machine)
    BY <1>4 DEF Shown
  <2>2. QED
    BY <1>4, <2>1, SameBands DEF View, Arity
<1>12. Reported = "waiting"
  BY <1>1, MirrorReads
<1>13. QED
  BY <1>1, <1>9, <1>10, <1>11, <1>12 DEF Bound!Begin

\* A link that stamps nothing does not start before it is ready.
LEMMA LowerStutters ==
  ASSUME FramesInv, Lower, phase' # "stamp"
  PROVE  FramesInv' /\ UNCHANGED <<program, tapes, Mirror, Reported>>
<1>0. /\ program \in Programs /\ mechanism \in Mechanisms /\ Framable(program)
      /\ phase # "ready" => acts = <<>> /\ outcome = "waiting"
      /\ phase = "scan" => funcs = Given /\ visited = {} /\ comps = {}
      /\ phase # "stamp"
  BY DEF FramesInv
<1>1. /\ acts = <<>> /\ outcome = "waiting" /\ UNCHANGED <<program, mechanism, tapes, acts, outcome>>
  BY <1>0 DEF Lower, Scan, CloseStamp, EmitStamps, Explore, Plan, runVars
<1>2. FramesInv'
  <2>1. /\ program' \in Programs /\ mechanism' \in Mechanisms' /\ Framable(program') /\ phase' # "stamp"
        /\ acts' = <<>> /\ outcome' = "waiting"
    BY <1>0, <1>1
  <2>2. CASE Scan
    <3>1. /\ phase = "scan" /\ funcs = Given /\ UNCHANGED <<funcs, visited, comps>>
          /\ visited = {} /\ comps = {}
      BY <1>0, <2>2 DEF Scan
    <3>2. \/ phase' \in {"BadBinding", "MonoRawFrame"}
          \/ BoundLegal(program) /\ ToFrames
      <4>1. ASSUME ~(\E s \in AllSites({"bound"}) :
                       ~Legal(Site(s).binding, Cards(s[1]), Cards(Site(s).to)))
            PROVE  BoundLegal(program)
        <5>1. ASSUME NEW r \in DOMAIN program.routines,
                     NEW pc \in SitesOf(program.routines[r].code, {"bound"})
              PROVE  LET i == program.routines[r].code[pc]
                     IN  Legal(i.binding, Sig(program, r), Sig(program, i.to))
          <6> DEFINE s == <<r, pc>>
                     i == program.routines[r].code[pc]
          <6>1. /\ WellFormed(program) /\ pc \in DOMAIN program.routines[r].code
                /\ i = InstrAt(program, s) /\ i.op = "bound"
            BY <1>0, LinkerAssumption DEF SitesOf, InstrAt
          <6>2. i.to \in DOMAIN program.routines
            BY <6>1, ProgramFacts DEF Transfers
          <6>3. /\ DOMAIN funcs = DOMAIN program.routines /\ Site(s) = i
                /\ Cards(r) = Sig(program, r) /\ Cards(i.to) = Sig(program, i.to)
            BY <1>0, <3>1, <6>1, <6>2, GivenReads
          <6>4. funcs[r].code = program.routines[r].code
            <7>1. funcs[r] = [routine |-> r, comp |-> Generic, code |-> program.routines[r].code]
              BY <1>0, <3>1, GivenReads
            <7>2. QED
              BY <7>1
          <6>5. s \in AllSites({"bound"}) /\ s[1] = r
            BY <6>3, <6>4 DEF AllSites
          <6> HIDE DEF s, i
          <6>6. Legal(Site(s).binding, Cards(s[1]), Cards(Site(s).to))
            BY <4>1, <6>5
          <6>7. QED
            BY <6>3, <6>5, <6>6 DEF i
        <5>2. QED
          BY <5>1 DEF BoundLegal
      <4>2. Mono => phase' \in {"MonoRawFrame", "stamp"}
        BY DEF Mono, Refuse, ToStamp
      <4>3. mechanism \in {"frames", "mono", "hybrid"}
        BY <1>0, LinkerAssumption
      <4>4. \A from : ToStamp(from) => phase' = "stamp"
        BY DEF ToStamp
      <4>5. Refuse("BadBinding") => phase' = "BadBinding"
        BY DEF Refuse
      <4>6. phase' # "stamp"
        OBVIOUS
      <4> HIDE DEF FramesInv
      <4>7. QED
        BY <2>2, <4>1, <4>2, <4>3, <4>4, <4>5, <4>6 DEF Scan
    <3>3. CASE phase' \in {"BadBinding", "MonoRawFrame"}
      BY <2>1, <3>3 DEF FramesInv
    <3>4. CASE BoundLegal(program) /\ ToFrames
      <4>1. /\ phase' = "frames" /\ pending' = {<<1, IdentityComposite(Arity, 1)>>}
        BY <3>4 DEF ToFrames
      <4>2. ExploreInv'
        BY <1>0, <1>1, <3>1, <4>1, ExploreStarts
      <4>3. Given' = Given
        BY <1>1, <3>1, StampingReads
      <4>4. QED
        BY <1>1, <2>1, <3>1, <3>4, <4>1, <4>2, <4>3 DEF FramesInv
    <3>5. QED
      BY <3>2, <3>3, <3>4
  <2>3. CASE Explore
    <3>1. /\ phase = "frames" /\ UNCHANGED <<phase, funcs, tables>>
      BY <2>3 DEF Explore
    <3>2. BoundLegal(program) /\ ExploreInv /\ funcs = Given
      BY <3>1 DEF FramesInv
    <3>3. ExploreInv'
      BY <1>0, <2>3, <3>2, ExploreStep
    <3>4. Given' = Given
      BY <1>1, <3>1, StampingReads
    <3>5. QED
      BY <1>1, <2>1, <3>1, <3>2, <3>3, <3>4 DEF FramesInv
  <2>4. CASE Plan
    <3>1. phase = "frames" /\ phase' = "ready"
      BY <2>4 DEF Plan
    <3>2. BoundLegal(program) /\ ExploreInv /\ funcs = Given
      BY <3>1 DEF FramesInv
    <3>3. /\ pending' = {} /\ ExploreInv' /\ funcs' = Image0(program) /\ TablesInv'
      BY <1>0, <2>4, <3>2, PlanStep
    <3>4. QED
      BY <1>1, <2>1, <3>1, <3>2, <3>3 DEF FramesInv
  <2>5. QED
    BY <1>0, <2>2, <2>3, <2>4 DEF Lower, CloseStamp, EmitStamps
<1>3. Reported = outcome /\ Mirror = Mapped(Views, acts)
  BY MirrorReads
<1>4. (Reported = outcome /\ Mirror = Mapped(Views, acts))'
  <2>1. (FramesInv => Reported = outcome /\ Mirror = Mapped(Views, acts))'
    BY MirrorReads, PTL
  <2>2. QED
    BY <1>2, <2>1
<1>5. Mapped(Views, acts) = <<>> /\ Mapped(Views, acts)' = <<>>
  BY <1>1 DEF Mapped
<1>6. QED
  BY <1>1, <1>2, <1>3, <1>4, <1>5

\* The link starts with the image not ready and nothing running.
LEMMA FramesInit ==
  ASSUME Init, Framable(program)
  PROVE  FramesInv /\ Bound!BoundInit
<1>1. /\ program \in Programs /\ mechanism \in Mechanisms /\ phase = "scan" /\ funcs = Given
      /\ visited = {} /\ comps = {} /\ acts = <<>> /\ outcome = "waiting" /\ tapes = <<>>
  BY DEF Init, Given
<1>2. FramesInv
  BY <1>1 DEF FramesInv
<1>3. Reported = outcome /\ Mirror = <<>>
  <2>1. Reported = outcome /\ Mirror = Mapped(Views, acts)
    BY <1>2, MirrorReads
  <2>2. Mapped(Views, acts) = <<>>
    BY <1>1 DEF Mapped
  <2>3. QED
    BY <2>1, <2>2
<1>4. QED
  BY <1>1, <1>2, <1>3 DEF Bound!BoundInit

\* Every step of a link that stamps nothing keeps the invariant, and is a
\* step of the program or none.
LEMMA FramesStep ==
  FramesInv /\ [Next]_vars /\ phase' # "stamp" => FramesInv' /\ [Bound!BoundNext]_Bound!boundVars
<1>1. SUFFICES ASSUME FramesInv, [Next]_vars, phase' # "stamp"
               PROVE  FramesInv' /\ [Bound!BoundNext]_Bound!boundVars
  OBVIOUS
<1>2. CASE Lower
  <2>1. FramesInv' /\ UNCHANGED <<program, tapes, Mirror, Reported>>
    BY <1>1, <1>2, LowerStutters
  <2>2. QED
    BY <2>1 DEF Bound!boundVars
<1>3. CASE Execute
  <2>1. UNCHANGED Lowerings
    BY <1>3 DEF Execute, Lowerings, frameVars
  <2>2. CASE Boot
    BY <1>1, <2>1, <2>2, BootRefines DEF Bound!BoundNext
  <2>3. CASE WriteMove
    BY <1>1, <2>1, <2>3, WriteMoveRefines DEF Bound!BoundNext
  <2>4. CASE Match
    BY <1>1, <2>1, <2>4, MatchRefines DEF Bound!BoundNext
  <2>5. CASE Call \/ FramedCall
    BY <1>1, <2>1, <2>5, CallRefines DEF Bound!BoundNext
  <2>6. CASE TailCall
    BY <1>1, <2>1, <2>6, TailCallRefines DEF Bound!BoundNext
  <2>7. CASE Return
    BY <1>1, <2>1, <2>7, ReturnRefines DEF Bound!BoundNext
  <2>8. CASE Stop
    BY <1>1, <2>1, <2>8, StopRefines DEF Bound!BoundNext
  <2>9. ~Trap
    BY <1>1, NeverStubbed
  <2>10. QED
    BY <1>3, <2>2, <2>3, <2>4, <2>5, <2>6, <2>7, <2>8, <2>9 DEF Execute
<1>4. CASE UNCHANGED vars
  <2>1. UNCHANGED Lowerings /\ UNCHANGED <<program, phase, tapes, acts, outcome>>
    BY <1>4 DEF vars, frameVars, runVars, Lowerings
  <2>2. UNCHANGED <<Mirror, Reported>>
    BY <1>4 DEF vars, frameVars, runVars, stampVars, Mirror, Reported, AtStub, FrameOf, Shown,
                Top, Machine, Arity, Cards, Generic, Zero
  <2>3. FramesInv'
    <3>1. CASE phase = "ready"
      BY <1>1, <2>1, <3>1, RunKeeps DEF FramesInv
    <3>2. CASE phase # "ready"
      <4>1. acts = <<>> /\ outcome = "waiting"
        BY <1>1, <3>2 DEF FramesInv
      <4>2. ExploreInv => ExploreInv'
        <5>1. \A q : PairOK(q)' <=> PairOK(q)
          BY <2>1 DEF Lowerings, PairOK
        <5>2. \A q, s : Accounted(q, s)' <=> Accounted(q, s)
          BY <2>1 DEF Lowerings, Accounted, Entry
        <5>3. QED
          BY <2>1, <5>1, <5>2 DEF Lowerings, ExploreInv
      <4>3. Given' = Given
        BY <2>1, StampingReads DEF Lowerings
      <4>4. QED
        BY <1>1, <2>1, <3>2, <4>1, <4>2, <4>3 DEF FramesInv, Lowerings
    <3>3. QED
      BY <3>1, <3>2
  <2>4. QED
    BY <2>1, <2>2, <2>3 DEF Bound!boundVars
<1>5. QED
  BY <1>1, <1>2, <1>3, <1>4 DEF Next

\* No stamping pass runs.
Unstamped == phase # "stamp"

\* A link that stamps nothing makes an image that executes its program as
\* BoundCalls says: Explore, Plan and the frame register implement looking
\* through bindings (engine.rs, lower_frames and Plan; vm/core.rs).
THEOREM UnstampedRefines ==
  Spec /\ Framable(program) /\ []Unstamped => RefinesBoundCalls
<1>1. Init /\ Framable(program) => FramesInv /\ Bound!BoundInit
  BY FramesInit
<1>2. FramesInv /\ [Next]_vars /\ Unstamped' => FramesInv' /\ [Bound!BoundNext]_(Bound!boundVars)
  BY FramesStep DEF Unstamped
<1>3. QED
  BY <1>1, <1>2, PTL DEF Spec, RefinesBoundCalls, Bound!BoundSpec

\* So does every link under FRAMES, which never stamps.
THEOREM FramesRefines ==
  Spec /\ mechanism = "frames" /\ Framable(program) => RefinesBoundCalls
<1> DEFINE I == mechanism = "frames" /\ phase # "stamp"
<1>1. Init /\ mechanism = "frames" => I
  BY DEF Init
<1>2. I /\ [Next]_vars => I'
  <2>1. SUFFICES ASSUME mechanism = "frames", phase # "stamp", [Next]_vars PROVE I'
    OBVIOUS
  <2>2. CASE Scan
    BY <2>1, <2>2 DEF Scan, Refuse, ToFrames
  <2>3. CASE EmitStamps \/ CloseStamp \/ Explore \/ Plan \/ Execute
    BY <2>1, <2>3 DEF EmitStamps, CloseStamp, Explore, Plan, Execute
  <2>4. CASE UNCHANGED vars
    BY <2>1, <2>4 DEF vars
  <2>5. QED
    BY <2>1, <2>2, <2>3, <2>4 DEF Next, Lower
<1>3. I => Unstamped
  BY DEF Unstamped
<1>4. QED
  BY <1>1, <1>2, <1>3, UnstampedRefines, PTL DEF Spec
=============================================================================
