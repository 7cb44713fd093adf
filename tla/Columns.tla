--------------------------------- MODULE Columns --------------------------------
(*****************************************************************************)
(* The two build columns of a Post-machine program: compile tags every       *)
(* function of an object with the columns it serves (compiler.rs             *)
(* merge_columns), link resolves each name to the column the program asks    *)
(* for and walks what main reaches (core/src/linker/resolve.rs).             *)
(*                                                                           *)
(* A unit is one object's source: per function whether its two columns came  *)
(* out the same, the names each column calls, and whether it is local; the   *)
(* columns it was built in and the program bit.  Bodies and offsets are left *)
(* out, so the walk may visit pending functions in any order.                *)
(*****************************************************************************)
EXTENDS Naturals, Sequences, FiniteSets, Reach

CONSTANTS Inputs              \* [units : Seq(unit), users : Nat]: users first

\* Two bodies agree only if their relocations name the same callees
\* (blob_record).
WellFormed(inp) ==
  /\ Len(inp.units) \in Nat /\ DOMAIN inp.units = 1..Len(inp.units)
  /\ inp.users \in Nat
  /\ \A o \in DOMAIN inp.units : LET fns == inp.units[o].fns IN
       /\ inp.units[o].columns \in {"Both", "Normal", "Volatile"}
       /\ IsFiniteSet(DOMAIN fns)
       /\ \A f \in DOMAIN fns :
            /\ IsFiniteSet(fns[f].normal) /\ IsFiniteSet(fns[f].volatile)
            /\ fns[f].agree => fns[f].normal = fns[f].volatile

ASSUME ColumnsAssumption == \A inp \in Inputs : WellFormed(inp)

VARIABLES input, stage, deduped, reached, pending, fallbacks, unresolved
vars == <<input, stage, deduped, reached, pending, fallbacks, unresolved>>

Objects  == DOMAIN input.units
Fns(o)   == input.units[o].fns
Columns  == {"Normal", "Volatile"}
Other(c) == IF c = "Normal" THEN "Volatile" ELSE "Normal"

(*************************** merging the two columns *************************)
\* What the body built for column c calls.
Callees(o, f, c) == IF c = "Normal" THEN Fns(o)[f].normal ELSE Fns(o)[f].volatile

DemotableNever(o, f) == FALSE                                      \* mutant
\* A function that looks the same in both columns but calls, inside its own
\* object, one that does not.
Demotable(o, f) == \E g \in Callees(o, f, "Normal") \cap DOMAIN Fns(o) : g \notin deduped[o]

Demote(o, f) ==
  /\ stage = "merging" /\ f \in deduped[o] /\ Demotable(o, f)
  /\ deduped' = [deduped EXCEPT ![o] = @ \ {f}]
  /\ UNCHANGED <<input, stage, reached, pending, fallbacks, unresolved>>

\* The tags under which object o carries function f.
Tags(o, f) ==
  IF input.units[o].columns # "Both" THEN {input.units[o].columns}
  ELSE IF f \in deduped[o] THEN {"Both"} ELSE Columns

\* The blob a relocation inside o names: its own column of the callee, or the
\* one blob a deduped callee has; a deduped caller was kept from the normal
\* column.
BoundTagNormal(o, g, tag) == IF "Both" \in Tags(o, g) THEN "Both" ELSE "Normal"  \* mutant
BoundTag(o, g, tag) ==
  IF "Both" \in Tags(o, g) THEN "Both" ELSE IF tag = "Both" THEN "Normal" ELSE tag

(********************************** linking **********************************)
Site(o, f, tag) == [obj |-> o, fn |-> f, tag |-> tag]
Exports(o)      == {f \in DOMAIN Fns(o) : ~Fns(o)[f].local}

\* The object whose definition of the name wins: a user's, else the first
\* library's.
Definers(name) == {o \in Objects : name \in Exports(o)}
Owner(name)    == CHOOSE o \in Definers(name) : \A p \in Definers(name) : o <= p

ProgramColumn == IF input.units[Owner("main")].volatile THEN "Volatile" ELSE "Normal"

\* The column the program asks for if the name has it, else the other one.
FellBack(name) == Tags(Owner(name), name) \cap {ProgramColumn, "Both"} = {}
Choose(name) ==
  LET tags == Tags(Owner(name), name)
      wanted == tags \cap {ProgramColumn, "Both"} IN
  Site(Owner(name), name, CHOOSE t \in (IF wanted # {} THEN wanted ELSE tags) : TRUE)

\* A local symbol binds its blob; every other name goes through the namespace.
IsLocal(o, g)  == g \in DOMAIN Fns(o) /\ Fns(o)[g].local
Unknown(o, g)  == ~IsLocal(o, g) /\ Definers(g) = {}
Target(s, g)   == IF IsLocal(s.obj, g) THEN Site(s.obj, g, BoundTag(s.obj, g, s.tag))
                  ELSE Choose(g)
References(s)  == Callees(s.obj, s.fn, IF s.tag = "Volatile" THEN "Volatile" ELSE "Normal")

\* What a link refuses before it walks: two users that define one name, and no
\* entry.
Merged     == stage = "merging" /\ \A o \in Objects : \A f \in deduped[o] : ~Demotable(o, f)
Duplicates == {o \in Objects : o <= input.users /\
                 \E p \in 1..o-1 : Exports(o) \cap Exports(p) # {}}
Linkable   == Duplicates = {} /\ Definers("main") # {}

StartLinkSilently ==                                               \* mutant
  /\ Merged /\ Linkable
  /\ stage' = "linking"
  /\ reached' = {Choose("main")} /\ pending' = {Choose("main")}
  /\ UNCHANGED <<input, deduped, unresolved, fallbacks>>
StartLink ==
  /\ Merged /\ Linkable
  /\ stage' = "linking"
  /\ reached' = {Choose("main")} /\ pending' = {Choose("main")}
  /\ fallbacks' = {n \in {"main"} : FellBack(n)}
  /\ UNCHANGED <<input, deduped, unresolved>>

Refuse ==
  /\ Merged /\ ~Linkable
  /\ stage' = "failed"
  /\ UNCHANGED <<input, deduped, reached, pending, fallbacks, unresolved>>

Visit(s) ==
  LET known   == {g \in References(s) : ~Unknown(s.obj, g)}
      targets == {Target(s, g) : g \in known} IN
  /\ stage = "linking" /\ s \in pending
  /\ reached' = reached \cup targets
  /\ pending' = (pending \ {s}) \cup (targets \ reached)
  /\ fallbacks' = fallbacks \cup {g \in known : ~IsLocal(s.obj, g) /\ FellBack(g)}
  /\ unresolved' = unresolved \cup (References(s) \ known)
  /\ UNCHANGED <<input, stage, deduped>>

EndLink ==
  /\ stage = "linking" /\ pending = {}
  /\ stage' = IF unresolved = {} THEN "linked" ELSE "failed"
  /\ UNCHANGED <<input, deduped, reached, pending, fallbacks, unresolved>>

Init ==
  /\ input \in Inputs
  /\ stage = "merging"
  /\ deduped = [o \in Objects |->
       IF input.units[o].columns = "Both" THEN {f \in DOMAIN Fns(o) : Fns(o)[f].agree} ELSE {}]
  /\ reached = {} /\ pending = {} /\ fallbacks = {} /\ unresolved = {}

Next == \/ \E o \in Objects : \E f \in deduped[o] : Demote(o, f)
        \/ StartLink \/ Refuse \/ (\E s \in pending : Visit(s)) \/ EndLink
Spec == Init /\ [][Next]_vars

(******************************** properties *********************************)
\* What a link without any deduping would reach: every function in the one
\* column its caller asks for, <<object, function, column>>.
PureColumn(o) == IF input.units[o].columns \in {"Both", ProgramColumn} THEN ProgramColumn
                 ELSE Other(ProgramColumn)
PureTarget(p, g) == IF IsLocal(p[1], g) THEN <<p[1], g, p[3]>>
                    ELSE <<Owner(g), g, PureColumn(Owner(g))>>
PureBodies == UNION {{o} \X (DOMAIN Fns(o)) \X Columns : o \in Objects}
PureKnown(p) == {g \in Callees(p[1], p[2], p[3]) : ~Unknown(p[1], g)}
PureEdges  == UNION {{<<p, PureTarget(p, g)>> : g \in PureKnown(p)} : p \in PureBodies}
PureReach  == ReachOf(PureEdges, <<Owner("main"), "main", PureColumn(Owner("main"))>>)
Serves(s, p) == s.obj = p[1] /\ s.fn = p[2] /\ s.tag \in {p[3], "Both"}

\* Deduping never changes what is linked: the walk reaches exactly the bodies
\* it would reach with both columns kept apart, so a volatile program runs
\* gated code wherever its objects have it (merge_columns, "transitive").
LinksTheColumn ==
  stage = "linked" => /\ \A s \in reached : \E p \in PureReach : Serves(s, p)
                      /\ \A p \in PureReach : \E s \in reached : Serves(s, p)

\* A Both body only ever references Both bodies of its own object
\* (the debug assertion both_is_column_closed).
BothIsColumnClosed ==
  \A s \in reached : s.tag = "Both" =>
    \A g \in References(s) : ~Unknown(s.obj, g) =>
      LET t == Target(s, g) IN t.obj = s.obj => t.tag = "Both"

\* The report names a fallback exactly when a name was linked from the column
\* the program did not ask for, the entry included.
FallbacksReported ==
  stage = "linked" =>
    fallbacks = {s.fn : s \in {t \in reached : /\ t.fn \in Exports(t.obj)
                                               /\ t.tag = Other(ProgramColumn)}}
=============================================================================
