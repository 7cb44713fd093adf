--------------------------------- MODULE MCColumns ------------------------------
(*****************************************************************************)
(* Instance of Columns for TLC: one user object with a local and an exported *)
(* or local helper, and one or two libraries that offer the same name.       *)
(*****************************************************************************)
EXTENDS Columns

Same(calls, locals) ==
  [agree : {TRUE}, normal : {calls}, volatile : {calls}, local : locals]
Split(calls, vcalls, locals) ==
  [agree : {FALSE}, normal : {calls}, volatile : {vcalls}, local : locals]

Unit(fns, columns, volatile) == [fns : fns, columns : columns, volatile : volatile]

MainFns ==
  {[main |-> m, f |-> f, g |-> g] :
     m \in Same({"f"}, {FALSE}) \cup Same({"f", "x"}, {FALSE}) \cup Split({"x"}, {"f"}, {FALSE}),
     f \in Same({"g"}, BOOLEAN) \cup Same({"x"}, BOOLEAN) \cup Split({}, {"g"}, {TRUE}),
     g \in Same({"f"}, {TRUE}) \cup Same({}, {TRUE}) \cup Split({}, {}, BOOLEAN)}
LibFns ==
  {[x |-> x, y |-> y] :
     x \in Same({"y"}, {FALSE}) \cup Split({"y"}, {"y"}, {FALSE}) \cup Same({"f", "y"}, {FALSE}),
     y \in Same({"x"}, {TRUE}) \cup Split({}, {}, {TRUE})}

MCInputs ==
  LET mains == Unit(MainFns, {"Both", "Normal", "Volatile"}, BOOLEAN)
      libs  == Unit(LibFns, {"Both", "Normal", "Volatile"}, {FALSE})
      shadowed == CHOOSE u \in libs : u.columns = "Both" IN
  {[units |-> <<m, l>>, users |-> 1] : m \in mains, l \in libs}
    \cup {[units |-> <<m, l, shadowed>>, users |-> 1] :
            m \in {u \in mains : u.volatile}, l \in {u \in libs : u.columns = "Normal"}}
    \cup {[units |-> <<l, shadowed>>, users |-> u] : l \in libs, u \in {1, 2}}
=============================================================================
