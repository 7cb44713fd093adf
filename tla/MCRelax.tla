--------------------------------- MODULE MCRelax --------------------------------
(*****************************************************************************)
(* Instance of Relax for TLC: three jumps or calls around two fillers whose  *)
(* sizes put the displacements on both sides of the signed byte's limits.    *)
(*****************************************************************************)
EXTENDS Relax

Fixed(n) == [kind |-> "Fixed", size |-> n]
Jump(t, forced) == [kind |-> "Jump", to |-> t, forced |-> forced]
Call(f)  == [kind |-> "Call", callee |-> f]

Movers == {Jump(t, FALSE) : t \in {1, 3, 5}} \cup {Jump(5, TRUE), Call(1), Call(2)}
MCPrograms ==
  {[fns |-> <<<<x, Fixed(a), y, Fixed(b), z>>, g>>, relax |-> r] :
     x, y, z \in Movers, a \in {1, 60, 117, 118, 119, 121, 122, 123, 124}, b \in {1, 60, 62, 124},
     g \in {<<Fixed(1)>>, <<Call(1), Fixed(60)>>}, r \in {TRUE}}
  \cup {[fns |-> <<<<x, Fixed(124), y, Fixed(1), Call(2)>>, <<Fixed(1)>>>>, relax |-> FALSE] :
          x, y \in Movers}
=============================================================================
