------------------------------- MODULE RelaxSafety -----------------------------
(*****************************************************************************)
(* Chosen widths hold, for programs of any length: no later pass of the      *)
(* assembler or of the linker takes a short jump or a short call out of the  *)
(* reach of its displacement, and no jump was made long for nothing.         *)
(*                                                                           *)
(* Every pass changes sizes in one direction only, and the displacement of a *)
(* jump or a call is a sum of sizes between its end and its target, so its   *)
(* magnitude moves in the direction of the sizes and its sign stays.         *)
(*****************************************************************************)
EXTENDS Relax, WellFoundedInduction, TLAPS

-----------------------------------------------------------------------------
(* Running totals.                                                           *)

\* A set of numbers has a first element.
LEMMA First ==
  ASSUME NEW T \in SUBSET Nat, T # {}
  PROVE  \E x \in T : \A y \in T : x <= y
<1> DEFINE R == {ab \in Nat \X Nat : ab[1] < ab[2]}
<1>1. IsWellFoundedOn(R, Nat)
  BY NatLessThanWellFounded DEF OpToRel
<1> HIDE DEF R
<1>2. PICK x \in T : \A y \in T : ~ (<<y, x>> \in R)
  BY <1>1, WFMin
<1>3. ASSUME NEW y \in T PROVE x <= y
  <2>1. x \in Nat /\ y \in Nat /\ <<y, x>> \notin R
    BY <1>2
  <2>2. QED
    BY <2>1 DEF R
<1>4. QED
  BY <1>2, <1>3

\* t holds the running totals of s up to k.
Adds(t, s, k) ==
  /\ t \in [0..k -> Nat] /\ t[0] = 0
  /\ \A i \in 1..k : t[i] = t[i - 1] + s[i]

LEMMA AddsExists ==
  ASSUME NEW s \in Seq(Nat)
  PROVE  \A k \in 0..Len(s) : \E t : Adds(t, s, k)
<1> DEFINE Bad == {k \in 0..Len(s) : ~\E t : Adds(t, s, k)}
<1>1. SUFFICES ASSUME Bad # {} PROVE FALSE
  OBVIOUS
<1>2. PICK k \in Bad : \A j \in Bad : k <= j
  <2>1. Bad \in SUBSET Nat
    OBVIOUS
  <2> HIDE DEF Bad
  <2>2. QED
    BY <1>1, <2>1, First
<1>3. k # 0
  <2> DEFINE t == [i \in 0..0 |-> 0]
  <2>1. Adds(t, s, 0)
    BY DEF Adds
  <2>2. QED
    BY <1>2, <2>1
<1>4. k - 1 \in 0..Len(s) /\ k \in 1..Len(s) /\ k - 1 \notin Bad
  BY <1>2, <1>3
<1>5. PICK t : Adds(t, s, k - 1)
  BY <1>4
<1> DEFINE u == [i \in 0..k |-> IF i = k THEN t[k - 1] + s[k] ELSE t[i]]
<1>6. t[k - 1] \in Nat /\ s[k] \in Nat
  BY <1>4, <1>5 DEF Adds
<1>7. u \in [0..k -> Nat] /\ u[0] = 0
  BY <1>3, <1>4, <1>5, <1>6 DEF Adds
<1>8. ASSUME NEW i \in 1..k PROVE u[i] = u[i - 1] + s[i]
  <2>1. CASE i = k
    BY <1>4, <2>1
  <2>2. CASE i # k
    <3>1. i \in 1..k - 1 /\ i - 1 \in 0..k - 1
      BY <1>4, <2>2
    <3>2. u[i] = t[i] /\ u[i - 1] = t[i - 1]
      BY <1>4, <3>1
    <3>3. QED
      BY <1>5, <3>1, <3>2 DEF Adds
  <2>3. QED
    BY <2>1, <2>2
<1>9. Adds(u, s, k)
  BY <1>7, <1>8 DEF Adds
<1>10. QED
  BY <1>2, <1>9

\* Totals holds the running totals, starting from none.
LEMMA TotalsAdd ==
  ASSUME NEW s \in Seq(Nat)
  PROVE  Adds(Totals(s), s, Len(s))
<1>1. PICK t : Adds(t, s, Len(s))
  BY AddsExists
<1>2. t = [k \in 0..Len(s) |-> IF k = 0 THEN 0 ELSE t[k - 1] + s[k]]
  <2>1. \A k \in 0..Len(s) : t[k] = IF k = 0 THEN 0 ELSE t[k - 1] + s[k]
    BY <1>1 DEF Adds
  <2>2. QED
    BY <1>1, <2>1 DEF Adds
<1> DEFINE T == Totals(s)
<1>3. T = [k \in 0..Len(s) |-> IF k = 0 THEN 0 ELSE T[k - 1] + s[k]]
  BY <1>2 DEF Totals
<1> HIDE DEF T
<1>4. /\ T[0] = 0 /\ DOMAIN T = 0..Len(s) /\ Len(s) \in Nat
      /\ \A k \in 1..Len(s) : T[k] = T[k - 1] + s[k] /\ s[k] \in Nat
  <2>1. Len(s) \in Nat /\ \A k \in 1..Len(s) : s[k] \in Nat
    OBVIOUS
  <2>2. DOMAIN T = 0..Len(s) /\ T[0] = 0
    BY <1>3, <2>1
  <2>3. ASSUME NEW k \in 1..Len(s) PROVE T[k] = T[k - 1] + s[k]
    <3>1. k \in 0..Len(s) /\ k # 0
      BY <2>1
    <3>2. QED
      BY <1>3, <3>1
  <2>4. QED
    BY <2>1, <2>2, <2>3
<1>5. \A k \in 0..Len(s) : T[k] \in Nat
  <2> DEFINE Bad == {k \in 0..Len(s) : T[k] \notin Nat}
  <2>1. SUFFICES ASSUME Bad # {} PROVE FALSE
    OBVIOUS
  <2>2. PICK k \in Bad : \A j \in Bad : k <= j
    <3>1. Bad \in SUBSET Nat
      OBVIOUS
    <3> HIDE DEF Bad
    <3>2. QED
      BY <2>1, <3>1, First
  <2>3. k \in 1..Len(s) /\ k - 1 \in 0..Len(s) /\ k - 1 \notin Bad
    BY <1>4, <2>2
  <2>4. T[k - 1] \in Nat /\ T[k] = T[k - 1] + s[k] /\ s[k] \in Nat
    BY <1>4, <2>3
  <2>5. QED
    BY <2>2, <2>4
<1>6. T \in [0..Len(s) -> Nat]
  <2>1. T = [k \in 0..Len(s) |-> T[k]]
    BY <1>3, <1>4
  <2>2. QED
    BY <1>5, <2>1
<1>7. QED
  BY <1>4, <1>6 DEF Adds, T

\* What smaller sizes do to the distance of two places: it is no longer, and
\* no place passes another.
LEMMA Closer ==
  ASSUME NEW s \in Seq(Nat), NEW t \in Seq(Nat), Len(s) = Len(t),
         \A i \in 1..Len(s) : t[i] <= s[i],
         NEW a \in 0..Len(s)
  PROVE  \A b \in a..Len(s) :
           /\ Totals(t)[b] - Totals(t)[a] \in 0..(Totals(s)[b] - Totals(s)[a])
           /\ Totals(s)[b] - Totals(s)[a] \in Nat
<1> DEFINE S == Totals(s)
           T == Totals(t)
           n == Len(s)
           Good(b) == T[b] - T[a] \in 0..(S[b] - S[a]) /\ S[b] - S[a] \in Nat
           Bad == {b \in a..n : ~Good(b)}
<1>1. Adds(S, s, n) /\ Adds(T, t, n)
  BY TotalsAdd
<1>2. /\ n \in Nat /\ S \in [0..n -> Nat] /\ T \in [0..n -> Nat]
      /\ \A k \in 1..n : S[k] = S[k - 1] + s[k] /\ T[k] = T[k - 1] + t[k]
      /\ \A k \in 1..n : s[k] \in Nat /\ t[k] \in Nat /\ t[k] <= s[k]
  BY <1>1 DEF Adds
<1> HIDE DEF S, T, n
<1>3. SUFFICES ASSUME Bad # {} PROVE FALSE
  BY DEF S, T, n
<1>4. PICK b \in Bad : \A c \in Bad : b <= c
  <2>1. Bad \in SUBSET Nat
    BY <1>2 DEF n
  <2> HIDE DEF Bad
  <2>2. QED
    BY <1>3, <2>1, First
<1>5. b \in a..n /\ ~Good(b) /\ a \in 0..n /\ b \in 0..n
  BY <1>2, <1>4 DEF n
<1>6. b # a
  BY <1>2, <1>5
<1>7. b - 1 \in a..n /\ b - 1 \in 0..n /\ b \in 1..n /\ b - 1 \notin Bad
  BY <1>2, <1>4, <1>5, <1>6
<1>8. T[b - 1] - T[a] \in 0..(S[b - 1] - S[a]) /\ S[b - 1] - S[a] \in Nat
  BY <1>7
<1>9. /\ S[b] = S[b - 1] + s[b] /\ T[b] = T[b - 1] + t[b] /\ s[b] \in Nat /\ t[b] \in Nat
      /\ t[b] <= s[b] /\ S[b - 1] \in Nat /\ T[b - 1] \in Nat /\ S[a] \in Nat /\ T[a] \in Nat
  BY <1>2, <1>5, <1>7
<1>10. T[b] - T[a] \in 0..(S[b] - S[a]) /\ S[b] - S[a] \in Nat
  <2> DEFINE x == S[b - 1]
             y == T[b - 1]
             u == S[a]
             v == T[a]
             d == s[b]
             e == t[b]
  <2> HIDE DEF x, y, u, v, d, e
  <2>1. /\ x \in Nat /\ y \in Nat /\ u \in Nat /\ v \in Nat /\ d \in Nat /\ e \in Nat /\ e <= d
        /\ y - v \in 0..(x - u) /\ x - u \in Nat
    BY <1>8, <1>9 DEF x, y, u, v, d, e
  <2>2. (y + e) - v \in 0..((x + d) - u) /\ (x + d) - u \in Nat
    BY <2>1
  <2>3. QED
    BY <1>9, <2>2 DEF x, y, u, v, d, e
<1>11. QED
  BY <1>5, <1>10

-----------------------------------------------------------------------------
(* The sizes of a program's slots.                                           *)

\* A slot of a program: what kinds there are and where its targets lie.
LEMMA SlotFacts ==
  ASSUME WellFormed(program), NEW f \in Fns
  PROVE  /\ program.fns[f] \in Seq(SlotForms) /\ Len(program.fns[f]) \in Nat
         /\ DOMAIN program.fns[f] = 1..Len(program.fns[f])
         /\ \A i \in DOMAIN program.fns[f] :
              /\ <<f, i>> \in Slots
              /\ Slot(<<f, i>>).kind \in {"Fixed", "Jump", "Call"}
              /\ IsKind(<<f, i>>, "Fixed") => Slot(<<f, i>>).size \in Nat
              /\ IsKind(<<f, i>>, "Jump") => Slot(<<f, i>>).to \in 1..Len(program.fns[f]) + 1
              /\ IsKind(<<f, i>>, "Call") => Slot(<<f, i>>).callee \in Fns
<1>1. program.fns[f] \in Seq(SlotForms) /\ program.fns \in Seq(Seq(SlotForms))
  BY DEF WellFormed, Fns
<1>2. DOMAIN program.fns[f] = 1..Len(program.fns[f]) /\ Len(program.fns[f]) \in Nat
  BY <1>1
<1>3. ASSUME NEW i \in DOMAIN program.fns[f]
      PROVE  /\ <<f, i>> \in Slots
             /\ Slot(<<f, i>>).kind \in {"Fixed", "Jump", "Call"}
             /\ IsKind(<<f, i>>, "Fixed") => Slot(<<f, i>>).size \in Nat
             /\ IsKind(<<f, i>>, "Jump") => Slot(<<f, i>>).to \in 1..Len(program.fns[f]) + 1
             /\ IsKind(<<f, i>>, "Call") => Slot(<<f, i>>).callee \in Fns
  <2> DEFINE x == program.fns[f][i]
  <2>1. x \in SlotForms
    BY <1>1, <1>3
  <2>2. Slot(<<f, i>>) = x
    BY DEF Slot
  <2>3. <<f, i>> \in Slots
    BY <1>3 DEF Slots, SlotsOf
  <2>4. /\ x.kind = "Jump" => x.to \in 1..Len(program.fns[f]) + 1
        /\ x.kind = "Call" => x.callee \in Fns
    BY <1>3 DEF WellFormed, Fns
  <2> HIDE DEF x
  <2>5. x.kind \in {"Fixed", "Jump", "Call"} /\ (x.kind = "Fixed" => x.size \in Nat)
    BY <2>1 DEF SlotForms
  <2>6. QED
    BY <2>2, <2>3, <2>4, <2>5 DEF IsKind
<1>4. QED
  BY <1>1, <1>2, <1>3

\* Every slot is a slot of a function.
LEMMA SlotIn ==
  ASSUME NEW s \in Slots
  PROVE  s[1] \in Fns /\ s[2] \in DOMAIN program.fns[s[1]] /\ s = <<s[1], s[2]>>
BY DEF Slots, SlotsOf

\* The sizes of a function are numbers, one for each slot.
LEMMA SizesType ==
  ASSUME WellFormed(program), NEW F, NEW S, NEW f \in Fns
  PROVE  /\ Sizes(f, F, S) \in Seq(Nat) /\ Len(Sizes(f, F, S)) = Len(program.fns[f])
         /\ \A i \in DOMAIN program.fns[f] : Sizes(f, F, S)[i] = Size(<<f, i>>, F, S)
<1>1. ASSUME NEW i \in DOMAIN program.fns[f] PROVE Size(<<f, i>>, F, S) \in Nat
  BY SlotFacts DEF Size, IsKind
<1>2. DOMAIN program.fns[f] = 1..Len(program.fns[f]) /\ Len(program.fns[f]) \in Nat
  BY SlotFacts
<1>3. Sizes(f, F, S) = [i \in 1..Len(program.fns[f]) |-> Size(<<f, i>>, F, S)]
  BY <1>2 DEF Sizes
<1>4. \A i \in 1..Len(program.fns[f]) : Size(<<f, i>>, F, S) \in Nat
  BY <1>1, <1>2
<1>5. QED
  BY <1>2, <1>3, <1>4

\* Fewer far jumps and more short calls leave no slot larger.
LEMMA Smaller ==
  ASSUME WellFormed(program), NEW F1, NEW F2, NEW S1, NEW S2, F1 \subseteq F2, S2 \subseteq S1,
         NEW f \in Fns
  PROVE  /\ Len(Sizes(f, F2, S2)) = Len(Sizes(f, F1, S1))
         /\ \A i \in 1..Len(Sizes(f, F2, S2)) : Sizes(f, F1, S1)[i] <= Sizes(f, F2, S2)[i]
<1>1. /\ Len(Sizes(f, F2, S2)) = Len(program.fns[f])
      /\ Len(Sizes(f, F1, S1)) = Len(program.fns[f])
      /\ DOMAIN program.fns[f] = 1..Len(program.fns[f])
  BY SizesType, SlotFacts
<1>2. ASSUME NEW i \in DOMAIN program.fns[f]
      PROVE  Size(<<f, i>>, F1, S1) <= Size(<<f, i>>, F2, S2)
  BY SlotFacts DEF Size, IsKind
<1>3. \A i \in DOMAIN program.fns[f] :
        /\ Sizes(f, F1, S1)[i] = Size(<<f, i>>, F1, S1)
        /\ Sizes(f, F2, S2)[i] = Size(<<f, i>>, F2, S2)
  BY SizesType
<1>4. \A i \in DOMAIN program.fns[f] : Sizes(f, F1, S1)[i] <= Sizes(f, F2, S2)[i]
  BY <1>2, <1>3
<1>5. QED
  BY <1>1, <1>4

-----------------------------------------------------------------------------
(* Displacements.                                                            *)

\* A place of a function is a running total of its sizes.
LEMMA Places ==
  ASSUME WellFormed(program), NEW F, NEW S, NEW f \in Fns
  PROVE  LET T == Totals(Sizes(f, F, S))
             n == Len(program.fns[f])
         IN  /\ n \in Nat /\ T \in [0..n -> Nat] /\ T[0] = 0
             /\ \A i \in 1..n + 1 : Offset(f, i, F, S) = 1 + T[i - 1]
             /\ \A i \in 1..n : EndOf(<<f, i>>, F, S) = 1 + T[i]
<1> DEFINE z == Sizes(f, F, S)
           T == Totals(z)
           n == Len(program.fns[f])
<1>1. z \in Seq(Nat) /\ Len(z) = n /\ n \in Nat
  BY SizesType, SlotFacts
<1>2. Adds(T, z, n)
  <2> HIDE DEF z
  <2>1. Adds(Totals(z), z, Len(z))
    BY <1>1, TotalsAdd
  <2>2. QED
    BY <1>1, <2>1
<1>3. \A i \in 1..n : z[i] = Size(<<f, i>>, F, S) /\ z[i] \in Nat
  BY SizesType, SlotFacts
<1>4. T \in [0..n -> Nat] /\ T[0] = 0 /\ \A i \in 1..n : T[i] = T[i - 1] + z[i]
  BY <1>2 DEF Adds
<1>5. \A i \in 1..n + 1 : Offset(f, i, F, S) = 1 + T[i - 1]
  BY DEF Offset
<1>6. ASSUME NEW i \in 1..n PROVE EndOf(<<f, i>>, F, S) = 1 + T[i]
  <2>1. EndOf(<<f, i>>, F, S) = Offset(f, i, F, S) + Size(<<f, i>>, F, S)
    BY DEF EndOf
  <2>2. i \in 1..n + 1 /\ i - 1 \in 0..n /\ i \in 0..n
    BY <1>1, <1>6
  <2>3. Offset(f, i, F, S) = 1 + T[i - 1]
    BY <1>5, <2>2
  <2> HIDE DEF T, z, n
  <2>4. T[i] = T[i - 1] + z[i] /\ T[i - 1] \in Nat /\ z[i] \in Nat
    BY <1>3, <1>4, <1>6, <2>2
  <2>5. Size(<<f, i>>, F, S) = z[i]
    BY <1>3, <1>6
  <2>6. EndOf(<<f, i>>, F, S) = (1 + T[i - 1]) + z[i]
    BY <2>1, <2>3, <2>5
  <2>7. QED
    BY <2>4, <2>6
<1>7. QED
  BY <1>1, <1>4, <1>5, <1>6

\* What comes closer stays in reach: forward from zero up, backward from zero
\* down.
LEMMA InReach ==
  ASSUME NEW x \in Int, NEW y \in Int, x \in 0..y \/ -x \in 0..(-y)
  PROVE  FitsI8(y) => FitsI8(x)
BY DEF FitsI8

\* A jump's displacement comes closer to zero with smaller sizes.
LEMMA JumpCloser ==
  ASSUME WellFormed(program), NEW F1, NEW F2, NEW S1, NEW S2, F1 \subseteq F2, S2 \subseteq S1,
         NEW s \in Slots, IsKind(s, "Jump")
  PROVE  FitsI8(JumpOff(s, F2, S2)) => FitsI8(JumpOff(s, F1, S1))
<1> DEFINE f == s[1]
           i == s[2]
           to == Slot(s).to
           n == Len(program.fns[f])
           x == Sizes(f, F1, S1)
           y == Sizes(f, F2, S2)
           X == Totals(x)
           Y == Totals(y)
<1>1. f \in Fns /\ i \in 1..n /\ n \in Nat /\ to \in 1..n + 1 /\ s = <<f, i>>
  BY SlotIn, SlotFacts
<1>2. /\ JumpOff(s, F1, S1) = (1 + X[to - 1]) - (1 + X[i])
      /\ JumpOff(s, F2, S2) = (1 + Y[to - 1]) - (1 + Y[i])
  <2>1. /\ JumpOff(s, F1, S1) = Offset(f, to, F1, S1) - EndOf(s, F1, S1)
        /\ JumpOff(s, F2, S2) = Offset(f, to, F2, S2) - EndOf(s, F2, S2)
    BY DEF JumpOff
  <2>2. /\ Offset(f, to, F1, S1) = 1 + X[to - 1] /\ EndOf(<<f, i>>, F1, S1) = 1 + X[i]
        /\ Offset(f, to, F2, S2) = 1 + Y[to - 1] /\ EndOf(<<f, i>>, F2, S2) = 1 + Y[i]
    BY <1>1, Places
  <2> HIDE DEF f, i, to, X, Y
  <2>3. QED
    BY <1>1, <2>1, <2>2
<1>3. X \in [0..n -> Nat] /\ Y \in [0..n -> Nat]
  BY <1>1, Places
<1>4. x \in Seq(Nat) /\ y \in Seq(Nat) /\ Len(x) = n /\ Len(y) = n
  BY <1>1, SizesType
<1>5. \A k \in 1..Len(y) : x[k] <= y[k]
  BY <1>1, Smaller
<1> DEFINE Near(a, b) == X[b] - X[a] \in 0..(Y[b] - Y[a])
<1>6. \A a \in 0..n : \A b \in a..n : Near(a, b)
  <2> HIDE DEF x, y, n
  <2>1. ASSUME NEW a \in 0..n PROVE \A b \in a..n : Near(a, b)
    BY <1>4, <1>5, Closer
  <2>2. QED
    BY <2>1
<1> HIDE DEF f, i, to, n, X, Y
<1>7. to - 1 \in 0..n /\ i \in 0..n
  BY <1>1
<1>8. X[to - 1] \in Nat /\ X[i] \in Nat /\ Y[to - 1] \in Nat /\ Y[i] \in Nat
  BY <1>3, <1>7
<1>9. /\ JumpOff(s, F1, S1) = X[to - 1] - X[i]
      /\ JumpOff(s, F2, S2) = Y[to - 1] - Y[i]
  BY <1>2, <1>8
<1>10. JumpOff(s, F1, S1) \in Int /\ JumpOff(s, F2, S2) \in Int
  BY <1>8, <1>9
<1>11. CASE i <= to - 1
  <2>1. to - 1 \in i..n
    BY <1>7, <1>11
  <2>2. Near(i, to - 1)
    BY <1>6, <1>7, <2>1
  <2>3. JumpOff(s, F1, S1) \in 0..JumpOff(s, F2, S2)
    BY <1>9, <2>2
  <2>4. QED
    BY <1>10, <2>3, InReach
<1>12. CASE ~(i <= to - 1)
  <2>1. i \in (to - 1)..n
    BY <1>7, <1>12
  <2>2. Near(to - 1, i)
    BY <1>6, <1>7, <2>1
  <2>3. -JumpOff(s, F1, S1) = X[i] - X[to - 1] /\ -JumpOff(s, F2, S2) = Y[i] - Y[to - 1]
    BY <1>8, <1>9
  <2>4. -JumpOff(s, F1, S1) \in 0..(-JumpOff(s, F2, S2))
    BY <2>2, <2>3
  <2>5. QED
    BY <1>10, <2>4, InReach
<1>13. QED
  BY <1>11, <1>12

\* A function's length is one more than the total of its sizes.
LEMMA LengthsType ==
  ASSUME WellFormed(program), NEW F, NEW S
  PROVE  /\ Lengths(F, S) \in Seq(Nat) /\ Len(Lengths(F, S)) = Len(program.fns)
         /\ \A f \in Fns :
              Lengths(F, S)[f] = 1 + Totals(Sizes(f, F, S))[Len(program.fns[f])]
<1>1. Fns = 1..Len(program.fns) /\ Len(program.fns) \in Nat
  BY DEF WellFormed, Fns
<1>2. ASSUME NEW f \in Fns
      PROVE  /\ Lengths(F, S)[f] = 1 + Totals(Sizes(f, F, S))[Len(program.fns[f])]
             /\ Lengths(F, S)[f] \in Nat
  <2> DEFINE n == Len(program.fns[f])
             T == Totals(Sizes(f, F, S))
  <2>1. n \in Nat /\ T \in [0..n -> Nat] /\ \A i \in 1..n + 1 : Offset(f, i, F, S) = 1 + T[i - 1]
    BY Places
  <2>2. Lengths(F, S)[f] = Offset(f, n + 1, F, S)
    BY DEF Lengths
  <2> HIDE DEF n, T
  <2>3. n + 1 \in 1..n + 1 /\ (n + 1) - 1 = n /\ n \in 0..n
    BY <2>1
  <2>4. Offset(f, n + 1, F, S) = 1 + T[n] /\ T[n] \in Nat
    BY <2>1, <2>3
  <2>5. QED
    BY <2>2, <2>4 DEF n, T
<1>3. Lengths(F, S) = [f \in 1..Len(program.fns) |-> Lengths(F, S)[f]]
  BY <1>1 DEF Lengths
<1>4. \A f \in 1..Len(program.fns) : Lengths(F, S)[f] \in Nat
  BY <1>1, <1>2
<1> DEFINE L == Lengths(F, S)
           m == Len(program.fns)
<1>5. L \in Seq(Nat) /\ Len(L) = m
  <2> HIDE DEF L, m
  <2>1. m \in Nat /\ L = [f \in 1..m |-> L[f]] /\ \A f \in 1..m : L[f] \in Nat
    BY <1>1, <1>3, <1>4 DEF L, m
  <2>2. QED
    BY <2>1
<1>6. QED
  BY <1>2, <1>5

\* The distance of two places of a function, and of two functions.
LEMMA InFunction ==
  ASSUME WellFormed(program), NEW F1, NEW F2, NEW S1, NEW S2, F1 \subseteq F2, S2 \subseteq S1,
         NEW f \in Fns
  PROVE  LET X == Totals(Sizes(f, F1, S1))
             Y == Totals(Sizes(f, F2, S2))
             n == Len(program.fns[f])
         IN  \A a \in 0..n : \A b \in a..n :
               X[b] - X[a] \in 0..(Y[b] - Y[a]) /\ Y[b] - Y[a] \in Nat
<1> DEFINE x == Sizes(f, F1, S1)
           y == Sizes(f, F2, S2)
           n == Len(program.fns[f])
<1>1. x \in Seq(Nat) /\ y \in Seq(Nat) /\ Len(x) = n /\ Len(y) = n
  BY SizesType
<1>2. \A k \in 1..Len(y) : x[k] <= y[k]
  BY Smaller
<1> HIDE DEF x, y, n
<1>3. ASSUME NEW a \in 0..n
      PROVE  \A b \in a..n : /\ Totals(x)[b] - Totals(x)[a] \in 0..(Totals(y)[b] - Totals(y)[a])
                             /\ Totals(y)[b] - Totals(y)[a] \in Nat
  BY <1>1, <1>2, Closer
<1>4. QED
  BY <1>3 DEF x, y, n

LEMMA InProgram ==
  ASSUME WellFormed(program), NEW F1, NEW F2, NEW S1, NEW S2, F1 \subseteq F2, S2 \subseteq S1
  PROVE  LET X == Totals(Lengths(F1, S1))
             Y == Totals(Lengths(F2, S2))
             m == Len(program.fns)
         IN  \A a \in 0..m : \A b \in a..m :
               X[b] - X[a] \in 0..(Y[b] - Y[a]) /\ Y[b] - Y[a] \in Nat
<1> DEFINE x == Lengths(F1, S1)
           y == Lengths(F2, S2)
           m == Len(program.fns)
<1>1. x \in Seq(Nat) /\ y \in Seq(Nat) /\ Len(x) = m /\ Len(y) = m
  BY LengthsType
<1>2. ASSUME NEW f \in Fns PROVE x[f] <= y[f]
  <2> DEFINE n == Len(program.fns[f])
             X == Totals(Sizes(f, F1, S1))
             Y == Totals(Sizes(f, F2, S2))
  <2>1. x[f] = 1 + X[n] /\ y[f] = 1 + Y[n]
    BY LengthsType
  <2>2. n \in Nat /\ X \in [0..n -> Nat] /\ Y \in [0..n -> Nat] /\ X[0] = 0 /\ Y[0] = 0
    BY Places
  <2>3. \A a \in 0..n : \A b \in a..n : X[b] - X[a] \in 0..(Y[b] - Y[a])
    BY InFunction
  <2> HIDE DEF x, y, n, X, Y
  <2>4. 0 \in 0..n /\ n \in 0..n
    BY <2>2
  <2>5. X[n] - X[0] \in 0..(Y[n] - Y[0]) /\ X[n] \in Nat /\ Y[n] \in Nat
    BY <2>2, <2>3, <2>4
  <2>6. QED
    BY <2>1, <2>2, <2>5
<1>3. Fns = 1..m
  BY DEF WellFormed, Fns
<1>4. \A k \in 1..Len(y) : x[k] <= y[k]
  BY <1>1, <1>2, <1>3
<1> HIDE DEF x, y, m
<1>5. ASSUME NEW a \in 0..m
      PROVE  \A b \in a..m : /\ Totals(x)[b] - Totals(x)[a] \in 0..(Totals(y)[b] - Totals(y)[a])
                             /\ Totals(y)[b] - Totals(y)[a] \in Nat
  BY <1>1, <1>4, Closer
<1>6. QED
  BY <1>5 DEF x, y, m

\* A call goes forward over what is left of its function and the functions
\* between, or back over what precedes it there and the functions between.
LEMMA CallDistance ==
  ASSUME WellFormed(program), NEW F, NEW S, NEW s \in Slots, IsKind(s, "Call")
  PROVE  LET f == s[1]
             i == s[2]
             g == Slot(s).callee
             n == Len(program.fns[f])
             X == Totals(Sizes(f, F, S))
             B == Totals(Lengths(F, S))
         IN  /\ g > f => CallOff(s, F, S) = (B[g - 1] - B[f]) + (X[n] - X[i])
             /\ ~(g > f) => -CallOff(s, F, S) = ((B[f - 1] - B[g - 1]) + (X[i] - X[0])) + 1
             /\ CallOff(s, F, S) \in Int
<1> DEFINE f == s[1]
           i == s[2]
           g == Slot(s).callee
           n == Len(program.fns[f])
           m == Len(program.fns)
           X == Totals(Sizes(f, F, S))
           L == Lengths(F, S)
           B == Totals(L)
<1>1. f \in 1..m /\ g \in 1..m /\ m \in Nat /\ i \in 1..n /\ n \in Nat /\ s = <<f, i>>
      /\ f \in Fns
  BY SlotIn, SlotFacts DEF WellFormed, Fns
<1>2. X \in [0..n -> Nat] /\ X[0] = 0 /\ EndOf(<<f, i>>, F, S) = 1 + X[i]
  BY <1>1, Places
<1>3. L \in Seq(Nat) /\ Len(L) = m /\ L[f] = 1 + X[n]
  BY <1>1, LengthsType
<1>4. Adds(B, L, m)
  <2> HIDE DEF L, m
  <2>1. QED
    BY <1>3, TotalsAdd
<1>5. CallOff(s, F, S) = B[g - 1] - (B[f - 1] + EndOf(s, F, S))
  BY DEF CallOff, Base
<1> HIDE DEF f, i, g, n, m, X, L, B
<1>6. B[g - 1] \in Nat /\ B[f - 1] \in Nat /\ B[f] \in Nat /\ B[f] = B[f - 1] + L[f]
  <2>1. g - 1 \in 0..m /\ f - 1 \in 0..m /\ f \in 0..m
    BY <1>1
  <2>2. QED
    BY <1>1, <1>4, <2>1 DEF Adds
<1>7. X[n] \in Nat /\ X[i] \in Nat
  BY <1>1, <1>2
<1>8. CallOff(s, F, S) = B[g - 1] - (B[f - 1] + (1 + X[i]))
  BY <1>1, <1>2, <1>5
<1>9. B[f] = B[f - 1] + (1 + X[n])
  BY <1>3, <1>6
<1>10. /\ CallOff(s, F, S) \in Int
       /\ CallOff(s, F, S) = (B[g - 1] - B[f]) + (X[n] - X[i])
       /\ -CallOff(s, F, S) = ((B[f - 1] - B[g - 1]) + (X[i] - X[0])) + 1
  <2> DEFINE c == CallOff(s, F, S)
             b == B[f - 1]
             h == B[g - 1]
             e == B[f]
             u == X[n]
             v == X[i]
             o == X[0]
  <2>1. /\ b \in Nat /\ h \in Nat /\ u \in Nat /\ v \in Nat /\ o = 0
        /\ c = h - (b + (1 + v)) /\ e = b + (1 + u)
    BY <1>2, <1>6, <1>7, <1>8, <1>9
  <2> HIDE DEF c, b, h, e, u, v, o
  <2>2. c \in Int /\ c = (h - e) + (u - v)
    BY <2>1
  <2>3. -c = ((b - h) + (v - o)) + 1
    BY <2>1
  <2>4. QED
    BY <2>2, <2>3 DEF c, b, h, e, u, v, o
<1>11. QED
  BY <1>10 DEF f, i, g, n, m, X, L, B

\* A call's displacement comes closer to zero with smaller sizes.
LEMMA CallCloser ==
  ASSUME WellFormed(program), NEW F1, NEW F2, NEW S1, NEW S2, F1 \subseteq F2, S2 \subseteq S1,
         NEW s \in Slots, IsKind(s, "Call")
  PROVE  FitsI8(CallOff(s, F2, S2)) => FitsI8(CallOff(s, F1, S1))
<1> DEFINE f == s[1]
           i == s[2]
           g == Slot(s).callee
           n == Len(program.fns[f])
           m == Len(program.fns)
           X == Totals(Sizes(f, F1, S1))
           Y == Totals(Sizes(f, F2, S2))
           A == Totals(Lengths(F1, S1))
           B == Totals(Lengths(F2, S2))
           x == CallOff(s, F1, S1)
           y == CallOff(s, F2, S2)
<1>1. f \in 1..m /\ g \in 1..m /\ m \in Nat /\ i \in 1..n /\ n \in Nat /\ f \in Fns
  BY SlotIn, SlotFacts DEF WellFormed, Fns
<1>2. \A a \in 0..n : \A b \in a..n : X[b] - X[a] \in 0..(Y[b] - Y[a]) /\ Y[b] - Y[a] \in Nat
  BY <1>1, InFunction
<1>3. \A a \in 0..m : \A b \in a..m : A[b] - A[a] \in 0..(B[b] - B[a]) /\ B[b] - B[a] \in Nat
  BY InProgram
<1>4. /\ g > f => x = (A[g - 1] - A[f]) + (X[n] - X[i])
      /\ ~(g > f) => -x = ((A[f - 1] - A[g - 1]) + (X[i] - X[0])) + 1
      /\ x \in Int
  BY CallDistance
<1>5. /\ g > f => y = (B[g - 1] - B[f]) + (Y[n] - Y[i])
      /\ ~(g > f) => -y = ((B[f - 1] - B[g - 1]) + (Y[i] - Y[0])) + 1
      /\ y \in Int
  BY CallDistance
<1> HIDE DEF f, i, g, n, m, X, Y, A, B, x, y
<1>6. ASSUME NEW q \in Nat, NEW v \in Nat, NEW p \in 0..q, NEW u \in 0..v
      PROVE  p + u \in 0..(q + v) /\ (p + u) + 1 \in 0..((q + v) + 1)
  OBVIOUS
<1>7. CASE g > f
  <2>1. f \in 0..m /\ g - 1 \in f..m /\ i \in 0..n /\ n \in i..n
    BY <1>1, <1>7
  <2>2. /\ A[g - 1] - A[f] \in 0..(B[g - 1] - B[f]) /\ B[g - 1] - B[f] \in Nat
        /\ X[n] - X[i] \in 0..(Y[n] - Y[i]) /\ Y[n] - Y[i] \in Nat
    BY <1>2, <1>3, <2>1
  <2>3. (A[g - 1] - A[f]) + (X[n] - X[i]) \in 0..((B[g - 1] - B[f]) + (Y[n] - Y[i]))
    BY <1>6, <2>2
  <2>4. x \in 0..y /\ x \in Int /\ y \in Int
    BY <1>4, <1>5, <1>7, <2>3
  <2>5. FitsI8(y) => FitsI8(x)
    BY <2>4, InReach
  <2>6. QED
    BY <2>5 DEF x, y
<1>8. CASE ~(g > f)
  <2>1. g - 1 \in 0..m /\ f - 1 \in (g - 1)..m /\ 0 \in 0..n /\ i \in 0..n
    BY <1>1, <1>8
  <2>2. /\ A[f - 1] - A[g - 1] \in 0..(B[f - 1] - B[g - 1]) /\ B[f - 1] - B[g - 1] \in Nat
        /\ X[i] - X[0] \in 0..(Y[i] - Y[0]) /\ Y[i] - Y[0] \in Nat
    BY <1>2, <1>3, <2>1
  <2>3. ((A[f - 1] - A[g - 1]) + (X[i] - X[0])) + 1
          \in 0..(((B[f - 1] - B[g - 1]) + (Y[i] - Y[0])) + 1)
    BY <1>6, <2>2
  <2>4. -x \in 0..(-y) /\ x \in Int /\ y \in Int
    BY <1>4, <1>5, <1>8, <2>3
  <2>5. FitsI8(y) => FitsI8(x)
    BY <2>4, InReach
  <2>6. QED
    BY <2>5 DEF x, y
<1>9. QED
  BY <1>7, <1>8

-----------------------------------------------------------------------------
(* The invariants.                                                           *)

\* Only jumps grow and only calls shrink, the calls once every jump is chosen;
\* what has been chosen holds; and a jump that was grown is out of reach
\* whatever has been grown after it, at any time, which NoNeedlessFarJump says
\* of the finished widths.
Jumps == {s \in Slots : IsKind(s, "Jump")}
Calls == {s \in Slots : IsKind(s, "Call")}

RelaxInv ==
  /\ WellFormed(program)
  /\ stage \in {"assembling", "shrinking", "linked", "error"}
  /\ far \subseteq Jumps /\ short \subseteq Calls
  /\ stage = "assembling" => short = {}
  /\ WidthsStillFit
  /\ \A s \in far : ~FitsI8(JumpOff(s, far \ {s}, {}))

\* The slots of a program are those it began with.
LEMMA Steady ==
  ASSUME program' = program
  PROVE  /\ Fns' = Fns /\ Slots' = Slots /\ Jumps' = Jumps /\ Calls' = Calls
         /\ WellFormed(program') <=> WellFormed(program)
BY DEF Fns, Slots, SlotsOf, Jumps, Calls, IsKind, Slot

\* The slots stand still under a step: what a step changes of a displacement
\* is what it changes of the widths.
LEMMA SameJump ==
  ASSUME program' = program, NEW s
  PROVE  /\ JumpOff(s, far \ {s}, {})' = JumpOff(s, far' \ {s}, {})
         /\ JumpOff(s, far, short)' = JumpOff(s, far', short')
<1>1. ASSUME NEW f, NEW i
      PROVE  /\ Offset(f, i, far \ {s}, {})' = Offset(f, i, far' \ {s}, {})
             /\ Offset(f, i, far, short)' = Offset(f, i, far', short')
  <2>1. Offset(f, i, far \ {s}, {})' = Offset(f, i, far' \ {s}, {})
    BY DEF Offset, Sizes, Size, IsKind, Slot
  <2>2. Offset(f, i, far, short)' = Offset(f, i, far', short')
    BY DEF Offset, Sizes, Size, IsKind, Slot
  <2>3. QED
    BY <2>1, <2>2
<1>2. Slot(s)' = Slot(s)
  BY DEF Slot
<1>3. /\ Size(s, far \ {s}, {})' = Size(s, far' \ {s}, {})
      /\ Size(s, far, short)' = Size(s, far', short')
  BY DEF Size, IsKind, Slot
<1>4. QED
  BY <1>1, <1>2, <1>3 DEF JumpOff, EndOf

LEMMA SameCall ==
  ASSUME program' = program, NEW s
  PROVE  CallOff(s, far, short)' = CallOff(s, far', short')
<1>1. ASSUME NEW f, NEW i
      PROVE  Offset(f, i, far, short)' = Offset(f, i, far', short')
  BY DEF Offset, Sizes, Size, IsKind, Slot
<1>2. Lengths(far, short)' = Lengths(far', short')
  BY <1>1 DEF Lengths, Fns
<1>3. \A f : Base(f, far, short)' = Base(f, far', short')
  BY <1>2 DEF Base
<1>4. Slot(s)' = Slot(s) /\ Size(s, far, short)' = Size(s, far', short')
  BY DEF Slot, Size, IsKind
<1>5. QED
  BY <1>1, <1>3, <1>4 DEF CallOff, EndOf

LEMMA RelaxInvInit == Init => RelaxInv
BY RelaxAssumption DEF Init, RelaxInv, WidthsStillFit

\* Growing keeps what was grown out of reach: the sizes about it only rise.
LEMMA GrowKeeps ==
  ASSUME RelaxInv, NEW f \in Fns, Grow(f)
  PROVE  RelaxInv'
<1>1. /\ stage = "assembling" /\ stage' = stage /\ program' = program /\ short' = short
      /\ far' = far \cup TooFar(f) /\ short = {} /\ WellFormed(program)
      /\ far \subseteq Jumps /\ short \subseteq Calls
  BY DEF Grow, RelaxInv
<1>2. TooFar(f) \subseteq Jumps
  BY DEF TooFar, Jumps, Slots
<1>3. ASSUME NEW s \in far' PROVE ~FitsI8(JumpOff(s, far' \ {s}, {}))
  <2>1. s \in Slots /\ IsKind(s, "Jump")
    BY <1>1, <1>2 DEF Jumps
  <2>2. CASE s \in far
    <3>1. ~FitsI8(JumpOff(s, far \ {s}, {}))
      BY <2>2 DEF RelaxInv
    <3>2. far \ {s} \subseteq far' \ {s}
      BY <1>1
    <3>3. QED
      BY <1>1, <2>1, <3>1, <3>2, JumpCloser
  <2>3. CASE s \notin far
    <3>1. ~FitsI8(JumpOff(s, far, {}))
      BY <1>1, <2>3 DEF TooFar
    <3>2. far \subseteq far' \ {s}
      BY <1>1, <2>3
    <3>3. QED
      BY <1>1, <2>1, <3>1, <3>2, JumpCloser
  <2>4. QED
    BY <2>2, <2>3
<1>4. ASSUME NEW s \in far' PROVE ~FitsI8(JumpOff(s, far \ {s}, {})')
  BY <1>1, <1>3, SameJump
<1>5. WidthsStillFit'
  BY <1>1 DEF WidthsStillFit
<1>6. /\ WellFormed(program') /\ far' \subseteq Jumps' /\ short' \subseteq Calls'
  BY <1>1, <1>2, Steady
<1>7. QED
  BY <1>1, <1>4, <1>5, <1>6 DEF RelaxInv

\* The assembler is done only when every jump left short fits.
LEMMA AssembledKeeps ==
  ASSUME RelaxInv, Assembled
  PROVE  RelaxInv'
<1>1. /\ stage = "assembling" /\ stage' \in {"shrinking", "linked"} /\ WellFormed(program)
      /\ program' = program /\ far' = far /\ short' = short /\ short = {}
      /\ far \subseteq Jumps /\ short \subseteq Calls
      /\ \A f \in Fns : TooFar(f) = {}
  BY DEF Assembled, RelaxInv
<1>2. ASSUME NEW s \in Slots \ far, IsKind(s, "Jump") PROVE FitsI8(JumpOff(s, far, short))
  <2>1. s[1] \in Fns /\ s \in SlotsOf(s[1])
    BY <1>2 DEF Slots, SlotsOf
  <2>2. s \notin TooFar(s[1])
    BY <1>1, <2>1
  <2>3. QED
    BY <1>2, <2>1, <2>2 DEF TooFar
<1>3. ASSUME NEW s \in Slots \ far, IsKind(s, "Jump") PROVE FitsI8(JumpOff(s, far, short)')
  BY <1>1, <1>2, <1>3, SameJump
<1>4. Slots' = Slots /\ \A s : IsKind(s, "Jump")' = IsKind(s, "Jump")
  BY <1>1, Steady DEF IsKind, Slot
<1>5. WidthsStillFit'
  BY <1>1, <1>3, <1>4 DEF WidthsStillFit
<1>6. ASSUME NEW s \in far' PROVE ~FitsI8(JumpOff(s, far \ {s}, {})')
  BY <1>1, SameJump DEF RelaxInv
<1>7. WellFormed(program') /\ far' \subseteq Jumps' /\ short' \subseteq Calls'
  BY <1>1, Steady
<1>8. QED
  BY <1>1, <1>5, <1>6, <1>7 DEF RelaxInv

\* Shrinking calls takes neither a jump nor a call out of reach.
LEMMA ShrinkKeeps ==
  ASSUME RelaxInv, Shrink
  PROVE  RelaxInv'
<1>1. /\ stage = "shrinking" /\ stage' = stage /\ WellFormed(program)
      /\ program' = program /\ far' = far /\ short' = short \cup Fitting
      /\ far \subseteq Jumps /\ short \subseteq Calls
  BY DEF Shrink, RelaxInv
<1>2. Fitting \subseteq Calls /\ short' \subseteq Calls /\ short \subseteq short'
  BY <1>1 DEF Fitting, Calls
<1>3. ASSUME NEW s \in Slots \ far, IsKind(s, "Jump") PROVE FitsI8(JumpOff(s, far, short)')
  <2>1. FitsI8(JumpOff(s, far, short))
    BY <1>1, <1>3 DEF RelaxInv, WidthsStillFit
  <2>2. FitsI8(JumpOff(s, far, short'))
    BY <1>1, <1>2, <1>3, <2>1, JumpCloser
  <2>3. QED
    BY <1>1, <2>2, SameJump
<1>4. ASSUME NEW s \in short' PROVE FitsI8(CallOff(s, far, short)')
  <2>1. s \in Slots /\ IsKind(s, "Call")
    BY <1>2 DEF Calls
  <2>2. FitsI8(CallOff(s, far, short))
    BY <1>1 DEF RelaxInv, WidthsStillFit, Fitting
  <2>3. FitsI8(CallOff(s, far, short'))
    BY <1>1, <1>2, <2>1, <2>2, CallCloser
  <2>4. QED
    BY <1>1, <2>3, SameCall
<1>5. Slots' = Slots /\ \A s : IsKind(s, "Jump")' = IsKind(s, "Jump")
  BY <1>1, Steady DEF IsKind, Slot
<1>6. WidthsStillFit'
  BY <1>1, <1>3, <1>4, <1>5 DEF WidthsStillFit
<1>7. ASSUME NEW s \in far' PROVE ~FitsI8(JumpOff(s, far \ {s}, {})')
  BY <1>1, SameJump DEF RelaxInv
<1>8. WellFormed(program') /\ far' \subseteq Jumps' /\ short' \subseteq Calls'
  BY <1>1, <1>2, Steady
<1>9. QED
  BY <1>1, <1>6, <1>7, <1>8 DEF RelaxInv

\* A step that changes no width.
LEMMA WidthsKept ==
  ASSUME RelaxInv, UNCHANGED <<program, far, short>>,
         \/ stage' = stage
         \/ stage' = "error"
         \/ stage = "shrinking" /\ stage' = "linked"
  PROVE  RelaxInv'
<1>1. /\ program' = program /\ far' = far /\ short' = short /\ WellFormed(program)
      /\ far \subseteq Jumps /\ short \subseteq Calls
  BY DEF RelaxInv
<1>2. ASSUME NEW s \in far' PROVE ~FitsI8(JumpOff(s, far \ {s}, {})')
  BY <1>1, SameJump DEF RelaxInv
<1>3. Slots' = Slots /\ \A s : IsKind(s, "Jump")' = IsKind(s, "Jump")
  BY <1>1, Steady DEF IsKind, Slot
<1>4. ASSUME stage' \in {"shrinking", "linked"} PROVE stage \in {"shrinking", "linked"}
  BY <1>4
<1>5. ASSUME stage' \in {"shrinking", "linked"}
      PROVE  /\ \A s \in Slots \ far : IsKind(s, "Jump") => FitsI8(JumpOff(s, far, short)')
             /\ \A s \in short : FitsI8(CallOff(s, far, short)')
  BY <1>1, <1>4, <1>5, SameJump, SameCall DEF RelaxInv, WidthsStillFit
<1>6. WidthsStillFit'
  BY <1>1, <1>3, <1>5 DEF WidthsStillFit
<1>7. WellFormed(program') /\ far' \subseteq Jumps' /\ short' \subseteq Calls'
  BY <1>1, Steady
<1>8. stage' \in {"assembling", "shrinking", "linked", "error"}
      /\ (stage' = "assembling" => short' = {})
  BY <1>1 DEF RelaxInv
<1>9. QED
  BY <1>1, <1>2, <1>6, <1>7, <1>8 DEF RelaxInv

\* Every reachable state keeps to the invariant: what the passes have chosen
\* is not undone by what they choose next.
THEOREM RelaxInvariant == Spec => []RelaxInv
<1>1. ASSUME RelaxInv, [Next]_vars PROVE RelaxInv'
  <2>1. CASE UNCHANGED vars
    BY <1>1, <2>1, WidthsKept DEF vars
  <2>2. ASSUME NEW f \in Fns, Grow(f) PROVE RelaxInv'
    BY <1>1, <2>2, GrowKeeps
  <2>3. ASSUME NEW f \in Fns, ShortOffsetOutOfRange(f) PROVE RelaxInv'
    BY <1>1, <2>3, WidthsKept DEF ShortOffsetOutOfRange
  <2>4. CASE Assembled
    BY <1>1, <2>4, AssembledKeeps
  <2>5. CASE Shrink
    BY <1>1, <2>5, ShrinkKeeps
  <2>6. CASE LaidOut
    BY <1>1, <2>6, WidthsKept DEF LaidOut
  <2>7. QED
    BY <1>1, <2>1, <2>2, <2>3, <2>4, <2>5, <2>6 DEF Next
<1>2. QED
  BY <1>1, RelaxInvInit, PTL DEF Spec

\* Once a width is chosen it holds: the linker's passes move everything and
\* still leave every short jump the assembler measured, and every short call
\* an earlier pass measured, within its signed byte, in programs of any size.
THEOREM WidthsHold == Spec => []WidthsStillFit
<1>1. RelaxInv => WidthsStillFit
  BY DEF RelaxInv
<1>2. QED
  BY <1>1, RelaxInvariant, PTL

\* No jump is long for nothing: when the assembler is done, each jump it grew
\* would be out of reach as a short one among the widths it ended with.
THEOREM FarJumpsNeeded == Spec => []NoNeedlessFarJump
<1>1. RelaxInv => NoNeedlessFarJump
  BY DEF RelaxInv, NoNeedlessFarJump
<1>2. QED
  BY <1>1, RelaxInvariant, PTL

===============================================================================
