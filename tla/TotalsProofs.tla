---------------------------- MODULE TotalsProofs ----------------------------
(***************************************************************************)
(* Facts the components' proofs share: induction and loops, what the       *)
(* running total of a sequence of integers does when an element is added,  *)
(* removed, replaced or inserted, what the sum over a finite set is when   *)
(* the set is divided, how an amount is shared in proportion, and how a    *)
(* timeline is ordered.                                                    *)
(***************************************************************************)
EXTENDS Totals, Timelines, SequencesExt, SequenceTheorems, FiniteSetTheorems,
        NaturalsInduction, WellFoundedInduction, TLAPS

(***************************************************************************)
(* Induction for a set: one that has 0 and with every number the next one  *)
(* has them all.                                                           *)
(***************************************************************************)
LEMMA EveryNumber ==
  ASSUME NEW S, 0 \in S, \A n \in Nat : n \in S => n + 1 \in S
  PROVE  Nat \subseteq S
<1> DEFINE Less == { ss \in Nat \X Nat : ss[1] < ss[2] }
<1> SUFFICES ASSUME Nat \ S # {} PROVE FALSE
  OBVIOUS
<1>1. PICK x \in Nat \ S : \A y \in Nat \ S : ~(<< y, x >> \in Less)
  <2>1. IsWellFoundedOn(Less, Nat)
    BY NatLessThanWellFounded DEF OpToRel
  <2> HIDE DEF Less
  <2> QED BY <2>1, WFMin
<1>2. x - 1 \in Nat /\ x - 1 + 1 = x /\ x - 1 < x
  BY <1>1
<1>3. x - 1 \in Nat \ S
  BY <1>1, <1>2
<1>4. << x - 1, x >> \in Less
  BY <1>1, <1>2
<1> QED BY <1>1, <1>3, <1>4

\* A set of numbers has a least one.
Below == OpToRel(<, Nat)

LEMMA BelowWellFounded == IsWellFoundedOn(Below, Nat)
BY NatLessThanWellFounded DEF Below

LEMMA LeastExists ==
  ASSUME NEW S \in SUBSET Nat, S # {}
  PROVE  \E x \in S : \A y \in S : x <= y
<1>1. PICK x \in S : \A y \in S : ~(<< y, x >> \in Below)
  BY BelowWellFounded, WFMin
<1>2. ASSUME NEW y \in S PROVE x <= y
  <2>1. y \in Nat /\ x \in Nat
    OBVIOUS
  <2>2. ~(<< y, x >> \in Below)
    BY <1>1
  <2>3. y < x => << y, x >> \in Below
    BY <2>1 DEF Below, OpToRel
  <2> QED BY <2>1, <2>2, <2>3
<1> QED BY <1>2

IsRunning(f, d) ==
  /\ f \in [0..Len(d) -> Int] /\ f[0] = 0
  /\ \A k \in 1..Len(d) : f[k] = f[k - 1] + d[k]

LEMMA RunningExists ==
  ASSUME NEW d \in Seq(Int)
  PROVE  \E f : IsRunning(f, d)
<1> DEFINE Upto(n, f) == /\ f \in [0..n -> Int] /\ f[0] = 0
                         /\ \A k \in 1..n : f[k] = f[k - 1] + d[k]
           S == { n \in Nat : n <= Len(d) => \E f : Upto(n, f) }
<1>1. 0 \in S
  <2>1. Upto(0, [k \in 0..0 |-> 0])
    OBVIOUS
  <2> QED BY <2>1
<1>2. ASSUME NEW n \in Nat, n \in S PROVE n + 1 \in S
  <2>0. SUFFICES ASSUME n + 1 <= Len(d) PROVE \E f : Upto(n + 1, f)
    <3> HIDE DEF Upto
    <3> QED BY <2>0
  <2>1. PICK f : Upto(n, f)
    <3>1. n <= Len(d) => \E f : Upto(n, f)
      <4> HIDE DEF Upto
      <4> QED BY <1>2
    <3>2. n <= Len(d)
      BY <2>0
    <3> HIDE DEF Upto
    <3> QED BY <3>1, <3>2
  <2> DEFINE g == [k \in 0..(n + 1) |-> IF k = n + 1 THEN f[n] + d[n + 1] ELSE f[k]]
  <2>2. d[n + 1] \in Int /\ f[n] \in Int
    BY <2>0, <2>1
  <2>3. g \in [0..(n + 1) -> Int] /\ g[0] = 0
    BY <2>1, <2>2
  <2>4. ASSUME NEW k \in 1..(n + 1) PROVE g[k] = g[k - 1] + d[k]
    BY <2>1, <2>2, SMTT(40)
  <2> QED BY <2>3, <2>4
<1>3. Len(d) \in S
  <2> HIDE DEF S
  <2> QED BY <1>1, <1>2, EveryNumber, SMTT(40)
<1> QED BY <1>3 DEF IsRunning

LEMMA RunningUnique ==
  ASSUME NEW d \in Seq(Int), NEW f, NEW g, IsRunning(f, d), IsRunning(g, d)
  PROVE  f = g
<1> DEFINE S == { n \in Nat : n <= Len(d) => f[n] = g[n] }
<1>1. 0 \in S
  BY DEF IsRunning
<1>2. ASSUME NEW n \in Nat, n \in S PROVE n + 1 \in S
  BY <1>2 DEF IsRunning
<1>3. Nat \subseteq S
  <2> HIDE DEF S
  <2> QED BY <1>1, <1>2, EveryNumber
<1> QED BY <1>3 DEF IsRunning

LEMMA TotalIs ==
  ASSUME NEW d \in Seq(Int), NEW f, IsRunning(f, d)
  PROVE  Total(d) = f[Len(d)]
<1> DEFINE Solves(g) == g = [k \in 0..Len(d) |-> IF k = 0 THEN 0 ELSE g[k - 1] + d[k]]
           h == CHOOSE g : Solves(g)
<1>1. Solves(f)
  BY DEF IsRunning
<1>2. Solves(h)
  BY <1>1
<1>3. IsRunning(h, d)
  <2> DEFINE S == { n \in Nat : n <= Len(d) => h[n] \in Int }
  <2>0. \A k \in 0..Len(d) : h[k] = IF k = 0 THEN 0 ELSE h[k - 1] + d[k]
    BY <1>2
  <2>1. DOMAIN h = 0..Len(d) /\ h = [k \in 0..Len(d) |-> h[k]]
    BY <1>2
  <2> HIDE DEF h
  <2>2. 0 \in S
    BY <2>0
  <2>3. ASSUME NEW n \in Nat, n \in S PROVE n + 1 \in S
    BY <2>0, <2>3
  <2>4. Nat \subseteq S
    <3> HIDE DEF S
    <3> QED BY <2>2, <2>3, EveryNumber
  <2>5. h \in [0..Len(d) -> Int]
    BY <2>1, <2>4
  <2> QED BY <2>0, <2>5 DEF IsRunning
<1>4. h = f
  <2> HIDE DEF h
  <2> QED BY <1>3, RunningUnique
<1>5. Total(d) = h[Len(d)]
  BY DEF Total
<1> QED BY <1>4, <1>5

-----------------------------------------------------------------------------
(* The total of a changed sequence. *)

LEMMA TotalInt == ASSUME NEW d \in Seq(Int) PROVE Total(d) \in Int
<1>1. PICK f : IsRunning(f, d)
  BY RunningExists
<1>2. Total(d) = f[Len(d)]
  BY <1>1, TotalIs
<1> QED BY <1>1, <1>2 DEF IsRunning

LEMMA TotalOfNone == Total(<< >>) = 0
<1> DEFINE f == [k \in 0..0 |-> 0]
<1>1. IsRunning(f, << >>)
  BY DEF IsRunning
<1> QED BY <1>1, TotalIs

LEMMA RunningFacts ==
  ASSUME NEW d \in Seq(Int), NEW f, IsRunning(f, d)
  PROVE  /\ Len(d) \in Nat /\ f[0] = 0
         /\ \A k \in 0..Len(d) : f[k] \in Int
         /\ \A k \in 1..Len(d) : d[k] \in Int /\ f[k] = f[k - 1] + d[k]
<1>1. \A k \in 0..Len(d) : f[k] \in Int
  BY DEF IsRunning
<1>2. \A k \in 1..Len(d) : d[k] \in Int
  OBVIOUS
<1> QED BY <1>1, <1>2 DEF IsRunning

LEMMA TotalJoined ==
  ASSUME NEW d \in Seq(Int), NEW e \in Seq(Int), NEW c \in Seq(Int),
         Len(c) = Len(d) + Len(e),
         \A k \in 1..Len(c) : c[k] = IF k <= Len(d) THEN d[k] ELSE e[k - Len(d)]
  PROVE  Total(c) = Total(d) + Total(e)
<1>1. PICK f : IsRunning(f, d)
  BY RunningExists
<1>2. PICK g : IsRunning(g, e)
  BY RunningExists
<1> DEFINE h == [k \in 0..(Len(d) + Len(e)) |->
                   IF k <= Len(d) THEN f[k] ELSE f[Len(d)] + g[k - Len(d)]]
<1>3. /\ Len(c) = Len(d) + Len(e)
      /\ \A k \in 1..(Len(d) + Len(e)) :
            c[k] = IF k <= Len(d) THEN d[k] ELSE e[k - Len(d)]
  OBVIOUS
<1>4. /\ Len(d) \in Nat /\ Len(e) \in Nat
      /\ \A k \in 0..Len(d) : f[k] \in Int
      /\ \A k \in 0..Len(e) : g[k] \in Int
  <2>1. \A k \in 0..Len(d) : f[k] \in Int
    BY <1>1 DEF IsRunning
  <2>2. \A k \in 0..Len(e) : g[k] \in Int
    BY <1>2 DEF IsRunning
  <2> QED BY <2>1, <2>2
<1>5. IsRunning(h, c)
  <2>1. h \in [0..Len(c) -> Int]
    <3>1. ASSUME NEW k \in 0..(Len(d) + Len(e)), ~(k <= Len(d)) PROVE k - Len(d) \in 0..Len(e)
      BY <1>4, <3>1
    <3>2. Len(d) \in 0..Len(d)
      BY <1>4
    <3>3. ASSUME NEW k \in 0..(Len(d) + Len(e)) PROVE h[k] \in Int
      <4>1. CASE k <= Len(d)
        BY <1>4, <4>1
      <4>2. CASE ~(k <= Len(d))
        <5>1. f[Len(d)] \in Int /\ g[k - Len(d)] \in Int
          BY <1>4, <3>1, <3>2, <4>2
        <5>2. h[k] = f[Len(d)] + g[k - Len(d)]
          BY <4>2
        <5>3. f[Len(d)] + g[k - Len(d)] \in Int
          BY <5>1
        <5> QED BY <5>2, <5>3
      <4> QED BY <4>1, <4>2
    <3> QED BY <1>3, <3>3
  <2>2. h[0] = 0
    BY <1>1, <1>4 DEF IsRunning
  <2>3. ASSUME NEW k \in 1..Len(c) PROVE h[k] = h[k - 1] + (c)[k]
    <3>1. CASE k <= Len(d)
      <4>1. k \in 1..Len(d) /\ k - 1 <= Len(d) /\ k - 1 \in 0..(Len(d) + Len(e))
        BY <1>4, <3>1, SMTT(40)
      <4>2. f[k] = f[k - 1] + d[k]
        BY <1>1, <4>1, RunningFacts
      <4>3. h[k] = f[k] /\ h[k - 1] = f[k - 1] /\ c[k] = d[k]
        BY <1>3, <1>4, <3>1, <4>1
      <4> HIDE DEF h
      <4> QED BY <4>2, <4>3
    <3>2. CASE k = Len(d) + 1
      <4>1. k - Len(d) = 1 /\ ~(k <= Len(d)) /\ k - 1 = Len(d) /\ 1 \in 1..Len(e)
        BY <1>3, <1>4, <3>2
      <4>2. g[1] = g[1 - 1] + e[1] /\ g[0] = 0 /\ e[1] \in Int
        BY <1>2, <4>1, RunningFacts
      <4>3. g[1] = e[1]
        <5>1. 1 - 1 = 0 /\ \A a \in Int : 0 + a = a
          OBVIOUS
        <5> HIDE DEF h
        <5> QED BY <4>2, <5>1
      <4>4. h[k] = f[Len(d)] + g[1] /\ h[k - 1] = f[Len(d)] /\ c[k] = e[1]
        BY <1>3, <1>4, <4>1, SMTT(40)
      <4> HIDE DEF h
      <4> QED BY <4>3, <4>4
    <3>3. CASE k > Len(d) + 1
      <4>1. /\ k - Len(d) \in 1..Len(e) /\ (k - 1) - Len(d) = (k - Len(d)) - 1
            /\ (k - Len(d)) - 1 \in 0..Len(e)
        BY <1>3, <3>3, SMTT(40)
      <4>2. g[k - Len(d)] = g[(k - Len(d)) - 1] + e[k - Len(d)]
        BY <1>2, <4>1 DEF IsRunning
      <4>3. h[k] = f[Len(d)] + g[k - Len(d)] /\ h[k - 1] = f[Len(d)] + g[(k - Len(d)) - 1]
        BY <1>3, <3>3, <4>1, SMTT(40)
      <4>4. f[Len(d)] \in Int /\ g[(k - Len(d)) - 1] \in Int
        BY <1>4, <4>1
      <4>5. e[k - Len(d)] \in Int
        BY <4>1
      <4>6. c[k] = e[k - Len(d)]
        BY <1>3, <1>4, <3>3
      <4>7. \A a, b, x \in Int : a + (b + x) = (a + b) + x
        OBVIOUS
      <4>8. f[Len(d)] + (g[(k - Len(d)) - 1] + e[k - Len(d)])
              = (f[Len(d)] + g[(k - Len(d)) - 1]) + e[k - Len(d)]
        BY <4>4, <4>5, <4>7
      <4> HIDE DEF h
      <4> QED BY <4>2, <4>3, <4>6, <4>8
    <3>4. k \in Nat /\ Len(d) \in Nat
      BY <1>3, <1>4
    <3>5. k <= Len(d) \/ k = Len(d) + 1 \/ k > Len(d) + 1
      BY <3>4
    <3> QED BY <3>1, <3>2, <3>3, <3>5
  <2> QED BY <1>3, <2>1, <2>2, <2>3 DEF IsRunning
<1>6. Total(c) = h[Len(d) + Len(e)]
  BY <1>3, <1>5, TotalIs
<1>7. Total(d) = f[Len(d)] /\ Total(e) = g[Len(e)]
  BY <1>1, <1>2, TotalIs
<1>8. h[Len(d) + Len(e)] = f[Len(d)] + g[Len(e)]
  <2>1. Len(d) + Len(e) \in 0..(Len(d) + Len(e)) /\ (Len(d) + Len(e)) - Len(d) = Len(e)
    BY <1>4
  <2>2. CASE Len(e) = 0
    <3>1. g[0] = 0 /\ f[Len(d)] \in Int
      BY <1>2, <1>4 DEF IsRunning
    <3> QED BY <1>4, <2>1, <2>2, <3>1
  <2>3. CASE Len(e) > 0
    BY <1>4, <2>1, <2>3
  <2> QED BY <1>4, <2>2, <2>3
<1> QED BY <1>6, <1>7, <1>8

LEMMA TotalExtended ==
  ASSUME NEW d \in Seq(Int), NEW e \in Seq(Int), Len(e) = Len(d) + 1,
         \A k \in 1..Len(d) : e[k] = d[k]
  PROVE  Total(e) = Total(d) + e[Len(e)]
<1>1. PICK f : IsRunning(f, e)
  BY RunningExists
<1> DEFINE g == [k \in 0..Len(d) |-> f[k]]
<1>2. IsRunning(g, d)
  BY <1>1 DEF IsRunning
<1>3. Total(e) = f[Len(e)] /\ Total(d) = f[Len(d)]
  <2>1. Total(d) = g[Len(d)]
    <3> HIDE DEF g
    <3> QED BY <1>2, TotalIs
  <2> QED BY <1>1, <2>1, TotalIs
<1>4. f[Len(e)] = f[Len(d)] + e[Len(e)]
  <2>1. Len(e) \in 1..Len(e) /\ Len(e) - 1 = Len(d)
    OBVIOUS
  <2>2. f[Len(e)] = f[Len(e) - 1] + e[Len(e)]
    BY <1>1, <2>1 DEF IsRunning
  <2> QED BY <2>1, <2>2
<1> QED BY <1>3, <1>4

LEMMA TotalReplaced ==
  ASSUME NEW d \in Seq(Int), NEW e \in Seq(Int), NEW i \in 1..Len(d), Len(e) = Len(d),
         \A k \in 1..Len(d) : k # i => e[k] = d[k]
  PROVE  Total(e) = Total(d) - d[i] + e[i]
<1>1. PICK f : IsRunning(f, d)
  BY RunningExists
<1> DEFINE g == [k \in 0..Len(d) |-> IF k < i THEN f[k] ELSE (f[k] - d[i]) + e[i]]
<1>2. /\ Len(d) \in Nat /\ f[0] = 0
      /\ \A k \in 0..Len(d) : f[k] \in Int
      /\ \A k \in 1..Len(d) : d[k] \in Int /\ f[k] = f[k - 1] + d[k]
  BY <1>1, RunningFacts
<1>3. d[i] \in Int /\ e[i] \in Int /\ i \in Nat
  BY <1>2
<1>4. IsRunning(g, e)
  <2>1. ASSUME NEW k \in 0..Len(d) PROVE g[k] \in Int
    BY <1>2, <1>3, SMTT(40)
  <2>2. g[0] = 0
    BY <1>2, <1>3
  <2>3. ASSUME NEW k \in 1..Len(d) PROVE g[k] = g[k - 1] + e[k]
    <3>1. f[k] = f[k - 1] + d[k] /\ d[k] \in Int
      BY <1>2
    <3>0. k - 1 \in 0..Len(d) /\ k \in 0..Len(d)
      BY <1>2
    <3>11. f[k - 1] \in Int
      BY <1>2, <3>0
    <3>2. CASE k < i
      <4>1. g[k] = f[k] /\ g[k - 1] = f[k - 1] /\ e[k] = d[k]
        BY <1>2, <1>3, <3>0, <3>2
      <4> QED BY <3>1, <4>1
    <3>3. CASE k = i
      <4>1. g[k] = (f[k] - d[i]) + e[i] /\ g[k - 1] = f[k - 1]
        BY <1>2, <1>3, <3>0, <3>3
      <4> QED BY <1>3, <3>1, <3>11, <3>3, <4>1
    <3>4. CASE k > i
      <4>1. e[k] = d[k]
        BY <1>2, <1>3, <3>4
      <4>2. g[k] = (f[k] - d[i]) + e[i] /\ g[k - 1] = (f[k - 1] - d[i]) + e[i]
        BY <1>2, <1>3, <3>0, <3>4, SMTT(40)
      <4> HIDE DEF g
      <4> QED BY <1>3, <3>1, <3>11, <4>1, <4>2, SMTT(40)
    <3> QED BY <1>2, <1>3, <3>2, <3>3, <3>4
  <2> QED BY <2>1, <2>2, <2>3 DEF IsRunning
<1>5. Total(d) = f[Len(d)] /\ Total(e) = g[Len(d)]
  <2> HIDE DEF g
  <2> QED BY <1>1, <1>4, TotalIs
<1>6. g[Len(d)] = (f[Len(d)] - d[i]) + e[i]
  BY <1>2, <1>3
<1>7. f[Len(d)] \in Int
  BY <1>2
<1> QED BY <1>3, <1>5, <1>6, <1>7

LEMMA TotalRemoved ==
  ASSUME NEW d \in Seq(Int), NEW e \in Seq(Int), NEW i \in 1..Len(d), Len(e) = Len(d) - 1,
         \A k \in 1..(Len(d) - 1) : e[k] = IF k < i THEN d[k] ELSE d[k + 1]
  PROVE  Total(e) = Total(d) - d[i]
<1>1. PICK f : IsRunning(f, d)
  BY RunningExists
<1> DEFINE g == [k \in 0..(Len(d) - 1) |-> IF k < i THEN f[k] ELSE f[k + 1] - d[i]]
<1>2. /\ Len(d) \in Nat /\ f[0] = 0
      /\ \A k \in 0..Len(d) : f[k] \in Int
      /\ \A k \in 1..Len(d) : d[k] \in Int /\ f[k] = f[k - 1] + d[k]
  BY <1>1, RunningFacts
<1>3. d[i] \in Int /\ i \in Nat
  BY <1>2
<1>4. IsRunning(g, e)
  <2>1. ASSUME NEW k \in 0..(Len(d) - 1) PROVE g[k] \in Int
    <3>1. k \in 0..Len(d) /\ k + 1 \in 0..Len(d)
      BY <1>2
    <3>2. f[k] \in Int /\ f[k + 1] \in Int
      BY <1>2, <3>1
    <3>3. f[k + 1] - d[i] \in Int
      BY <1>3, <3>2, SMTT(40)
    <3> QED BY <3>2, <3>3
  <2>2. g[0] = 0
    BY <1>2, <1>3
  <2>3. ASSUME NEW k \in 1..(Len(d) - 1) PROVE g[k] = g[k - 1] + e[k]
    <3>0. /\ k - 1 \in 0..Len(d) /\ k \in 1..Len(d) /\ k + 1 \in 1..Len(d)
          /\ (k + 1) - 1 = k /\ (k - 1) + 1 = k
          /\ k - 1 \in 0..(Len(d) - 1) /\ k \in 0..(Len(d) - 1) /\ k \in 0..Len(d)
      BY <1>2, SMTT(40)
    <3>1. /\ f[k] = f[k - 1] + d[k] /\ d[k] \in Int
          /\ f[k + 1] = f[(k + 1) - 1] + d[k + 1] /\ d[k + 1] \in Int
      BY <1>2, <3>0
    <3>11. f[k - 1] \in Int /\ f[k] \in Int
      BY <1>2, <3>0
    <3>12. f[k + 1] = f[k] + d[k + 1]
      BY <3>0, <3>1
    <3>13. f[k + 1] - d[i] = (f[k] - d[i]) + d[k + 1]
      <4>1. \A a, b, x \in Int : (a + b) - x = (a - x) + b
        OBVIOUS
      <4>2. (f[k] + d[k + 1]) - d[i] = (f[k] - d[i]) + d[k + 1]
        BY <1>3, <3>1, <3>11, <4>1, ZenonT(60)
      <4> QED BY <3>12, <4>2
    <3>2. CASE k < i
      <4>1. g[k] = f[k] /\ g[k - 1] = f[k - 1] /\ e[k] = d[k]
        BY <1>2, <1>3, <3>0, <3>2
      <4> QED BY <3>1, <4>1
    <3>3. CASE k = i
      <4>1. g[k] = f[k + 1] - d[i] /\ g[k - 1] = f[k - 1] /\ e[k] = d[k + 1]
        BY <1>2, <1>3, <3>0, <3>3
      <4>2. f[k] - d[i] = f[k - 1]
        <5>1. \A a, x \in Int : (a + x) - x = a
          OBVIOUS
        <5>2. (f[k - 1] + d[k]) - d[k] = f[k - 1]
          BY <3>1, <3>11, <5>1
        <5> QED BY <3>1, <3>3, <5>2
      <4> HIDE DEF g
      <4> QED BY <3>13, <4>1, <4>2
    <3>4. CASE k > i
      <4>0. ~(k < i) /\ ~(k - 1 < i)
        BY <1>2, <1>3, <3>4
      <4>1. g[k] = f[k + 1] - d[i] /\ g[k - 1] = f[(k - 1) + 1] - d[i]
        BY <3>0, <4>0
      <4>2. e[k] = d[k + 1]
        BY <4>0
      <4> HIDE DEF g
      <4> QED BY <3>0, <3>13, <4>1, <4>2
    <3> QED BY <1>2, <1>3, <3>2, <3>3, <3>4
  <2>4. Len(e) = Len(d) - 1
    OBVIOUS
  <2>5. g \in [0..Len(e) -> Int]
    BY <2>1, <2>4
  <2> HIDE DEF g
  <2> QED BY <2>2, <2>3, <2>4, <2>5 DEF IsRunning
<1>5. Total(d) = f[Len(d)] /\ Total(e) = g[Len(d) - 1]
  <2> HIDE DEF g
  <2> QED BY <1>1, <1>4, TotalIs
<1>0. Len(d) \in 1..Len(d) /\ Len(d) - 1 \in 0..(Len(d) - 1) /\ Len(d) - 1 \in 0..Len(d)
  BY <1>2, <1>3
<1>6. f[Len(d)] = f[Len(d) - 1] + d[Len(d)] /\ d[Len(d)] \in Int /\ f[Len(d) - 1] \in Int
  BY <1>2, <1>0
<1>7. g[Len(d) - 1] = f[Len(d)] - d[i]
  <2>1. CASE i = Len(d)
    <3>1. g[Len(d) - 1] = f[Len(d) - 1]
      BY <1>0, <1>2, <2>1
    <3> HIDE DEF g
    <3> QED BY <1>6, <2>1, <3>1
  <2>2. CASE i # Len(d)
    <3>1. ~(Len(d) - 1 < i) /\ (Len(d) - 1) + 1 = Len(d)
      BY <1>2, <1>3, <2>2
    <3> QED BY <1>0, <3>1
  <2> QED BY <2>1, <2>2
<1> HIDE DEF g
<1> QED BY <1>5, <1>7

LEMMA TotalScaled ==
  ASSUME NEW d \in Seq(Int), NEW e \in Seq(Int), NEW r \in Int,
         Len(e) = Len(d), \A k \in 1..Len(d) : e[k] = d[k] * r
  PROVE  Total(e) = Total(d) * r
<1>1. PICK f : IsRunning(f, d)
  BY RunningExists
<1> DEFINE g == [k \in 0..Len(d) |-> f[k] * r]
<1>2. \A k \in 0..Len(d) : f[k] \in Int
  BY <1>1 DEF IsRunning
<1>3. ASSUME NEW a \in Int, NEW b \in Int PROVE (a + b) * r = a * r + b * r
  OBVIOUS
<1>4. IsRunning(g, e)
  <2>1. g \in [0..Len(e) -> Int]
    BY <1>2
  <2>2. g[0] = 0
    BY <1>1 DEF IsRunning
  <2>3. ASSUME NEW k \in 1..Len(e) PROVE g[k] = g[k - 1] + e[k]
    <3>1. k \in 0..Len(d) /\ k - 1 \in 0..Len(d) /\ k \in 1..Len(d)
      OBVIOUS
    <3>2. f[k] = f[k - 1] + d[k] /\ f[k - 1] \in Int /\ d[k] \in Int
      BY <1>1, <1>2, <3>1 DEF IsRunning
    <3>3. (f[k - 1] + d[k]) * r = f[k - 1] * r + d[k] * r
      BY <1>3, <3>2
    <3> QED BY <3>1, <3>2, <3>3
  <2> QED BY <2>1, <2>2, <2>3 DEF IsRunning
<1>5. Total(e) = g[Len(d)] /\ Total(d) = f[Len(d)]
  <2> HIDE DEF g
  <2> QED BY <1>1, <1>4, TotalIs
<1> QED BY <1>5

(***************************************************************************)
(* The total of two sequences added element by element.                    *)
(***************************************************************************)
LEMMA TotalAdded ==
  ASSUME NEW d \in Seq(Int), NEW e \in Seq(Int), NEW c \in Seq(Int),
         Len(e) = Len(d), Len(c) = Len(d), \A k \in 1..Len(d) : c[k] = d[k] + e[k]
  PROVE  Total(c) = Total(d) + Total(e)
<1>1. PICK f : IsRunning(f, d)
  BY RunningExists
<1>2. PICK g : IsRunning(g, e)
  BY RunningExists
<1> DEFINE h == [k \in 0..Len(d) |-> f[k] + g[k]]
<1>3. \A k \in 0..Len(d) : f[k] \in Int /\ g[k] \in Int
  BY <1>1, <1>2 DEF IsRunning
<1>4. \A x, y, u, v \in Int : (x + u) + (y + v) = (x + y) + (u + v)
  OBVIOUS
<1>5. IsRunning(h, c)
  <2>1. h \in [0..Len(c) -> Int] /\ h[0] = 0
    <3>1. f[0] = 0 /\ g[0] = 0
      BY <1>1, <1>2 DEF IsRunning
    <3> QED BY <1>3, <3>1
  <2>2. ASSUME NEW k \in 1..Len(c) PROVE h[k] = h[k - 1] + c[k]
    <3>1. k \in 0..Len(d) /\ k - 1 \in 0..Len(d) /\ k \in 1..Len(d) /\ k \in 1..Len(e)
      OBVIOUS
    <3>2. f[k] = f[k - 1] + d[k] /\ f[k - 1] \in Int /\ d[k] \in Int
      BY <1>1, <1>3, <3>1 DEF IsRunning
    <3>3. g[k] = g[k - 1] + e[k] /\ g[k - 1] \in Int /\ e[k] \in Int
      BY <1>2, <1>3, <3>1, SMTT(40) DEF IsRunning
    <3>4. (f[k - 1] + d[k]) + (g[k - 1] + e[k]) = (f[k - 1] + g[k - 1]) + (d[k] + e[k])
      BY <1>4, <3>2, <3>3, SMTT(40), ZenonT(60)
    <3>5. h[k] = f[k] + g[k] /\ h[k - 1] = f[k - 1] + g[k - 1]
      BY <3>1
    <3> QED BY <3>1, <3>2, <3>3, <3>4, <3>5
  <2> QED BY <2>1, <2>2 DEF IsRunning
<1>6. Total(c) = h[Len(d)] /\ Total(d) = f[Len(d)] /\ Total(e) = g[Len(d)]
  <2> HIDE DEF h
  <2> QED BY <1>1, <1>2, <1>5, TotalIs
<1> QED BY <1>6

(***************************************************************************)
(* A total of positive quantities is positive.                             *)
(***************************************************************************)
LEMMA TotalPositive ==
  ASSUME NEW d \in Seq(Int), d # << >>, \A k \in 1..Len(d) : d[k] > 0
  PROVE  Total(d) > 0
<1>1. PICK f : IsRunning(f, d)
  BY RunningExists
<1>2. \A k \in 0..Len(d) : f[k] \in Int
  BY <1>1 DEF IsRunning
<1> DEFINE S == { n \in Nat : n + 1 <= Len(d) => f[n + 1] > 0 }
<1>3. 0 \in S
  BY <1>1, <1>2 DEF IsRunning
<1>4. ASSUME NEW n \in Nat, n \in S PROVE n + 1 \in S
  <2>0. SUFFICES ASSUME (n + 1) + 1 <= Len(d) PROVE f[(n + 1) + 1] > 0
    OBVIOUS
  <2>1. f[(n + 1) + 1] = f[n + 1] + d[(n + 1) + 1]
    BY <1>1, <2>0 DEF IsRunning
  <2>2. f[n + 1] > 0
    BY <1>4, <2>0
  <2>3. f[n + 1] \in Int /\ d[(n + 1) + 1] \in Int /\ d[(n + 1) + 1] > 0
    BY <1>2, <2>0
  <2> QED BY <2>1, <2>2, <2>3
<1>5. Nat \subseteq S
  <2> HIDE DEF S
  <2> QED BY <1>3, <1>4, EveryNumber
<1>6. Len(d) - 1 \in Nat /\ (Len(d) - 1) + 1 = Len(d)
  OBVIOUS
<1>7. f[Len(d)] > 0
  BY <1>5, <1>6
<1> QED BY <1>1, <1>7, TotalIs

-----------------------------------------------------------------------------
(***************************************************************************)
(* Induction over the subsets of a finite set: a collection that has a     *)
(* subset whenever it has all that lack one element of it has them all.    *)
(***************************************************************************)
LEMMA EverySubset ==
  ASSUME NEW S, IsFiniteSet(S), NEW F,
         \A T \in SUBSET S : (\A x \in T : T \ {x} \in F) => T \in F
  PROVE  SUBSET S \subseteq F
<1> DEFINE N == { n \in Nat : \A T \in SUBSET S : Cardinality(T) = n => T \in F }
<1>0. ASSUME NEW T \in SUBSET S
      PROVE  /\ IsFiniteSet(T) /\ Cardinality(T) \in Nat
             /\ \A x \in T : T \ {x} \in SUBSET S /\ Cardinality(T \ {x}) = Cardinality(T) - 1
  BY FS_Subset, FS_CardinalityType, FS_RemoveElement
<1>1. 0 \in N
  <2> SUFFICES ASSUME NEW T \in SUBSET S, Cardinality(T) = 0 PROVE T \in F
    OBVIOUS
  <2>1. T = {}
    BY <1>0, FS_EmptySet
  <2> QED BY <2>1
<1>2. ASSUME NEW n \in Nat, n \in N PROVE n + 1 \in N
  <2> SUFFICES ASSUME NEW T \in SUBSET S, Cardinality(T) = n + 1 PROVE T \in F
    OBVIOUS
  <2>1. ASSUME NEW x \in T PROVE T \ {x} \in F
    <3>1. T \ {x} \in SUBSET S /\ Cardinality(T \ {x}) = n
      BY <1>0
    <3> QED BY <3>1, <1>2
  <2> QED BY <2>1
<1>3. Nat \subseteq N
  <2> HIDE DEF N
  <2> QED BY <1>1, <1>2, EveryNumber
<1> QED BY <1>0, <1>3

-----------------------------------------------------------------------------
(***************************************************************************)
(* Sums of integers over a finite set (SumFunction).                       *)
(***************************************************************************)
Chosen(s) == CHOOSE x \in s : TRUE

\* g[s] is what the sum over s is defined from.
IsTally(g, f, S) ==
  g = [s \in SUBSET S |-> IF s = {} THEN 0 ELSE f[Chosen(s)] + g[s \ {Chosen(s)}]]

LEMMA TallyExists ==
  ASSUME NEW f, NEW S, IsFiniteSet(S)
  PROVE  \E g : IsTally(g, f, S)
<1> DEFINE Small(n) == { s \in SUBSET S : Cardinality(s) <= n }
           Upto(g, n) == g = [s \in Small(n) |-> IF s = {} THEN 0
                                                 ELSE f[Chosen(s)] + g[s \ {Chosen(s)}]]
           N == { n \in Nat : \E g : Upto(g, n) }
<1>0. ASSUME NEW s \in SUBSET S
      PROVE  /\ Cardinality(s) \in Nat /\ Cardinality(s) <= Cardinality(S)
             /\ s # {} => /\ Chosen(s) \in s /\ s \ {Chosen(s)} \in SUBSET S
                          /\ Cardinality(s \ {Chosen(s)}) = Cardinality(s) - 1
             /\ Cardinality(s) = 0 => s = {}
  BY FS_Subset, FS_CardinalityType, FS_RemoveElement, FS_EmptySet DEF Chosen
<1>1. 0 \in N
  <2>1. Upto([s \in Small(0) |-> 0], 0)
    BY <1>0
  <2> QED BY <2>1
<1>2. ASSUME NEW n \in Nat, n \in N PROVE n + 1 \in N
  <2>1. PICK g : Upto(g, n)
    <3> HIDE DEF Upto
    <3> QED BY <1>2
  <2> DEFINE h == [s \in Small(n + 1) |-> IF s = {} THEN 0 ELSE f[Chosen(s)] + g[s \ {Chosen(s)}]]
  <2>2. ASSUME NEW s \in Small(n) PROVE s \in Small(n + 1) /\ h[s] = g[s]
    <3>1. s \in Small(n + 1)
      <4>1. s \in SUBSET S /\ Cardinality(s) <= n /\ Cardinality(s) \in Nat
        BY <1>0
      <4> QED BY <4>1
    <3>2. g[s] = IF s = {} THEN 0 ELSE f[Chosen(s)] + g[s \ {Chosen(s)}]
      BY <2>1
    <3> QED BY <3>1, <3>2
  <2>3. ASSUME NEW s \in Small(n + 1), s # {} PROVE s \ {Chosen(s)} \in Small(n)
    BY <1>0, <2>3
  <2>4. h = [s \in Small(n + 1) |-> IF s = {} THEN 0 ELSE f[Chosen(s)] + h[s \ {Chosen(s)}]]
    <3> HIDE DEF Small
    <3>1. ASSUME NEW s \in Small(n + 1), s # {} PROVE h[s \ {Chosen(s)}] = g[s \ {Chosen(s)}]
      BY <2>2, <2>3, <3>1
    <3> QED BY <3>1
  <2>5. Upto(h, n + 1)
    <3> HIDE DEF h
    <3> QED BY <2>4
  <2> HIDE DEF Upto
  <2> QED BY <2>5
<1>3. Cardinality(S) \in Nat /\ Cardinality(S) \in N
  <2>1. Nat \subseteq N
    <3> HIDE DEF N
    <3> QED BY <1>1, <1>2, EveryNumber
  <2> QED BY <2>1, FS_CardinalityType
<1>4. Small(Cardinality(S)) = SUBSET S
  BY <1>0
<1>5. PICK g : Upto(g, Cardinality(S))
  BY <1>3
<1> QED BY <1>4, <1>5 DEF IsTally

LEMMA TallyUnique ==
  ASSUME NEW f, NEW S, IsFiniteSet(S), NEW g, IsTally(g, f, S), NEW T \in SUBSET S,
         NEW e, NEW h, IsTally(h, e, T), \A x \in T : e[x] = f[x]
  PROVE  \A s \in SUBSET T : h[s] = g[s]
<1> DEFINE F == { s \in SUBSET T : h[s] = g[s] }
<1>1. IsFiniteSet(T)
  BY FS_Subset
<1>2. ASSUME NEW s \in SUBSET T, \A x \in s : s \ {x} \in F PROVE s \in F
  <2>1. s \in SUBSET S
    OBVIOUS
  <2>2. g[s] = IF s = {} THEN 0 ELSE f[Chosen(s)] + g[s \ {Chosen(s)}]
    BY <2>1 DEF IsTally
  <2>3. h[s] = IF s = {} THEN 0 ELSE e[Chosen(s)] + h[s \ {Chosen(s)}]
    BY DEF IsTally
  <2>4. s # {} => Chosen(s) \in s
    BY DEF Chosen
  <2> QED BY <1>2, <2>2, <2>3, <2>4
<1>3. SUBSET T \subseteq F
  <2> HIDE DEF F
  <2> QED BY <1>1, <1>2, EverySubset
<1> QED BY <1>3

LEMMA TallyInt ==
  ASSUME NEW S, IsFiniteSet(S), NEW f \in [S -> Int], NEW g, IsTally(g, f, S)
  PROVE  \A s \in SUBSET S : g[s] \in Int
<1> DEFINE F == { s \in SUBSET S : g[s] \in Int }
<1>1. ASSUME NEW s \in SUBSET S, \A x \in s : s \ {x} \in F PROVE s \in F
  <2>1. g[s] = IF s = {} THEN 0 ELSE f[Chosen(s)] + g[s \ {Chosen(s)}]
    BY DEF IsTally
  <2>2. s # {} => Chosen(s) \in s
    BY DEF Chosen
  <2>3. PICK c : c = Chosen(s)
    OBVIOUS
  <2>4. s # {} => f[c] \in Int /\ g[s \ {c}] \in Int
    BY <1>1, <2>2, <2>3
  <2> QED BY <2>1, <2>3, <2>4
<1>2. SUBSET S \subseteq F
  <2> HIDE DEF F
  <2> QED BY <1>1, EverySubset
<1> QED BY <1>2

\* Any element may be the first one summed.
LEMMA TallyAny ==
  ASSUME NEW S, IsFiniteSet(S), NEW f \in [S -> Int], NEW g, IsTally(g, f, S)
  PROVE  \A s \in SUBSET S : \A x \in s : g[s] = f[x] + g[s \ {x}]
<1> DEFINE F == { s \in SUBSET S : \A x \in s : g[s] = f[x] + g[s \ {x}] }
<1>0. ASSUME NEW s \in SUBSET S, s # {}
      PROVE  g[s] = f[Chosen(s)] + g[s \ {Chosen(s)}] /\ Chosen(s) \in s
  BY <1>0 DEF IsTally, Chosen
<1>1. ASSUME NEW s \in SUBSET S, \A x \in s : s \ {x} \in F PROVE s \in F
  <2> SUFFICES ASSUME NEW x \in s PROVE g[s] = f[x] + g[s \ {x}]
    OBVIOUS
  <2>1. PICK c : c = Chosen(s)
    OBVIOUS
  <2>2. g[s] = f[c] + g[s \ {c}] /\ c \in s
    BY <1>0, <2>1
  <2>3. CASE x = c
    BY <2>2, <2>3
  <2>4. CASE x # c
    <3>1. x \in s \ {c} /\ c \in s \ {x}
      BY <2>2, <2>4
    <3>2. g[s \ {c}] = f[x] + g[(s \ {c}) \ {x}]
      BY <1>1, <2>2, <3>1
    <3>3. g[s \ {x}] = f[c] + g[(s \ {x}) \ {c}]
      BY <1>1, <3>1
    <3>4. (s \ {c}) \ {x} = (s \ {x}) \ {c}
      OBVIOUS
    <3>5. f[x] \in Int /\ f[c] \in Int
      BY <2>2
    <3>6. g[(s \ {x}) \ {c}] \in Int
      BY TallyInt
    <3>7. PICK v : v = g[(s \ {x}) \ {c}]
      OBVIOUS
    <3>8. g[s \ {c}] = f[x] + v /\ g[s \ {x}] = f[c] + v
      BY ONLY <3>2, <3>3, <3>4, <3>7
    <3> QED BY ONLY <2>2, <3>5, <3>6, <3>7, <3>8
  <2> QED BY <2>3, <2>4
<1>2. SUBSET S \subseteq F
  <2> HIDE DEF F
  <2> QED BY <1>1, EverySubset
<1> QED BY <1>2

LEMMA SumIs ==
  ASSUME NEW f, IsFiniteSet(DOMAIN f)
  PROVE  \E g : IsTally(g, f, DOMAIN f) /\ SumFunction(f) = g[DOMAIN f]
<1> DEFINE S == DOMAIN f
           g == CHOOSE h : h = [s \in SUBSET S |-> IF s = {} THEN 0
                                  ELSE f[CHOOSE x \in s : TRUE] + h[s \ {CHOOSE x \in s : TRUE}]]
<1>1. \E h : IsTally(h, f, S)
  BY TallyExists
<1>2. IsTally(g, f, S)
  BY <1>1 DEF IsTally, Chosen
<1>3. SumFunction(f) = g[S]
  BY DEF SumFunction, SumFunctionOnSet, FoldFunctionOnSet, MapThenFoldSet
<1> HIDE DEF g
<1> QED BY <1>2, <1>3

\* f on the elements of T.
Over(f, T) == [x \in T |-> f[x]]

LEMMA SumOverInt ==
  ASSUME NEW f, IsFiniteSet(DOMAIN f), f \in [DOMAIN f -> Int]
  PROVE  SumFunction(f) \in Int
BY SumIs, TallyInt

LEMMA SumOverNone ==
  ASSUME NEW f, DOMAIN f = {}
  PROVE  SumFunction(f) = 0
<1>1. IsFiniteSet(DOMAIN f)
  BY FS_EmptySet
<1>2. PICK g : IsTally(g, f, DOMAIN f) /\ SumFunction(f) = g[DOMAIN f]
  BY <1>1, SumIs
<1> QED BY <1>2 DEF IsTally

LEMMA SumWithout ==
  ASSUME NEW f, IsFiniteSet(DOMAIN f), f \in [DOMAIN f -> Int], NEW x \in DOMAIN f
  PROVE  /\ SumFunction(f) = f[x] + SumFunction(Over(f, DOMAIN f \ {x}))
         /\ SumFunction(Over(f, DOMAIN f \ {x})) \in Int /\ f[x] \in Int
<1> DEFINE S == DOMAIN f
           T == S \ {x}
           e == Over(f, T)
<1>1. PICK g : IsTally(g, f, S) /\ SumFunction(f) = g[S]
  BY SumIs
<1>2. DOMAIN e = T /\ IsFiniteSet(T) /\ T \in SUBSET S /\ e \in [T -> Int]
      /\ \A y \in T : e[y] = f[y]
  BY FS_RemoveElement DEF Over
<1> HIDE DEF e
<1>3. PICK h : IsTally(h, e, T) /\ SumFunction(e) = h[T]
  BY <1>2, SumIs
<1>4. h[T] = g[T]
  BY <1>1, <1>2, <1>3, TallyUnique
<1>5. g[S] = f[x] + g[T]
  BY <1>1, TallyAny
<1>6. SumFunction(e) \in Int
  BY <1>2, SumOverInt
<1> QED BY <1>1, <1>3, <1>4, <1>5, <1>6 DEF e

LEMMA OverOver ==
  ASSUME NEW f, NEW T, NEW U \in SUBSET T
  PROVE  Over(Over(f, T), U) = Over(f, U) /\ DOMAIN Over(f, T) = T
BY DEF Over

\* Two parts of a set have the sums of each.
LEMMA SumJoined ==
  ASSUME NEW S, IsFiniteSet(S), NEW f \in [S -> Int], NEW A \in SUBSET S
  PROVE  SumFunction(f) = SumFunction(Over(f, A)) + SumFunction(Over(f, S \ A))
<1> DEFINE Sum(T) == SumFunction(Over(f, T))
           F == { T \in SUBSET S : \A B \in SUBSET T : Sum(T) = Sum(B) + Sum(T \ B) }
<1>1. ASSUME NEW T \in SUBSET S
      PROVE  /\ Sum(T) \in Int
             /\ \A x \in T : Sum(T) = f[x] + Sum(T \ {x}) /\ f[x] \in Int
  <2>1. /\ IsFiniteSet(T) /\ DOMAIN Over(f, T) = T /\ Over(f, T) \in [T -> Int]
        /\ \A x \in T : Over(f, T)[x] = f[x]
    BY FS_Subset DEF Over
  <2>2. ASSUME NEW x \in T PROVE Over(Over(f, T), T \ {x}) = Over(f, T \ {x})
    BY OverOver
  <2> QED BY <2>1, <2>2, SumOverInt, SumWithout
<1>2. Sum({}) = 0
  BY SumOverNone DEF Over
<1> HIDE DEF Sum
<1>3. ASSUME NEW T \in SUBSET S, \A x \in T : T \ {x} \in F PROVE T \in F
  <2> SUFFICES ASSUME NEW B \in SUBSET T PROVE Sum(T) = Sum(B) + Sum(T \ B)
    OBVIOUS
  <2>1. CASE B = {}
    <3>1. T \ B = T
      BY <2>1
    <3> QED BY <2>1, <3>1, <1>1, <1>2
  <2>2. CASE B # {}
    <3>0. PICK x : x \in B
      BY <2>2
    <3>1. Sum(T \ {x}) = Sum(B \ {x}) + Sum((T \ {x}) \ (B \ {x}))
      BY <1>3, <3>0
    <3>2. (T \ {x}) \ (B \ {x}) = T \ B
      BY <3>0
    <3>3. Sum(T) = f[x] + Sum(T \ {x}) /\ Sum(B) = f[x] + Sum(B \ {x}) /\ f[x] \in Int
      BY <1>1, <3>0
    <3>4. Sum(B \ {x}) \in Int /\ Sum(T \ B) \in Int
      BY <1>1
    <3>5. Sum(T \ {x}) = Sum(B \ {x}) + Sum(T \ B)
      BY <3>1, <3>2
    <3> QED BY <3>3, <3>4, <3>5
  <2> QED BY <2>1, <2>2
<1>4. S \in F
  <2> HIDE DEF F
  <2> QED BY <1>3, EverySubset
<1>5. Sum(S) = Sum(A) + Sum(S \ A)
  BY <1>4
<1>6. Over(f, S) = f
  BY DEF Over
<1> QED BY <1>5, <1>6 DEF Sum

\* The elements of S that key sends to k.
Group(S, key, k) == { x \in S : key[x] = k }

\* Groups by any key have together the sum of the whole.
LEMMA SumGrouped ==
  ASSUME NEW S, IsFiniteSet(S), NEW f \in [S -> Int], NEW K, IsFiniteSet(K), NEW key \in [S -> K]
  PROVE  SumFunction(f) = SumFunction([k \in K |-> SumFunction(Over(f, Group(S, key, k)))])
<1> DEFINE Sum(T) == SumFunction(Over(f, T))
           part == [k \in K |-> Sum(Group(S, key, k))]
           Of(L) == { x \in S : key[x] \in L }
           F == { L \in SUBSET K : Sum(Of(L)) = SumFunction(Over(part, L)) }
<1>1. ASSUME NEW T \in SUBSET S
      PROVE  /\ Sum(T) \in Int
             /\ \A A \in SUBSET T : Sum(T) = Sum(A) + Sum(T \ A)
  <2>1. IsFiniteSet(T) /\ DOMAIN Over(f, T) = T /\ Over(f, T) \in [T -> Int]
    BY FS_Subset DEF Over
  <2>2. ASSUME NEW A \in SUBSET T
        PROVE  Over(Over(f, T), A) = Over(f, A) /\ Over(Over(f, T), T \ A) = Over(f, T \ A)
    BY OverOver
  <2> QED BY <2>1, <2>2, SumOverInt, SumJoined
<1>2. Sum({}) = 0
  BY SumOverNone DEF Over
<1>3. part \in [K -> Int]
  BY <1>1 DEF Group
<1> HIDE DEF Sum
<1>4. ASSUME NEW L \in SUBSET K, NEW x \in L
      PROVE  SumFunction(Over(part, L)) = part[x] + SumFunction(Over(part, L \ {x}))
  <2> HIDE DEF part
  <2>1. /\ IsFiniteSet(L) /\ DOMAIN Over(part, L) = L /\ Over(part, L) \in [L -> Int]
        /\ Over(part, L)[x] = part[x]
    BY <1>3, FS_Subset DEF Over
  <2>2. Over(Over(part, L), L \ {x}) = Over(part, L \ {x})
    BY OverOver
  <2> QED BY <2>1, <2>2, SumWithout
<1>5. ASSUME NEW L \in SUBSET K, \A x \in L : L \ {x} \in F PROVE L \in F
  <2>1. CASE L = {}
    <3>1. Of(L) = {} /\ SumFunction(Over(part, L)) = 0
      BY <2>1, SumOverNone DEF Over
    <3> QED BY <2>1, <3>1, <1>2
  <2>2. ASSUME NEW k \in L PROVE L \in F
    <3>1. Group(S, key, k) \in SUBSET Of(L) /\ Of(L) \ Group(S, key, k) = Of(L \ {k})
      BY DEF Group
    <3>2. Sum(Of(L)) = Sum(Group(S, key, k)) + Sum(Of(L \ {k}))
      BY <3>1, <1>1
    <3>3. Sum(Of(L \ {k})) = SumFunction(Over(part, L \ {k}))
      BY <1>5, <2>2
    <3>4. part[k] = Sum(Group(S, key, k))
      OBVIOUS
    <3>5. SumFunction(Over(part, L)) = part[k] + SumFunction(Over(part, L \ {k}))
      BY <1>4
    <3> HIDE DEF part, Of
    <3> QED BY <3>2, <3>3, <3>4, <3>5
  <2> QED BY <2>1, <2>2
<1>6. K \in F
  <2> HIDE DEF F
  <2> QED BY <1>5, EverySubset
<1>7. Of(K) = S /\ Over(f, S) = f /\ Over(part, K) = part
  BY DEF Over
<1>8. Sum(S) = SumFunction(part)
  BY <1>6, <1>7
<1> QED BY <1>7, <1>8 DEF Sum

\* Summed one by one or together.
LEMMA SumAdded ==
  ASSUME NEW S, IsFiniteSet(S), NEW f \in [S -> Int], NEW g \in [S -> Int]
  PROVE  SumFunction([x \in S |-> f[x] + g[x]]) = SumFunction(f) + SumFunction(g)
<1> DEFINE e == [x \in S |-> f[x] + g[x]]
           F == { T \in SUBSET S : SumFunction(Over(e, T))
                                      = SumFunction(Over(f, T)) + SumFunction(Over(g, T)) }
<1>1. e \in [S -> Int] /\ \A x \in S : e[x] = f[x] + g[x]
  OBVIOUS
<1> HIDE DEF e
<1>2. ASSUME NEW d \in [S -> Int], NEW T \in SUBSET S, NEW x \in T
      PROVE  /\ SumFunction(Over(d, T)) = d[x] + SumFunction(Over(d, T \ {x}))
             /\ SumFunction(Over(d, T \ {x})) \in Int /\ d[x] \in Int
  <2>1. /\ IsFiniteSet(T) /\ DOMAIN Over(d, T) = T /\ Over(d, T) \in [T -> Int]
        /\ Over(d, T)[x] = d[x]
    BY FS_Subset DEF Over
  <2>2. Over(Over(d, T), T \ {x}) = Over(d, T \ {x})
    BY OverOver
  <2> QED BY <2>1, <2>2, SumWithout
<1>3. ASSUME NEW T \in SUBSET S, \A x \in T : T \ {x} \in F PROVE T \in F
  <2>1. CASE T = {}
    BY <2>1, SumOverNone DEF Over
  <2>2. ASSUME NEW x \in T PROVE T \in F
    <3>1. SumFunction(Over(e, T \ {x}))
            = SumFunction(Over(f, T \ {x})) + SumFunction(Over(g, T \ {x}))
      BY <1>3
    <3>2. SumFunction(Over(e, T)) = e[x] + SumFunction(Over(e, T \ {x}))
      BY <1>1, <1>2
    <3>3. /\ SumFunction(Over(f, T)) = f[x] + SumFunction(Over(f, T \ {x}))
          /\ SumFunction(Over(f, T \ {x})) \in Int /\ f[x] \in Int
      BY <1>2
    <3>4. /\ SumFunction(Over(g, T)) = g[x] + SumFunction(Over(g, T \ {x}))
          /\ SumFunction(Over(g, T \ {x})) \in Int /\ g[x] \in Int
      BY <1>2
    <3>5. e[x] = f[x] + g[x]
      BY <1>1
    <3>6. SumFunction(Over(e, T)) = SumFunction(Over(f, T)) + SumFunction(Over(g, T))
      BY ONLY <3>1, <3>2, <3>3, <3>4, <3>5
    <3> QED BY <3>6
  <2> QED BY <2>1, <2>2
<1>4. S \in F
  <2> HIDE DEF F
  <2> QED BY <1>3, EverySubset
<1>5. Over(e, S) = e /\ Over(f, S) = f /\ Over(g, S) = g
  BY <1>1 DEF Over
<1> QED BY <1>4, <1>5 DEF e

\* A finite set has the sum of ones over it as its cardinality.
LEMMA SumOfOnes ==
  ASSUME NEW S, IsFiniteSet(S)
  PROVE  SumFunction([x \in S |-> 1]) = Cardinality(S)
<1> DEFINE Ones(T) == [x \in T |-> 1]
           F == { T \in SUBSET S : SumFunction(Ones(T)) = Cardinality(T) }
<1>1. ASSUME NEW T \in SUBSET S, \A x \in T : T \ {x} \in F PROVE T \in F
  <2>1. CASE T = {}
    BY <2>1, SumOverNone, FS_EmptySet
  <2>2. ASSUME NEW x \in T PROVE T \in F
    <3>1. SumFunction(Ones(T \ {x})) = Cardinality(T \ {x})
      BY <1>1
    <3>2. /\ IsFiniteSet(T) /\ DOMAIN Ones(T) = T /\ Ones(T) \in [T -> Int] /\ Ones(T)[x] = 1
          /\ Over(Ones(T), T \ {x}) = Ones(T \ {x})
      BY FS_Subset DEF Over
    <3> HIDE DEF Ones
    <3>3. SumFunction(Ones(T)) = 1 + SumFunction(Ones(T \ {x}))
      BY <3>2, SumWithout
    <3>4. Cardinality(T \ {x}) = Cardinality(T) - 1 /\ Cardinality(T) \in Nat
      BY <3>2, FS_RemoveElement, FS_CardinalityType
    <3>5. SumFunction(Ones(T)) = Cardinality(T)
      BY <3>1, <3>3, <3>4
    <3> QED BY <3>5
  <2> QED BY <2>1, <2>2
<1>2. S \in F
  <2> HIDE DEF F
  <2> QED BY <1>1, EverySubset
<1> QED BY <1>2

LEMMA FiniteImage ==
  ASSUME NEW f, IsFiniteSet(DOMAIN f)
  PROVE  IsFiniteSet({ f[x] : x \in DOMAIN f })
<1> DEFINE T == { f[x] : x \in DOMAIN f }
           g == [x \in DOMAIN f |-> f[x]]
<1>1. g \in Surjection(DOMAIN f, T)
  BY DEF Surjection
<1> QED BY <1>1, FS_Surjection

-----------------------------------------------------------------------------
(***************************************************************************)
(* Loops.  Every loop of the models is a function of the number of         *)
(* iterations done; this is why there is one, and induction over it.       *)
(***************************************************************************)
LEMMA Upward ==
  ASSUME NEW n \in Nat, NEW S, 0 \in S, \A k \in 1..n : k - 1 \in S => k \in S
  PROVE  \A k \in 0..n : k \in S
<1> DEFINE T == { k \in Nat : k <= n => k \in S }
<1>1. 0 \in T
  OBVIOUS
<1>2. ASSUME NEW k \in Nat, k \in T PROVE k + 1 \in T
  <2>1. SUFFICES ASSUME k + 1 <= n PROVE k + 1 \in S
    OBVIOUS
  <2>2. k \in S /\ k + 1 \in 1..n /\ (k + 1) - 1 = k
    BY <1>2, <2>1
  <2> QED BY <2>2
<1>3. Nat \subseteq T
  <2> HIDE DEF T
  <2> QED BY <1>1, <1>2, EveryNumber
<1> QED BY <1>3

IsLoop(f, n, V, base, next) ==
  /\ f \in [0..n -> V] /\ f[0] = base
  /\ \A k \in 1..n : << k, f[k - 1] >> \in (1..n) \X V /\ f[k] = next[<< k, f[k - 1] >>]

\* What starts and steps as the loop does.
Follows(g, n, V, base, next) ==
  /\ g[0] = base
  /\ \A k \in 1..n : << k, g[k - 1] >> \in (1..n) \X V => g[k] = next[<< k, g[k - 1] >>]

LEMMA LoopExists ==
  ASSUME NEW n \in Nat, NEW V, NEW base \in V, NEW next \in [(1..n) \X V -> V]
  PROVE  \E f : IsLoop(f, n, V, base, next)
<1> DEFINE S == { m \in 0..n : \E f : IsLoop(f, m, V, base, next) }
<1>1. 0 \in S
  <2>1. IsLoop([k \in 0..0 |-> base], 0, V, base, next)
    BY DEF IsLoop
  <2> QED BY <2>1
<1>2. ASSUME NEW m \in 1..n, m - 1 \in S PROVE m \in S
  <2>1. PICK f : IsLoop(f, m - 1, V, base, next)
    BY <1>2
  <2> DEFINE g == [k \in 0..m |-> IF k = m THEN next[<< m, f[m - 1] >>] ELSE f[k]]
  <2>2. f \in [0..(m - 1) -> V] /\ f[0] = base
        /\ \A k \in 1..(m - 1) : f[k] = next[<< k, f[k - 1] >>]
    BY <2>1 DEF IsLoop
  <2>3. f[m - 1] \in V /\ << m, f[m - 1] >> \in (1..n) \X V
    BY <2>2
  <2>4. next[<< m, f[m - 1] >>] \in V
    BY <2>3
  <2>5. g \in [0..m -> V] /\ g[0] = base
    BY <2>2, <2>4
  <2>6. ASSUME NEW k \in 1..m PROVE g[k] = next[<< k, g[k - 1] >>]
    <3>1. CASE k = m
      BY <3>1, SMTT(40)
    <3>2. CASE k # m
      <4>1. k \in 1..(m - 1) /\ g[k] = f[k] /\ g[k - 1] = f[k - 1]
        BY <3>2
      <4> QED BY <2>2, <4>1
    <3> QED BY <3>1, <3>2
  <2> HIDE DEF g
  <2>7. ASSUME NEW k \in 1..m PROVE << k, g[k - 1] >> \in (1..m) \X V
    <3>1. k - 1 \in 0..m
      OBVIOUS
    <3> QED BY <2>5, <3>1
  <2>8. IsLoop(g, m, V, base, next)
    BY <2>5, <2>6, <2>7 DEF IsLoop
  <2> QED BY <2>8
<1>3. n \in S
  <2>1. n \in 0..n
    OBVIOUS
  <2> HIDE DEF S
  <2> QED BY <1>1, <1>2, <2>1, Upward
<1> QED BY <1>3

LEMMA LoopIsOnly ==
  ASSUME NEW n \in Nat, NEW V, NEW base, NEW next, NEW f, IsLoop(f, n, V, base, next),
         NEW g, Follows(g, n, V, base, next)
  PROVE  g[n] = f[n]
<1> DEFINE S == { k \in 0..n : f[k] = g[k] }
<1>1. 0 \in S
  BY DEF IsLoop, Follows
<1>2. ASSUME NEW k \in 1..n, k - 1 \in S PROVE k \in S
  <2>1. << k, f[k - 1] >> \in (1..n) \X V /\ f[k] = next[<< k, f[k - 1] >>]
    BY DEF IsLoop
  <2>2. f[k - 1] = g[k - 1] /\ k \in 0..n
    BY <1>2
  <2> QED BY <2>1, <2>2 DEF Follows
<1>3. n \in S
  <2> HIDE DEF S
  <2> QED BY <1>1, <1>2, Upward
<1> QED BY <1>3


-----------------------------------------------------------------------------
(***************************************************************************)
(* Places in a sequence, least and greatest members, and sequences of      *)
(* sequences put one behind the other.                                     *)
(***************************************************************************)
LEMMA MinIsLeast ==
  ASSUME NEW S \in SUBSET Nat, S # {}
  PROVE  Min(S) \in S /\ \A x \in S : Min(S) <= x
BY LeastExists DEF Min

\* The latest of some days.
LEMMA MostExists ==
  ASSUME NEW n \in Nat, NEW f, \A k \in 1..n : f[k] \in Nat, NEW Z \in SUBSET (1..n), Z # {}
  PROVE  \E k \in Z : \A j \in Z : f[j] <= f[k]
<1> DEFINE S == { m \in 0..n : (\E k \in Z : k <= m) =>
                    \E k \in Z : k <= m /\ \A j \in Z : j <= m => f[j] <= f[k] }
<1>1. 0 \in S
  OBVIOUS
<1>2. ASSUME NEW m \in 1..n, m - 1 \in S PROVE m \in S
  <2>1. SUFFICES ASSUME \E k \in Z : k <= m
                 PROVE  \E k \in Z : k <= m /\ \A j \in Z : j <= m => f[j] <= f[k]
    OBVIOUS
  <2>2. CASE \E k \in Z : k <= m - 1
    <3>1. PICK k \in Z : k <= m - 1 /\ \A j \in Z : j <= m - 1 => f[j] <= f[k]
      BY <1>2, <2>2
    <3>2. CASE m \in Z /\ f[k] <= f[m]
      <4>1. ASSUME NEW j \in Z, j <= m PROVE f[j] <= f[m]
        <5>1. j = m \/ j <= m - 1
          BY <4>1
        <5>2. f[j] \in Nat /\ f[k] \in Nat /\ f[m] \in Nat
          OBVIOUS
        <5> QED BY <3>1, <3>2, <5>1, <5>2
      <4> QED BY <3>2, <4>1
    <3>3. CASE ~(m \in Z /\ f[k] <= f[m])
      <4>1. ASSUME NEW j \in Z, j <= m PROVE f[j] <= f[k]
        <5>1. j = m \/ j <= m - 1
          BY <4>1
        <5>2. f[j] \in Nat /\ f[k] \in Nat
          OBVIOUS
        <5> QED BY <3>1, <3>3, <5>1, <5>2
      <4> QED BY <3>1, <4>1
    <3> QED BY <3>2, <3>3
  <2>3. CASE ~(\E k \in Z : k <= m - 1)
    <3>1. \A k \in Z : k <= m => k = m
      BY <2>3
    <3>2. m \in Z /\ f[m] \in Nat
      BY <2>1, <3>1
    <3> QED BY <3>1, <3>2
  <2> QED BY <2>2, <2>3
<1>3. n \in S
  <2>1. n \in 0..n
    OBVIOUS
  <2> HIDE DEF S
  <2> QED BY <1>1, <1>2, <2>1, Upward
<1>4. \E k \in Z : k <= n
  <2>1. PICK z \in Z : TRUE
    OBVIOUS
  <2>2. z \in 1..n
    OBVIOUS
  <2> QED BY <2>2
<1>5. PICK k \in Z : k <= n /\ \A j \in Z : j <= n => f[j] <= f[k]
  BY <1>3, <1>4
<1> QED BY <1>5

\* What is numbered is finite.
LEMMA NumberedFinite ==
  ASSUME NEW m \in Nat, NEW T, NEW f \in [1..m -> T], \A x \in T : \E k \in 1..m : f[k] = x
  PROVE  IsFiniteSet(T)
<1>1. f \in Surjection(1..m, T)
  BY DEF Surjection
<1>2. IsFiniteSet(1..m)
  BY FS_Interval
<1> QED BY <1>1, <1>2, FS_Surjection

\* A finite set in some order: each member has a place.
LEMMA InOrder ==
  ASSUME NEW S, IsFiniteSet(S)
  PROVE  SetToSeq(S) \in Seq(S) /\ ToSet(SetToSeq(S)) = S
<1>1. PICK n, order : n = Cardinality(S) /\ order = SetToSeq(S)
  OBVIOUS
<1>2. n \in Nat /\ ExistsBijection(1..n, S)
  BY <1>1, FS_CardinalityType
<1>3. \E f \in [1..n -> S] : IsInjective(f)
  BY <1>2 DEF ExistsBijection, Bijection, Injection
<1>4. order \in [1..n -> S] /\ IsInjective(order)
  BY <1>1, <1>3 DEF SetToSeq
<1>5. order \in Injection(1..n, S)
  BY <1>4 DEF Injection
<1>6. IsFiniteSet(1..n) /\ Cardinality(1..n) = n
  BY <1>2, FS_Interval
<1>7. order \in Surjection(1..n, S)
  BY <1>1, <1>5, <1>6, FS_Injection
<1>8. \A x \in S : \E k \in 1..n : order[k] = x
  BY <1>7 DEF Surjection
<1>9. order \in Seq(S)
  BY <1>2, <1>4
<1>10. ToSet(order) = S
  BY <1>4, <1>8 DEF ToSet
<1> QED BY <1>1, <1>9, <1>10

\* In a sequence with as many members as places none is at two of them.
LEMMA DistinctPlaces ==
  ASSUME NEW X, NEW s \in Seq(X), Cardinality(ToSet(s)) = Len(s),
         NEW j \in 1..Len(s), NEW k \in 1..Len(s), s[j] = s[k]
  PROVE  j = k
<1>1. PICK n, T : n = Len(s) /\ T = ToSet(s)
  OBVIOUS
<1>2. n \in Nat /\ DOMAIN s = 1..n
  BY <1>1
<1>3. IsFiniteSet(1..n) /\ Cardinality(1..n) = n
  BY <1>2, FS_Interval
<1>4. T = { s[m] : m \in 1..n }
  BY <1>1, <1>2 DEF ToSet
<1>5. PICK f : f = [m \in 1..n |-> s[m]]
  OBVIOUS
<1>6. f \in Surjection(1..n, T)
  <2>1. f \in [1..n -> T]
    BY <1>4, <1>5
  <2>2. \A t \in T : \E m \in 1..n : f[m] = t
    BY <1>4, <1>5
  <2> QED BY <2>1, <2>2 DEF Surjection
<1>7. Cardinality(T) = Cardinality(1..n)
  BY <1>1, <1>3
<1>8. f \in Injection(1..n, T)
  BY <1>3, <1>6, <1>7, FS_Surjection
<1>9. \A x, y \in 1..n : f[x] = f[y] => x = y
  BY <1>8 DEF Injection, IsInjective
<1> QED BY <1>1, <1>5, <1>9

LEMMA JoinedContains ==
  ASSUME NEW T, NEW a \in Seq(T), NEW b \in Seq(T), NEW x
  PROVE  x \in ToSet(a \o b) <=> x \in ToSet(a) \/ x \in ToSet(b)
<1>1. PICK s : s = a \o b
  OBVIOUS
<1>2. /\ Len(a) \in Nat /\ Len(b) \in Nat /\ DOMAIN s = 1..(Len(a) + Len(b))
      /\ \A m \in 1..(Len(a) + Len(b)) : s[m] = IF m <= Len(a) THEN a[m] ELSE b[m - Len(a)]
      /\ DOMAIN a = 1..Len(a) /\ DOMAIN b = 1..Len(b)
  BY <1>1, ConcatProperties
<1>3. ASSUME x \in ToSet(s) PROVE x \in ToSet(a) \/ x \in ToSet(b)
  <2>1. PICK m \in DOMAIN s : x = s[m]
    BY <1>3 DEF ToSet
  <2>2. CASE m <= Len(a)
    BY <1>2, <2>1, <2>2 DEF ToSet
  <2>3. CASE ~(m <= Len(a))
    <3>1. m - Len(a) \in DOMAIN b /\ x = b[m - Len(a)]
      BY <1>2, <2>1, <2>3
    <3> QED BY <3>1 DEF ToSet
  <2> QED BY <2>2, <2>3
<1>4. ASSUME x \in ToSet(a) PROVE x \in ToSet(s)
  <2>1. PICK m \in DOMAIN a : x = a[m]
    BY <1>4 DEF ToSet
  <2>2. m \in DOMAIN s /\ s[m] = x
    BY <1>2, <2>1
  <2> QED BY <2>2 DEF ToSet
<1>5. ASSUME x \in ToSet(b) PROVE x \in ToSet(s)
  <2>1. PICK m \in DOMAIN b : x = b[m]
    BY <1>5 DEF ToSet
  <2>2. PICK q : q = m + Len(a)
    OBVIOUS
  <2>3. q \in DOMAIN s /\ ~(q <= Len(a)) /\ q - Len(a) = m
    BY <1>2, <2>1, <2>2
  <2>4. s[q] = x
    BY <1>2, <2>1, <2>3
  <2> QED BY <2>3, <2>4 DEF ToSet
<1> QED BY <1>1, <1>3, <1>4, <1>5

Members(groups) == UNION { ToSet(groups[k]) : k \in DOMAIN groups }

LEMMA FlattenLoop ==
  ASSUME NEW T, NEW seqs \in Seq(Seq(T)), seqs # << >>
  PROVE  \E f \in [0..Len(seqs) -> Seq(T)] :
           /\ f[0] = << >> /\ \A k \in 1..Len(seqs) : f[k] = f[k - 1] \o seqs[k]
           /\ FlattenSeq(seqs) = f[Len(seqs)]
<1> DEFINE n == Len(seqs)
           next == [kr \in (1..n) \X Seq(T) |-> kr[2] \o seqs[kr[1]]]
           Solves(g) == g = [i \in 1..n |-> IF i = 1 THEN seqs[i] ELSE g[i - 1] \o seqs[i]]
           run == CHOOSE g : Solves(g)
<1>1. n \in Nat \ {0} /\ \A k \in 1..n : seqs[k] \in Seq(T)
  OBVIOUS
<1>2. next \in [(1..n) \X Seq(T) -> Seq(T)]
  BY <1>1
<1>3. << >> \in Seq(T)
  OBVIOUS
<1>4. PICK f : IsLoop(f, n, Seq(T), << >>, next)
  <2> HIDE DEF n, next
  <2> QED BY <1>1, <1>2, <1>3, LoopExists DEF n
<1>5. /\ f \in [0..n -> Seq(T)] /\ f[0] = << >>
      /\ \A k \in 1..n : f[k] = f[k - 1] \o seqs[k]
  BY <1>4 DEF IsLoop
<1>6. 1 \in 1..n /\ f[1] = seqs[1]
  <2>1. 1 \in 1..n /\ 1 - 1 = 0
    BY <1>1
  <2>2. f[1] = << >> \o seqs[1]
    BY <1>5, <2>1
  <2> QED BY <1>1, <2>1, <2>2
<1>7. Solves([i \in 1..n |-> f[i]])
  <2>1. ASSUME NEW i \in 1..n
        PROVE  f[i] = IF i = 1 THEN seqs[i] ELSE [j \in 1..n |-> f[j]][i - 1] \o seqs[i]
    <3>1. CASE i = 1
      BY <1>6, <3>1
    <3>2. CASE i # 1
      <4>1. i - 1 \in 1..n
        BY <1>1, <3>2
      <4> QED BY <1>5, <3>2, <4>1
    <3> QED BY <3>1, <3>2
  <2> QED BY <2>1
<1>8. Solves(run)
  <2> HIDE DEF Solves
  <2> QED BY <1>7
<1>9. FlattenSeq(seqs) = run[n]
  BY <1>1 DEF FlattenSeq
<1> DEFINE S == { k \in 0..n : k > 0 => run[k] = f[k] }
<1>10. 0 \in S
  BY <1>1
<1>11. ASSUME NEW k \in 1..n, k - 1 \in S PROVE k \in S
  <2>1. run[k] = IF k = 1 THEN seqs[k] ELSE run[k - 1] \o seqs[k]
    BY <1>8
  <2>2. k \in 0..n
    BY <1>1
  <2>3. CASE k = 1
    BY <1>6, <2>1, <2>2, <2>3
  <2>4. CASE k # 1
    <3>1. run[k - 1] = f[k - 1]
      BY <1>1, <1>11, <2>4
    <3> QED BY <1>5, <2>1, <2>2, <2>4, <3>1
  <2> QED BY <2>3, <2>4
<1>12. n \in S
  <2>1. n \in 0..n
    BY <1>1
  <2> HIDE DEF S, n
  <2> QED BY <1>1, <1>10, <1>11, <2>1, Upward DEF n
<1>13. run[n] = f[n]
  <2> HIDE DEF run, n
  <2> QED BY <1>1, <1>12
<1> HIDE DEF run
<1> QED BY <1>5, <1>9, <1>13

LEMMA FlattenedMembers ==
  ASSUME NEW T, NEW seqs \in Seq(Seq(T))
  PROVE  /\ FlattenSeq(seqs) \in Seq(T)
         /\ \A x \in ToSet(FlattenSeq(seqs)) : \E k \in DOMAIN seqs : x \in ToSet(seqs[k])
<1>1. PICK n : n = Len(seqs)
  OBVIOUS
<1>2. n \in Nat /\ DOMAIN seqs = 1..n /\ \A k \in 1..n : seqs[k] \in Seq(T)
  BY <1>1
<1>3. CASE seqs = << >>
  <2>1. FlattenSeq(seqs) = << >>
    BY <1>3 DEF FlattenSeq
  <2> QED BY <2>1 DEF ToSet
<1>4. CASE seqs # << >>
  <2>1. PICK f \in [0..n -> Seq(T)] :
          /\ f[0] = << >> /\ \A k \in 1..n : f[k] = f[k - 1] \o seqs[k]
          /\ FlattenSeq(seqs) = f[n]
    BY <1>1, <1>4, FlattenLoop
  <2> DEFINE From(x, k) == \E j \in 1..k : x \in ToSet(seqs[j])
             S == { k \in 0..n : \A x \in ToSet(f[k]) : From(x, k) }
  <2>2. 0 \in S
    <3>1. ToSet(f[0]) = {}
      BY <2>1 DEF ToSet
    <3> QED BY <1>2, <3>1
  <2>3. ASSUME NEW k \in 1..n, k - 1 \in S PROVE k \in S
    <3>1. k - 1 \in 0..n /\ k \in 0..n
      BY <1>2
    <3>2. PICK a, b : a = f[k - 1] /\ b = seqs[k]
      OBVIOUS
    <3>3. a \in Seq(T) /\ b \in Seq(T) /\ f[k] = a \o b
      BY <1>2, <2>1, <3>1, <3>2
    <3>4. ASSUME NEW x \in ToSet(f[k]) PROVE From(x, k)
      <4>1. x \in ToSet(a) \/ x \in ToSet(b)
        BY <3>3, <3>4 DEF ToSet
      <4>2. CASE x \in ToSet(a)
        <5>1. PICK j \in 1..k - 1 : x \in ToSet(seqs[j])
          BY <2>3, <3>2, <4>2
        <5> QED BY <1>2, <5>1
      <4>3. CASE x \in ToSet(b)
        BY <1>2, <3>2, <4>3
      <4> QED BY <4>1, <4>2, <4>3
    <3> QED BY <3>1, <3>4
  <2>4. n \in S
    <3>1. n \in 0..n
      BY <1>2
    <3> HIDE DEF S
    <3> QED BY <1>2, <2>2, <2>3, <3>1, Upward
  <2>5. \A x \in ToSet(f[n]) : From(x, n)
    BY <2>4
  <2>6. f[n] \in Seq(T)
    BY <1>2, <2>1
  <2> QED BY <1>2, <2>1, <2>5, <2>6
<1> QED BY <1>3, <1>4

LEMMA FlattenedContains ==
  ASSUME NEW T, NEW seqs \in Seq(Seq(T)), NEW k \in 1..Len(seqs), NEW x, x \in ToSet(seqs[k])
  PROVE  x \in ToSet(FlattenSeq(seqs))
<1>1. seqs # << >> /\ Len(seqs) \in Nat /\ \A j \in 1..Len(seqs) : seqs[j] \in Seq(T)
  OBVIOUS
<1>2. PICK f \in [0..Len(seqs) -> Seq(T)] :
        /\ f[0] = << >> /\ \A j \in 1..Len(seqs) : f[j] = f[j - 1] \o seqs[j]
        /\ FlattenSeq(seqs) = f[Len(seqs)]
  BY <1>1, FlattenLoop
<1> DEFINE S == { j \in 0..Len(seqs) : k <= j => x \in ToSet(f[j]) }
<1>3. 0 \in S
  BY <1>1
<1>4. ASSUME NEW j \in 1..Len(seqs), j - 1 \in S PROVE j \in S
  <2>1. j - 1 \in 0..Len(seqs) /\ j \in 0..Len(seqs)
    BY <1>1
  <2>2. PICK a, b : a = f[j - 1] /\ b = seqs[j]
    OBVIOUS
  <2>3. a \in Seq(T) /\ b \in Seq(T) /\ f[j] = a \o b
    BY <1>1, <1>2, <2>1, <2>2
  <2>4. x \in ToSet(a \o b) <=> x \in ToSet(a) \/ x \in ToSet(b)
    BY <2>3, JoinedContains
  <2>5. CASE k = j
    BY <2>1, <2>2, <2>3, <2>4, <2>5
  <2>6. CASE k < j
    <3>1. k <= j - 1
      BY <1>1, <2>6
    <3>2. x \in ToSet(a)
      BY <1>4, <2>2, <3>1
    <3> QED BY <2>1, <2>3, <2>4, <3>2
  <2>7. CASE k > j
    BY <1>1, <2>1, <2>7
  <2> QED BY <1>1, <2>5, <2>6, <2>7
<1>5. Len(seqs) \in S
  <2>1. Len(seqs) \in 0..Len(seqs)
    BY <1>1
  <2> HIDE DEF S
  <2> QED BY <1>1, <1>3, <1>4, <2>1, Upward
<1>6. k <= Len(seqs)
  BY <1>1
<1> QED BY <1>2, <1>5, <1>6

\* One is a member of an earlier sequence than the other, or earlier in the same.
InTurn(seqs, y, z) ==
  \E j, k \in 1..Len(seqs) : \E a \in 1..Len(seqs[j]), b \in 1..Len(seqs[k]) :
    y = seqs[j][a] /\ z = seqs[k][b] /\ (j < k \/ (j = k /\ a < b))

LEMMA FlattenedPlaces ==
  ASSUME NEW T, NEW seqs \in Seq(Seq(T)), NEW F, F = FlattenSeq(seqs)
  PROVE  \A u, v \in 1..Len(F) : u < v => InTurn(seqs, F[u], F[v])
<1> SUFFICES ASSUME NEW u \in 1..Len(F), NEW v \in 1..Len(F), u < v
             PROVE  InTurn(seqs, F[u], F[v])
  OBVIOUS
<1>1. PICK n : n = Len(seqs)
  OBVIOUS
<1>2. n \in Nat /\ DOMAIN seqs = 1..n /\ \A k \in 1..n : seqs[k] \in Seq(T)
  BY <1>1
<1>3. CASE seqs = << >>
  <2>1. Len(F) = 0
    BY <1>3 DEF FlattenSeq
  <2> QED BY <2>1
<1>4. CASE seqs # << >>
  <2>1. PICK f \in [0..n -> Seq(T)] :
          /\ f[0] = << >> /\ \A k \in 1..n : f[k] = f[k - 1] \o seqs[k]
          /\ F = f[n]
    BY <1>1, <1>4, FlattenLoop
  <2> DEFINE From(z, m) == \E j \in 1..m : \E x \in 1..Len(seqs[j]) : z = seqs[j][x]
             S == { m \in 0..n : /\ \A x \in 1..Len(f[m]) : From(f[m][x], m)
                                 /\ \A x, y \in 1..Len(f[m]) : x < y => InTurn(seqs, f[m][x], f[m][y]) }
  <2>2. 0 \in S
    <3>1. Len(f[0]) = 0
      BY <2>1
    <3> QED BY <1>2, <3>1
  <2>3. ASSUME NEW m \in 1..n, m - 1 \in S PROVE m \in S
    <3>1. m - 1 \in 0..n /\ m \in 0..n
      BY <1>2
    <3>2. PICK a, b, c, p, q : a = f[m - 1] /\ b = seqs[m] /\ c = f[m] /\ p = Len(a) /\ q = Len(b)
      OBVIOUS
    <3>3. a \in Seq(T) /\ b \in Seq(T) /\ c = a \o b
      BY <1>2, <2>1, <3>1, <3>2
    <3>4. /\ p \in Nat /\ q \in Nat /\ Len(c) = p + q
          /\ \A x \in 1..(p + q) : c[x] = IF x <= p THEN a[x] ELSE b[x - p]
      <4>1. /\ Len(a) \in Nat /\ Len(b) \in Nat /\ Len(a \o b) = Len(a) + Len(b)
            /\ \A x \in 1..(Len(a) + Len(b)) : (a \o b)[x] = IF x <= Len(a) THEN a[x] ELSE b[x - Len(a)]
        BY <3>3, ConcatProperties
      <4> QED BY <3>2, <3>3, <4>1, ZenonT(60)
    <3>5. /\ \A x \in 1..p : From(a[x], m - 1)
          /\ \A x, y \in 1..p : x < y => InTurn(seqs, a[x], a[y])
      BY <2>3, <3>2
    <3>6. ASSUME NEW x \in 1..Len(c) PROVE From(c[x], m)
      <4>1. CASE x <= p
        <5>1. x \in 1..p /\ c[x] = a[x]
          BY <3>4, <4>1
        <5>2. From(c[x], m - 1)
          <6> HIDE DEF From
          <6> QED BY <3>5, <5>1
        <5>3. PICK j \in 1..(m - 1) : \E z \in 1..Len(seqs[j]) : c[x] = seqs[j][z]
          BY <5>2
        <5>4. j \in 1..m
          BY <1>2
        <5> QED BY <5>3, <5>4
      <4>2. CASE ~(x <= p)
        <5>1. PICK w : w = x - p
          OBVIOUS
        <5>2. w \in 1..q /\ c[x] = b[w] /\ m \in 1..m
          BY <1>2, <3>4, <4>2, <5>1
        <5>3. w \in 1..Len(seqs[m]) /\ c[x] = seqs[m][w]
          BY <3>2, <5>2
        <5> QED BY <5>2, <5>3
      <4> QED BY <4>1, <4>2
    <3>7. ASSUME NEW x \in 1..Len(c), NEW y \in 1..Len(c), x < y PROVE InTurn(seqs, c[x], c[y])
      <4>1. CASE y <= p
        <5>1. x \in 1..p /\ y \in 1..p /\ c[x] = a[x] /\ c[y] = a[y]
          BY <3>4, <3>7, <4>1
        <5> QED BY <3>5, <3>7, <5>1
      <4>2. CASE ~(y <= p)
        <5>1. PICK w : w = y - p
          OBVIOUS
        <5>2. w \in 1..q /\ c[y] = b[w] /\ m \in 1..n
          BY <3>4, <4>2, <5>1
        <5>3. w \in 1..Len(seqs[m]) /\ c[y] = seqs[m][w]
          BY <3>2, <5>2
        <5>4. CASE x <= p
          <6>1. x \in 1..p /\ c[x] = a[x]
            BY <3>4, <5>4
          <6>2. From(c[x], m - 1)
            <7> HIDE DEF From
            <7> QED BY <3>5, <6>1
          <6>3. PICK j \in 1..(m - 1) : \E z \in 1..Len(seqs[j]) : c[x] = seqs[j][z]
            BY <6>2
          <6>4. PICK z \in 1..Len(seqs[j]) : c[x] = seqs[j][z]
            BY <6>3
          <6>5. j \in 1..n /\ j < m
            BY <1>2
          <6> QED BY <1>1, <5>2, <5>3, <6>4, <6>5 DEF InTurn
        <5>5. CASE ~(x <= p)
          <6>1. PICK z : z = x - p
            OBVIOUS
          <6>2. z \in 1..q /\ c[x] = b[z] /\ z < w
            BY <3>4, <3>7, <4>2, <5>1, <5>5, <6>1, SMTT(40)
          <6>3. z \in 1..Len(seqs[m]) /\ c[x] = seqs[m][z]
            BY <3>2, <6>2
          <6> QED BY <1>1, <5>2, <5>3, <6>2, <6>3 DEF InTurn
        <5> QED BY <5>4, <5>5
      <4> QED BY <4>1, <4>2
    <3> HIDE DEF From
    <3> QED BY <3>1, <3>2, <3>6, <3>7
  <2>4. n \in S
    <3>1. n \in 0..n
      BY <1>2
    <3> HIDE DEF S
    <3> QED BY <1>2, <2>2, <2>3, <3>1, Upward
  <2>5. \A x, y \in 1..Len(F) : x < y => InTurn(seqs, F[x], F[y])
    <3> HIDE DEF From
    <3> QED BY <2>1, <2>4
  <2> QED BY <1>1, <2>5
<1> QED BY <1>3, <1>4


-----------------------------------------------------------------------------
(***************************************************************************)
(* Sums of the quantities of a sequence of records, and of a weight over a *)
(* sequence.                                                               *)
(***************************************************************************)
Quantified(X) == \A x \in X : x.quantity \in Int

LEMMA QuantitiesAreInts ==
  ASSUME NEW X, Quantified(X), NEW s \in Seq(X)
  PROVE  /\ QuantitiesOf(s) \in Seq(Int) /\ Len(QuantitiesOf(s)) = Len(s)
         /\ \A k \in 1..Len(s) : QuantitiesOf(s)[k] = s[k].quantity
         /\ SumQuantities(s) \in Int
<1>1. DOMAIN s = 1..Len(s) /\ Len(s) \in Nat /\ \A k \in 1..Len(s) : s[k] \in X
  OBVIOUS
<1>2. \A k \in 1..Len(s) : s[k].quantity \in Int
  BY <1>1 DEF Quantified
<1>3. QuantitiesOf(s) = [k \in 1..Len(s) |-> s[k].quantity]
  BY <1>1 DEF QuantitiesOf
<1>4. QuantitiesOf(s) \in [1..Len(s) -> Int]
  BY <1>2, <1>3
<1>5. QuantitiesOf(s) \in Seq(Int) /\ Len(QuantitiesOf(s)) = Len(s)
  BY <1>1, <1>4
<1> QED BY <1>3, <1>5, TotalInt DEF SumQuantities

LEMMA SumOfNothing == SumQuantities(<< >>) = 0
<1>1. QuantitiesOf(<< >>) = << >>
  BY DEF QuantitiesOf
<1> QED BY <1>1, TotalOfNone DEF SumQuantities

LEMMA SumOfOneMore ==
  ASSUME NEW X, Quantified(X), NEW s \in Seq(X), NEW e \in X
  PROVE  SumQuantities(Append(s, e)) = SumQuantities(s) + e.quantity
<1>1. /\ Append(s, e) \in Seq(X) /\ Len(Append(s, e)) = Len(s) + 1
      /\ \A k \in 1..Len(s) : Append(s, e)[k] = s[k]
      /\ Append(s, e)[Len(s) + 1] = e /\ Len(s) \in Nat
  OBVIOUS
<1>2. /\ QuantitiesOf(s) \in Seq(Int) /\ Len(QuantitiesOf(s)) = Len(s)
      /\ \A k \in 1..Len(s) : QuantitiesOf(s)[k] = s[k].quantity
  BY QuantitiesAreInts
<1>3. /\ QuantitiesOf(Append(s, e)) \in Seq(Int) /\ Len(QuantitiesOf(Append(s, e))) = Len(s) + 1
      /\ \A k \in 1..(Len(s) + 1) : QuantitiesOf(Append(s, e))[k] = Append(s, e)[k].quantity
  BY <1>1, QuantitiesAreInts
<1>4. \A k \in 1..Len(s) : QuantitiesOf(Append(s, e))[k] = QuantitiesOf(s)[k]
  <2> TAKE k \in 1..Len(s)
  <2>1. k \in 1..(Len(s) + 1) /\ Append(s, e)[k] = s[k]
    BY <1>1
  <2>2. QuantitiesOf(Append(s, e))[k] = Append(s, e)[k].quantity
    BY <1>3, <2>1
  <2>3. QuantitiesOf(s)[k] = s[k].quantity
    BY <1>2
  <2> QED BY ONLY <2>1, <2>2, <2>3
<1>5. Total(QuantitiesOf(Append(s, e))) = Total(QuantitiesOf(s)) + QuantitiesOf(Append(s, e))[Len(s) + 1]
  BY <1>2, <1>3, <1>4, TotalExtended
<1>6. QuantitiesOf(Append(s, e))[Len(s) + 1] = e.quantity
  BY <1>1, <1>3
<1> QED BY <1>5, <1>6 DEF SumQuantities

Weight(w, s) == Total([n \in DOMAIN s |-> w[s[n]]])

LEMMA WeightIs ==
  ASSUME NEW X, NEW w \in [X -> Int], NEW s \in Seq(X)
  PROVE  /\ [n \in DOMAIN s |-> w[s[n]]] \in Seq(Int)
         /\ Len([n \in DOMAIN s |-> w[s[n]]]) = Len(s)
         /\ \A k \in 1..Len(s) : [n \in DOMAIN s |-> w[s[n]]][k] = w[s[k]]
         /\ Weight(w, s) \in Int
<1>1. DOMAIN s = 1..Len(s) /\ Len(s) \in Nat /\ \A k \in 1..Len(s) : s[k] \in X
  OBVIOUS
<1>2. [n \in DOMAIN s |-> w[s[n]]] \in [1..Len(s) -> Int]
  BY <1>1
<1>3. [n \in DOMAIN s |-> w[s[n]]] \in Seq(Int) /\ Len([n \in DOMAIN s |-> w[s[n]]]) = Len(s)
  BY <1>1, <1>2
<1> QED BY <1>1, <1>3, TotalInt DEF Weight

LEMMA WeightOfNone == ASSUME NEW w PROVE Weight(w, << >>) = 0
<1>1. [n \in DOMAIN << >> |-> w[<< >>[n]]] = << >>
  OBVIOUS
<1> QED BY <1>1, TotalOfNone DEF Weight

LEMMA WeightOfOneMore ==
  ASSUME NEW X, NEW w \in [X -> Int], NEW s \in Seq(X), NEW e \in X
  PROVE  Weight(w, Append(s, e)) = Weight(w, s) + w[e]
<1>1. /\ Append(s, e) \in Seq(X) /\ Len(Append(s, e)) = Len(s) + 1
      /\ \A k \in 1..Len(s) : Append(s, e)[k] = s[k]
      /\ Append(s, e)[Len(s) + 1] = e /\ Len(s) \in Nat
  OBVIOUS
<1>2. PICK d, c : /\ d = [n \in DOMAIN s |-> w[s[n]]]
                  /\ c = [n \in DOMAIN Append(s, e) |-> w[Append(s, e)[n]]]
  OBVIOUS
<1>3. d \in Seq(Int) /\ Len(d) = Len(s) /\ \A k \in 1..Len(s) : d[k] = w[s[k]]
  BY <1>2, WeightIs
<1>4. /\ c \in Seq(Int) /\ Len(c) = Len(s) + 1
      /\ \A k \in 1..(Len(s) + 1) : c[k] = w[Append(s, e)[k]]
  BY <1>1, <1>2, WeightIs
<1>5. \A k \in 1..Len(s) : c[k] = d[k]
  <2> TAKE k \in 1..Len(s)
  <2>1. k \in 1..(Len(s) + 1)
    BY <1>1
  <2>2. c[k] = w[Append(s, e)[k]]
    BY ONLY <1>4, <2>1
  <2>3. d[k] = w[s[k]] /\ Append(s, e)[k] = s[k]
    BY <1>1, <1>3
  <2> QED BY ONLY <2>2, <2>3
<1>6. c[Len(s) + 1] = w[e]
  BY <1>1, <1>4
<1>7. Total(c) = Total(d) + c[Len(c)]
  BY ONLY <1>3, <1>4, <1>5, TotalExtended, ZenonT(60)
<1> QED BY <1>2, <1>4, <1>6, <1>7 DEF Weight

LEMMA WeightOfTwo ==
  ASSUME NEW X, NEW w \in [X -> Int], NEW s \in Seq(X), NEW t \in Seq(X)
  PROVE  Weight(w, s \o t) = Weight(w, s) + Weight(w, t)
<1>1. /\ s \o t \in Seq(X) /\ Len(s \o t) = Len(s) + Len(t)
      /\ Len(s) \in Nat /\ Len(t) \in Nat
  OBVIOUS
<1>2. \A k \in 1..(Len(s) + Len(t)) : (s \o t)[k] = IF k <= Len(s) THEN s[k] ELSE t[k - Len(s)]
  BY ConcatProperties
<1>3. PICK d, e, c : /\ d = [n \in DOMAIN s |-> w[s[n]]] /\ e = [n \in DOMAIN t |-> w[t[n]]]
                     /\ c = [n \in DOMAIN (s \o t) |-> w[(s \o t)[n]]]
  OBVIOUS
<1>4. d \in Seq(Int) /\ Len(d) = Len(s) /\ \A k \in 1..Len(s) : d[k] = w[s[k]]
  BY <1>3, WeightIs
<1>5. e \in Seq(Int) /\ Len(e) = Len(t) /\ \A k \in 1..Len(t) : e[k] = w[t[k]]
  BY <1>3, WeightIs
<1>6. /\ c \in Seq(Int) /\ Len(c) = Len(s) + Len(t)
      /\ \A k \in 1..(Len(s) + Len(t)) : c[k] = w[(s \o t)[k]]
  BY <1>1, <1>3, WeightIs
<1>7. \A k \in 1..Len(c) : c[k] = IF k <= Len(d) THEN d[k] ELSE e[k - Len(d)]
  <2> TAKE k \in 1..Len(c)
  <2>1. k \in 1..(Len(s) + Len(t))
    BY <1>6
  <2>2. CASE k <= Len(s)
    <3>1. k \in 1..Len(s)
      BY <1>1, <2>1, <2>2
    <3> QED BY <1>2, <1>4, <1>6, <2>1, <2>2, <3>1
  <2>3. CASE ~(k <= Len(s))
    <3>1. k - Len(s) \in 1..Len(t)
      BY <1>1, <2>1, <2>3
    <3>2. (s \o t)[k] = t[k - Len(s)]
      BY <1>2, <2>1, <2>3
    <3>3. c[k] = w[t[k - Len(s)]]
      BY <1>6, <2>1, <3>2
    <3>4. e[k - Len(s)] = w[t[k - Len(s)]]
      BY <1>5, <3>1
    <3> QED BY <1>4, <2>3, <3>3, <3>4
  <2> QED BY <2>2, <2>3
<1>8. Len(c) = Len(d) + Len(e)
  BY ONLY <1>4, <1>5, <1>6
<1>9. d \in Seq(Int) /\ e \in Seq(Int) /\ c \in Seq(Int)
  BY ONLY <1>4, <1>5, <1>6
<1>10. Total(c) = Total(d) + Total(e)
  BY ONLY <1>7, <1>8, <1>9, TotalJoined
<1> QED BY <1>3, <1>10 DEF Weight

LEMMA WeightsAgree ==
  ASSUME NEW w, NEW v, NEW s, \A k \in DOMAIN s : w[s[k]] = v[s[k]]
  PROVE  Weight(w, s) = Weight(v, s)
<1>1. [k \in DOMAIN s |-> w[s[k]]] = [k \in DOMAIN s |-> v[s[k]]]
  OBVIOUS
<1> QED BY <1>1 DEF Weight


-----------------------------------------------------------------------------
(***************************************************************************)
(* Sums over a finite set, among them the sum over the members of a set of *)
(* what each has of a sequence.                                            *)
(***************************************************************************)
LEMMA SumOfZeros ==
  ASSUME NEW S, IsFiniteSet(S), NEW f \in [S -> Int], \A x \in S : f[x] = 0
  PROVE  SumFunction(f) = 0
<1>1. [x \in S |-> f[x] + f[x]] = f
  OBVIOUS
<1>2. SumFunction(f) = SumFunction(f) + SumFunction(f)
  BY <1>1, SumAdded
<1>3. SumFunction(f) \in Int
  <2>1. DOMAIN f = S
    OBVIOUS
  <2> QED BY <2>1, SumOverInt
<1>4. PICK n : n = SumFunction(f)
  OBVIOUS
<1>5. n = n + n /\ n \in Int
  BY <1>2, <1>3, <1>4
<1>6. n = 0
  BY ONLY <1>5
<1> QED BY <1>4, <1>6

LEMMA SumOfNegated ==
  ASSUME NEW S, IsFiniteSet(S), NEW f \in [S -> Int], NEW g \in [S -> Int],
         \A x \in S : g[x] = -f[x]
  PROVE  SumFunction(g) = -SumFunction(f)
<1>1. PICK z : z = [x \in S |-> f[x] + g[x]]
  OBVIOUS
<1>2. z \in [S -> Int] /\ \A x \in S : z[x] = 0
  BY <1>1
<1>3. SumFunction(z) = 0
  BY <1>2, SumOfZeros
<1>4. SumFunction(z) = SumFunction(f) + SumFunction(g)
  BY <1>1, SumAdded
<1>5. DOMAIN f = S /\ DOMAIN g = S
  OBVIOUS
<1>6. SumFunction(f) \in Int
  BY <1>5, SumOverInt
<1>7. SumFunction(g) \in Int
  BY <1>5, SumOverInt
<1> QED BY <1>3, <1>4, <1>6, <1>7

LEMMA SumOfOne ==
  ASSUME NEW S, IsFiniteSet(S), NEW f \in [S -> Int], NEW a \in S,
         \A x \in S : x # a => f[x] = 0
  PROVE  SumFunction(f) = f[a]
<1>1. DOMAIN f = S
  OBVIOUS
<1>2. /\ SumFunction(f) = f[a] + SumFunction(Over(f, S \ {a}))
      /\ f[a] \in Int
  BY <1>1, SumWithout
<1>3. SumFunction(Over(f, S \ {a})) = 0
  <2>1. PICK T, g : T = S \ {a} /\ g = Over(f, T)
    OBVIOUS
  <2>2. IsFiniteSet(T)
    BY <2>1, FS_Subset
  <2>3. g \in [T -> Int] /\ \A x \in T : g[x] = 0
    BY <2>1 DEF Over
  <2>4. SumFunction(g) = 0
    BY <2>2, <2>3, SumOfZeros
  <2> QED BY <2>1, <2>4
<1> QED BY <1>2, <1>3

\* A sum of natural numbers is at least each of them.
LEMMA SumCovers ==
  ASSUME NEW f, IsFiniteSet(DOMAIN f), f \in [DOMAIN f -> Nat], NEW x \in DOMAIN f
  PROVE  SumFunction(f) \in Int /\ f[x] <= SumFunction(f)
<1>1. PICK S : S = DOMAIN f
  OBVIOUS
<1>2. IsFiniteSet(S) /\ f \in [S -> Int] /\ x \in S /\ \A y \in S : f[y] \in Nat
  BY <1>1
<1>3. PICK g : IsTally(g, f, S) /\ SumFunction(f) = g[S]
  BY <1>1, <1>2, SumIs
<1>4. \A s \in SUBSET S : g[s] \in Int
  BY <1>2, <1>3, TallyInt
<1>5. \A s \in SUBSET S : \A y \in s : g[s] = f[y] + g[s \ {y}]
  <2> SUFFICES ASSUME NEW s \in SUBSET S, NEW y \in s PROVE g[s] = f[y] + g[s \ {y}]
    OBVIOUS
  <2> QED BY <1>2, <1>3, TallyAny, SMTT(40)
<1> DEFINE F == { s \in SUBSET S : g[s] >= 0 }
<1>6. ASSUME NEW T \in SUBSET S, \A y \in T : T \ {y} \in F PROVE T \in F
  <2>1. CASE T = {}
    <3>1. g[T] = 0
      BY <1>3, <2>1 DEF IsTally
    <3> QED BY <3>1
  <2>2. CASE T # {}
    <3>1. PICK y : y \in T
      BY <2>2
    <3>2. PICK U : U = T \ {y}
      OBVIOUS
    <3>3. g[U] >= 0 /\ g[U] \in Int /\ f[y] \in Nat /\ g[T] = f[y] + g[U]
      BY <1>2, <1>4, <1>5, <1>6, <3>1, <3>2
    <3> QED BY <3>3
  <2> QED BY <2>1, <2>2
<1>7. SUBSET S \subseteq F
  <2> HIDE DEF F
  <2> QED BY <1>2, <1>6, EverySubset
<1>8. PICK U : U = S \ {x}
  OBVIOUS
<1>9. U \in SUBSET S /\ S \in SUBSET S
  BY <1>8
<1>10. g[U] >= 0 /\ g[U] \in Int /\ g[S] \in Int /\ f[x] \in Nat /\ g[S] = f[x] + g[U]
  BY <1>2, <1>4, <1>5, <1>7, <1>8, <1>9
<1> QED BY <1>3, <1>10

\* What the members of S have of each element adds up to its value: then what
\* they have of a sequence does.
Divided(S, W, X, v) ==
  /\ W \in [S -> [X -> Int]] /\ v \in [X -> Int]
  /\ \A x \in X : SumFunction([c \in S |-> W[c][x]]) = v[x]

LEMMA SumByOwner ==
  ASSUME NEW S, IsFiniteSet(S), NEW W, NEW X, NEW v, Divided(S, W, X, v), NEW s \in Seq(X)
  PROVE  SumFunction([c \in S |-> Weight(W[c], s)]) = Weight(v, s)
<1> DEFINE Has(t) == SumFunction([c \in S |-> Weight(W[c], t)])
           F == { n \in Nat : \A t \in Seq(X) : Len(t) = n => Has(t) = Weight(v, t) }
<1>1. W \in [S -> [X -> Int]] /\ v \in [X -> Int]
  BY DEF Divided
<1>2. 0 \in F
  <2> SUFFICES ASSUME NEW t \in Seq(X), Len(t) = 0 PROVE Has(t) = Weight(v, t)
    OBVIOUS
  <2>1. t = << >>
    OBVIOUS
  <2>2. Weight(v, t) = 0
    BY <2>1, WeightOfNone
  <2>3. PICK f : f = [c \in S |-> Weight(W[c], t)]
    OBVIOUS
  <2>4. \A c \in S : Weight(W[c], t) = 0
    BY <2>1, WeightOfNone
  <2>5. f \in [S -> Int] /\ \A c \in S : f[c] = 0
    BY <2>3, <2>4
  <2>6. SumFunction(f) = 0
    BY <2>5, SumOfZeros
  <2> QED BY <2>2, <2>3, <2>6
<1>3. ASSUME NEW n \in Nat, n \in F PROVE n + 1 \in F
  <2> SUFFICES ASSUME NEW t \in Seq(X), Len(t) = n + 1 PROVE Has(t) = Weight(v, t)
    OBVIOUS
  <2>1. t # << >>
    OBVIOUS
  <2>2. PICK r \in Seq(X), e \in X : t = Append(r, e)
    BY <2>1, SequenceEmptyOrAppend
  <2>3. Len(r) = n
    BY <2>2
  <2>4. Has(r) = Weight(v, r)
    BY <1>3, <2>3
  <2>5. Weight(v, t) = Weight(v, r) + v[e]
    BY <1>1, <2>2, WeightOfOneMore
  <2>6. PICK f, g, h : /\ f = [c \in S |-> Weight(W[c], r)] /\ g = [c \in S |-> W[c][e]]
                       /\ h = [c \in S |-> Weight(W[c], t)]
    OBVIOUS
  <2>7. ASSUME NEW c \in S
        PROVE  /\ Weight(W[c], r) \in Int /\ W[c][e] \in Int
               /\ Weight(W[c], t) = Weight(W[c], r) + W[c][e]
    <3>1. PICK w : w = W[c]
      OBVIOUS
    <3>2. w \in [X -> Int]
      BY <1>1, <3>1
    <3>3. Weight(w, r) \in Int
      BY <3>2, WeightIs
    <3>4. Weight(w, Append(r, e)) = Weight(w, r) + w[e]
      BY <3>2, WeightOfOneMore
    <3> QED BY <2>2, <3>1, <3>2, <3>3, <3>4
  <2>8. f \in [S -> Int] /\ g \in [S -> Int]
    BY <2>6, <2>7
  <2>9. h = [c \in S |-> f[c] + g[c]]
    BY <2>6, <2>7
  <2>10. SumFunction(h) = SumFunction(f) + SumFunction(g)
    BY <2>8, <2>9, SumAdded
  <2>11. SumFunction(g) = v[e]
    BY <2>6 DEF Divided
  <2> QED BY <2>4, <2>5, <2>6, <2>10, <2>11
<1>4. Nat \subseteq F
  <2> HIDE DEF F
  <2> QED BY <1>2, <1>3, EveryNumber
<1>5. Len(s) \in Nat
  OBVIOUS
<1> QED BY <1>4, <1>5

GroupedSum(f, S, K, key) ==
  SumFunction(f) = SumFunction([k \in K |-> SumFunction(Over(f, Group(S, key, k)))])

LEMMA SumIsGrouped ==
  ASSUME NEW S, IsFiniteSet(S), NEW f \in [S -> Int], NEW K, IsFiniteSet(K), NEW key \in [S -> K]
  PROVE  GroupedSum(f, S, K, key)
BY SumGrouped DEF GroupedSum


-----------------------------------------------------------------------------
(***************************************************************************)
(* Shares of an amount.                                                    *)
(***************************************************************************)
LEMMA TotalBounded ==
  ASSUME NEW d \in Seq(Int), NEW B \in Nat, \A k \in 1..Len(d) : -B <= d[k] /\ d[k] <= B
  PROVE  -(B * Len(d)) <= Total(d) /\ Total(d) <= B * Len(d)
<1>1. PICK f : IsRunning(f, d)
  BY RunningExists
<1>2. Total(d) = f[Len(d)]
  BY <1>1, TotalIs
<1>3. /\ Len(d) \in Nat /\ f[0] = 0 /\ \A k \in 0..Len(d) : f[k] \in Int
      /\ \A k \in 1..Len(d) : d[k] \in Int /\ f[k] = f[k - 1] + d[k]
  BY <1>1, RunningFacts
<1> DEFINE S == { k \in 0..Len(d) : -(B * k) <= f[k] /\ f[k] <= B * k }
<1>4. 0 \in S
  BY <1>3
<1>5. ASSUME NEW k \in 1..Len(d), k - 1 \in S PROVE k \in S
  <2>1. k - 1 \in 0..Len(d) /\ k \in 0..Len(d) /\ k \in Nat
    BY <1>3
  <2>2. PICK x, y, u, v : x = f[k - 1] /\ y = d[k] /\ u = B * (k - 1) /\ v = B * k
    OBVIOUS
  <2>3. v = u + B /\ u \in Int /\ v \in Int
    BY <2>1, <2>2
  <2>4. -u <= x /\ x <= u
    BY <1>5, <2>2
  <2>5. f[k] = x + y /\ x \in Int /\ y \in Int /\ -B <= y /\ y <= B
    BY <1>3, <2>1, <2>2
  <2>6. -v <= f[k] /\ f[k] <= v
    BY ONLY <2>3, <2>4, <2>5, B \in Nat
  <2> QED BY <2>1, <2>2, <2>6
<1>6. \A k \in 0..Len(d) : k \in S
  <2> HIDE DEF S
  <2> QED BY <1>3, <1>4, <1>5, Upward
<1> QED BY <1>2, <1>3, <1>6

LEMMA Division ==
  ASSUME NEW n \in Int, NEW d \in Nat \ {0}
  PROVE  /\ n \div d \in Int /\ n % d \in 0..(d - 1)
         /\ n = d * (n \div d) + (n % d)
OBVIOUS

LEMMA ProductPositive ==
  ASSUME NEW a \in Nat \ {0}, NEW b \in Nat \ {0}
  PROVE  a * b \in Nat \ {0}
OBVIOUS

LEMMA ProductOrdered ==
  ASSUME NEW a \in Int, NEW b \in Int, NEW u \in Nat, a <= b
  PROVE  a * u <= b * u
<1>1. (b - a) * u >= 0
  <2>1. \A x, y \in Nat : x * y >= 0
    OBVIOUS
  <2>2. b - a \in Nat
    OBVIOUS
  <2> QED BY <2>1, <2>2
<1>2. (b - a) * u = b * u - a * u
  OBVIOUS
<1> QED BY <1>1, <1>2

\* Half a cent of rounding, whichever way a tie goes.
LEMMA RoundedClosely ==
  ASSUME NEW n \in Int, NEW d \in Nat \ {0}
  PROVE  /\ Rounded(n, d) \in Int
         /\ -d <= 2 * (d * Rounded(n, d) - n) /\ 2 * (d * Rounded(n, d) - n) <= d
<1>1. PICK up, rest : up = (2 * n + d) \div (2 * d) /\ rest = (2 * n + d) % (2 * d)
  OBVIOUS
<1>2. 2 * n + d \in Int /\ 2 * d \in Nat \ {0}
  OBVIOUS
<1>3. up \in Int /\ rest \in 0..(2 * d - 1) /\ 2 * n + d = (2 * d) * up + rest
  BY <1>1, <1>2, Division
<1>4. Rounded(n, d) = IF rest = 0 /\ up % 2 = 1 THEN up - 1 ELSE up
  BY <1>1 DEF Rounded
<1>5. PICK p : p = d * up
  OBVIOUS
<1>6. p \in Int /\ (2 * d) * up = 2 * p /\ d * (up - 1) = p - d
  BY <1>3, <1>5
<1>7. 2 * n + d = 2 * p + rest
  BY <1>3, <1>6
<1>8. CASE rest = 0 /\ up % 2 = 1
  <2>1. Rounded(n, d) = up - 1 /\ d * Rounded(n, d) = p - d
    BY <1>4, <1>6, <1>8
  <2>2. 2 * (p - d - n) = -d
    BY ONLY <1>6, <1>7, <1>8, n \in Int, d \in Nat
  <2> QED BY <1>3, <2>1, <2>2
<1>9. CASE ~(rest = 0 /\ up % 2 = 1)
  <2>1. Rounded(n, d) = up /\ d * Rounded(n, d) = p
    BY <1>4, <1>5, <1>9
  <2>2. -d <= 2 * (p - n) /\ 2 * (p - n) <= d
    BY ONLY <1>3, <1>6, <1>7, n \in Int, d \in Nat \ {0}
  <2> QED BY <1>3, <2>1, <2>2
<1> QED BY <1>8, <1>9

\* The last share takes what rounding left over, which is bounded by the rounding
\* of all the others.
LEMMA SharesInProportion ==
  ASSUME NEW X, Quantified(X), NEW parts \in Seq(X), parts # << >>, NEW basis \in Int,
         SumQuantities(parts) \in Nat \ {0}
  PROVE  LET shares == BasisShares(parts, basis)
             total == SumQuantities(parts)
         IN /\ shares \in Seq(Int) /\ Len(shares) = Len(parts)
            /\ Total(shares) = basis
            /\ \A k \in 1..Len(parts) :
                 LET off == 2 * (total * shares[k] - basis * parts[k].quantity)
                     most == IF k < Len(parts) THEN total ELSE total * (Len(parts) - 1)
                 IN -most <= off /\ off <= most
<1>1. PICK n, T : n = Len(parts) /\ T = SumQuantities(parts)
  OBVIOUS
<1>2. n \in Nat \ {0} /\ DOMAIN parts = 1..n
  BY <1>1
<1>3. T \in Nat \ {0}
  BY <1>1
<1>4. PICK q : q = QuantitiesOf(parts)
  OBVIOUS
<1>5. q \in Seq(Int) /\ Len(q) = n /\ T = Total(q) /\ \A k \in 1..n : q[k] = parts[k].quantity
  BY <1>1, <1>4, QuantitiesAreInts DEF SumQuantities
<1>6. \A k \in 1..n : q[k] \in Int
  BY <1>2, <1>5
<1>7. PICK share : share = [k \in 1..n |-> Rounded(basis * q[k], T)]
  OBVIOUS
<1>8. \A k \in 1..n :
        /\ share[k] \in Int
        /\ -T <= 2 * (T * share[k] - basis * q[k]) /\ 2 * (T * share[k] - basis * q[k]) <= T
  <2> TAKE k \in 1..n
  <2>1. PICK m : m = basis * q[k]
    OBVIOUS
  <2>2. m \in Int
    BY <1>6, <2>1
  <2>3. /\ Rounded(m, T) \in Int
        /\ -T <= 2 * (T * Rounded(m, T) - m) /\ 2 * (T * Rounded(m, T) - m) <= T
    BY <1>3, <2>2, RoundedClosely
  <2>4. share[k] = Rounded(m, T)
    BY <1>7, <2>1
  <2> QED BY <2>1, <2>3, <2>4
<1>9. PICK first : first = [k \in 1..(n - 1) |-> share[k]]
  OBVIOUS
<1>10. first \in Seq(Int) /\ Len(first) = n - 1
  <2>1. n - 1 \in Nat /\ \A k \in 1..(n - 1) : share[k] \in Int
    BY <1>2, <1>8
  <2> QED BY <1>9, <2>1
<1>11. Total(first) \in Int
  BY <1>10, TotalInt
<1>12. PICK b : b = [k \in 1..n |-> IF k < n THEN share[k] ELSE basis - Total(first)]
  OBVIOUS
<1>13. BasisShares(parts, basis) = b
  <2> DEFINE s == [k \in DOMAIN parts |-> Rounded(basis * parts[k].quantity, SumQuantities(parts))]
             given == Total([k \in 1 .. Len(parts) - 1 |-> s[k]])
  <2>1. BasisShares(parts, basis)
          = [k \in DOMAIN parts |-> IF k < Len(parts) THEN s[k] ELSE basis - given]
    BY DEF BasisShares
  <2>2. s = share
    BY <1>1, <1>2, <1>5, <1>7
  <2>3. given = Total(first)
    <3> HIDE DEF s
    <3> QED BY <1>1, <1>9, <2>2
  <2> HIDE DEF s, given
  <2> QED BY <1>1, <1>2, <1>12, <2>1, <2>2, <2>3
<1>14. b \in Seq(Int) /\ Len(b) = n
  <2>1. \A k \in 1..n : b[k] \in Int
    BY <1>8, <1>11, <1>12
  <2> QED BY <1>2, <1>12, <2>1
<1>15. Total(b) = basis
  <2>1. \A k \in 1..Len(first) : b[k] = first[k]
    BY <1>2, <1>9, <1>10, <1>12
  <2>2. Len(b) = Len(first) + 1
    BY <1>2, <1>10, <1>14
  <2>3. Total(b) = Total(first) + b[Len(b)]
    BY <1>10, <1>14, <2>1, <2>2, TotalExtended
  <2>4. b[n] = basis - Total(first)
    BY <1>2, <1>12
  <2> QED BY <1>11, <1>14, <2>3, <2>4
<1> DEFINE Off(k) == 2 * (T * b[k] - basis * q[k])
<1>16. \A k \in 1..n : Off(k) \in Int /\ b[k] \in Int
  BY <1>3, <1>6, <1>14, SMTT(40)
<1>17. \A k \in 1..(n - 1) : -T <= Off(k) /\ Off(k) <= T
  <2> TAKE k \in 1..(n - 1)
  <2>1. k \in 1..n /\ k < n
    BY <1>2
  <2>2. b[k] = share[k]
    BY <1>12, <2>1
  <2> QED BY <1>8, <2>1, <2>2
<1>18. Off(n) = -Total([k \in 1..(n - 1) |-> Off(k)])
  <2>1. PICK off, scaled, given, early :
          /\ off = [k \in 1..n |-> Off(k)] /\ scaled = [k \in 1..n |-> b[k] * (2 * T)]
          /\ given = [k \in 1..n |-> q[k] * (-(2 * basis))] /\ early = [k \in 1..(n - 1) |-> Off(k)]
    OBVIOUS
  <2>2. off \in Seq(Int) /\ Len(off) = n
    <3>1. n \in Nat /\ \A k \in 1..n : Off(k) \in Int
      BY <1>2, <1>16
    <3> HIDE DEF Off
    <3>2. off = [k \in 1..n |-> Off(k)]
      BY <2>1
    <3> QED BY ONLY <3>1, <3>2
  <2>3. scaled \in Seq(Int) /\ Len(scaled) = n
    <3>1. \A k \in 1..n : b[k] * (2 * T) \in Int
      BY <1>3, <1>16
    <3> QED BY <1>2, <2>1, <3>1
  <2>4. given \in Seq(Int) /\ Len(given) = n
    <3>1. \A k \in 1..n : q[k] * (-(2 * basis)) \in Int
      BY <1>6
    <3> QED BY <1>2, <2>1, <3>1
  <2>5. early \in Seq(Int) /\ Len(early) = n - 1
    <3>1. n - 1 \in Nat /\ \A k \in 1..(n - 1) : Off(k) \in Int
      BY <1>2, <1>16
    <3> HIDE DEF Off
    <3>2. early = [k \in 1..(n - 1) |-> Off(k)]
      BY <2>1
    <3> QED BY ONLY <3>1, <3>2
  <2>6. Total(scaled) = basis * (2 * T)
    <3>1. \A k \in 1..Len(b) : scaled[k] = b[k] * (2 * T)
      BY <1>14, <2>1
    <3>2. 2 * T \in Int
      BY <1>3
    <3>3. Total(scaled) = Total(b) * (2 * T)
      BY <1>14, <2>3, <3>1, <3>2, TotalScaled, ZenonT(60)
    <3> QED BY <1>15, <3>3
  <2>7. Total(given) = T * (-(2 * basis))
    <3>1. \A k \in 1..Len(q) : given[k] = q[k] * (-(2 * basis))
      BY <1>5, <2>1
    <3>2. -(2 * basis) \in Int
      OBVIOUS
    <3>3. Total(given) = Total(q) * (-(2 * basis))
      BY <1>5, <2>4, <3>1, <3>2, TotalScaled
    <3> QED BY <1>5, <3>3
  <2>8. \A k \in 1..n : off[k] = scaled[k] + given[k]
    <3> TAKE k \in 1..n
    <3>1. PICK x, y : x = b[k] /\ y = q[k]
      OBVIOUS
    <3>2. x \in Int /\ y \in Int
      BY <1>6, <1>16, <3>1
    <3>3. off[k] = 2 * (T * x - basis * y) /\ scaled[k] = x * (2 * T) /\ given[k] = y * (-(2 * basis))
      BY <2>1, <3>1
    <3>4. 2 * (T * x - basis * y) = x * (2 * T) + y * (-(2 * basis))
      BY ONLY <1>3, <3>2, basis \in Int
    <3> QED BY <3>3, <3>4
  <2>9. Total(off) = Total(scaled) + Total(given)
    BY <2>2, <2>3, <2>4, <2>8, TotalAdded, ZenonT(60)
  <2>10. Total(off) = 0
    <3>1. basis * (2 * T) + T * (-(2 * basis)) = 0
      BY ONLY <1>3, basis \in Int
    <3> QED BY <2>6, <2>7, <2>9, <3>1
  <2>11. Total(off) = Total(early) + off[n]
    <3>1. Len(off) = Len(early) + 1
      BY <1>2, <2>2, <2>5
    <3>2. \A k \in 1..Len(early) : off[k] = early[k]
      <4>1. \A k \in 1..(n - 1) : k \in 1..n
        BY <1>2
      <4> QED BY <2>1, <2>5, <4>1
    <3> QED BY <2>2, <2>5, <3>1, <3>2, TotalExtended
  <2>12. off[n] = Off(n) /\ Off(n) \in Int
    BY <1>2, <1>16, <2>1
  <2>13. Total(early) \in Int
    BY <2>5, TotalInt
  <2> HIDE DEF Off
  <2>14. Off(n) = -Total(early)
    BY ONLY <2>10, <2>11, <2>12, <2>13
  <2> QED BY <2>1, <2>14
<1>19. -(T * (n - 1)) <= Off(n) /\ Off(n) <= T * (n - 1)
  <2>1. PICK early : early = [k \in 1..(n - 1) |-> Off(k)]
    OBVIOUS
  <2>2. early \in Seq(Int) /\ Len(early) = n - 1
    <3>1. n - 1 \in Nat /\ \A k \in 1..(n - 1) : Off(k) \in Int
      BY <1>2, <1>16
    <3> HIDE DEF Off
    <3>2. early = [k \in 1..(n - 1) |-> Off(k)]
      BY <2>1
    <3> QED BY ONLY <3>1, <3>2
  <2>3. \A k \in 1..Len(early) : -T <= early[k] /\ early[k] <= T
    BY <1>17, <2>1, <2>2
  <2>4. -(T * (n - 1)) <= Total(early) /\ Total(early) <= T * (n - 1)
    BY <1>3, <2>2, <2>3, TotalBounded
  <2>5. Total(early) \in Int /\ T * (n - 1) \in Int
    BY <1>2, <1>3, <2>2, TotalInt
  <2>6. Off(n) = -Total(early)
    BY <1>18, <2>1
  <2> HIDE DEF Off
  <2>7. PICK m, e : m = T * (n - 1) /\ e = Total(early)
    OBVIOUS
  <2> QED BY <2>4, <2>5, <2>6, <2>7
<1>20. ASSUME NEW k \in 1..n
       PROVE  LET off == 2 * (T * b[k] - basis * parts[k].quantity)
                  most == IF k < n THEN T ELSE T * (n - 1)
              IN -most <= off /\ off <= most
  <2>1. q[k] = parts[k].quantity
    BY <1>5
  <2>2. CASE k < n
    <3>1. k \in 1..(n - 1)
      BY <1>2, <2>2
    <3> QED BY <1>17, <2>1, <2>2, <3>1
  <2>3. CASE ~(k < n)
    <3>1. k = n
      BY <1>2, <2>3
    <3> QED BY <1>19, <2>1, <2>3, <3>1
  <2> QED BY <2>2, <2>3
<1> HIDE DEF Off
<1> QED BY <1>1, <1>13, <1>14, <1>15, <1>20

LEMMA SharesOfNothing == ASSUME NEW basis PROVE BasisShares(<< >>, basis) = << >>
BY DEF BasisShares


-----------------------------------------------------------------------------
(***************************************************************************)
(* Items in the order of their times.                                      *)
(***************************************************************************)
LEMMA FirstNumbers == ASSUME NEW n \in Nat PROVE IsFiniteSet(1..n) /\ Cardinality(1..n) = n
BY FS_Interval

LEMMA BeforeGrows ==
  ASSUME NEW X, \A x \in X : x.time \in Nat, NEW items \in Seq(X),
         NEW i \in DOMAIN items, NEW j \in DOMAIN items
  PROVE  /\ IsFiniteSet(Before(items, j)) /\ Cardinality(Before(items, j)) \in 0..(Len(items) - 1)
         /\ i \in Before(items, j) => Cardinality(Before(items, i)) < Cardinality(Before(items, j))
<1> DEFINE N == Len(items)
<1>1. N \in Nat /\ DOMAIN items = 1..N /\ \A k \in 1..N : items[k].time \in Nat
  OBVIOUS
<1>2. IsFiniteSet(1..N) /\ Cardinality(1..N) = N
  BY <1>1, FirstNumbers
<1>3. ASSUME NEW k \in 1..N
      PROVE  IsFiniteSet(Before(items, k)) /\ Cardinality(Before(items, k)) \in 0..(N - 1)
  <2>1. Before(items, k) \subseteq (1..N) \ {k}
    BY <1>1 DEF Before
  <2>2. IsFiniteSet((1..N) \ {k}) /\ Cardinality((1..N) \ {k}) = N - 1
    BY <1>2, FS_RemoveElement, ZenonT(60)
  <2>3. IsFiniteSet(Before(items, k)) /\ Cardinality(Before(items, k)) <= N - 1
    BY <2>1, <2>2, FS_Subset
  <2>4. Cardinality(Before(items, k)) \in Nat
    BY <2>3, FS_CardinalityType
  <2> QED BY <1>1, <2>3, <2>4
<1>4. ASSUME i \in Before(items, j) PROVE Cardinality(Before(items, i)) < Cardinality(Before(items, j))
  <2>1. items[i].time < items[j].time \/ (items[i].time = items[j].time /\ i < j)
    BY <1>4 DEF Before
  <2>2. \A k \in Before(items, i) : k \in Before(items, j) \ {i}
    <3> TAKE k \in Before(items, i)
    <3>1. /\ k \in 1..N /\ items[k].time \in Nat
          /\ items[k].time < items[i].time \/ (items[k].time = items[i].time /\ k < i)
      BY <1>1 DEF Before
    <3>2. items[k].time < items[j].time \/ (items[k].time = items[j].time /\ k < j)
      BY <1>1, <2>1, <3>1
    <3>3. k # i
      BY <1>1, <3>1
    <3> QED BY <1>1, <3>1, <3>2, <3>3 DEF Before
  <2>3. IsFiniteSet(Before(items, j) \ {i})
        /\ Cardinality(Before(items, j) \ {i}) = Cardinality(Before(items, j)) - 1
    BY <1>1, <1>3, <1>4, FS_RemoveElement
  <2>4. Cardinality(Before(items, i)) <= Cardinality(Before(items, j) \ {i})
    <3>1. Before(items, i) \in SUBSET (Before(items, j) \ {i})
      BY <2>2
    <3> QED BY <2>3, <3>1, FS_Subset
  <2>5. Cardinality(Before(items, i)) \in Nat /\ Cardinality(Before(items, j)) \in Nat
    BY <1>1, <1>3
  <2> QED BY <2>3, <2>4, <2>5
<1> QED BY <1>1, <1>3, <1>4

\* Of two items one has more before it than the other.
LEMMA PlacesDiffer ==
  ASSUME NEW X, \A x \in X : x.time \in Nat, NEW items \in Seq(X),
         NEW i \in DOMAIN items, NEW j \in DOMAIN items,
         Cardinality(Before(items, i)) = Cardinality(Before(items, j))
  PROVE  i = j
<1>1. i \in Nat /\ j \in Nat /\ items[i].time \in Nat /\ items[j].time \in Nat
  OBVIOUS
<1>2. /\ i \in Before(items, j) => Cardinality(Before(items, i)) < Cardinality(Before(items, j))
      /\ j \in Before(items, i) => Cardinality(Before(items, j)) < Cardinality(Before(items, i))
  BY BeforeGrows
<1>3. Cardinality(Before(items, i)) \in Int /\ Cardinality(Before(items, j)) \in Int
  <2>1. Len(items) \in Nat
    OBVIOUS
  <2> QED BY <2>1, BeforeGrows
<1>4. ~(i \in Before(items, j)) /\ ~(j \in Before(items, i))
  BY <1>2, <1>3
<1> QED BY <1>1, <1>4 DEF Before

\* Of items that each have a time, exactly n - 1 come before the one at place n.
LEMMA EveryPlaceTaken ==
  ASSUME NEW X, \A x \in X : x.time \in Nat, NEW items \in Seq(X), NEW n \in 1..Len(items)
  PROVE  \E j \in DOMAIN items : Cardinality(Before(items, j)) = n - 1
<1> DEFINE N == Len(items)
           rank == [j \in 1..N |-> Cardinality(Before(items, j))]
<1>1. N \in Nat /\ DOMAIN items = 1..N
  OBVIOUS
<1>2. IsFiniteSet(1..N) /\ Cardinality(1..N) = N
  BY <1>1, FirstNumbers
<1>3. \A j \in 1..N : rank[j] \in 0..(N - 1)
  BY <1>1, BeforeGrows
<1>4. ASSUME NEW i \in 1..N, NEW j \in 1..N, rank[i] = rank[j] PROVE i = j
  BY <1>1, <1>4, PlacesDiffer
<1>5. SUFFICES ASSUME \A j \in 1..N : rank[j] # n - 1 PROVE FALSE
  BY <1>1
<1> DEFINE places == (0..(N - 1)) \ {n - 1}
<1>6. IsFiniteSet(places) /\ Cardinality(places) < N
  <2>1. 0 \in Int /\ N - 1 \in Int /\ ~(0 > N - 1) /\ N - 1 - 0 + 1 = N
    BY <1>1
  <2>2. IsFiniteSet(0..(N - 1)) /\ Cardinality(0..(N - 1)) = N
    <3> HIDE DEF N
    <3> QED BY <2>1, FS_Interval
  <2>3. n - 1 \in 0..(N - 1)
    BY <1>1
  <2>4. IsFiniteSet(places) /\ Cardinality(places) = N - 1
    BY <2>2, <2>3, FS_RemoveElement, ZenonT(60)
  <2> QED BY <1>1, <2>4
<1>7. rank \in [1..N -> places]
  <2>1. \A j \in 1..N : rank[j] \in places
    BY <1>3, <1>5
  <2> QED BY <2>1
<1>8. \E i, j \in 1..N : i # j /\ rank[i] = rank[j]
  <2> HIDE DEF N, rank, places
  <2>1. Cardinality(places) < Cardinality(1..N)
    BY <1>2, <1>6
  <2> QED BY <1>2, <1>6, <1>7, <2>1, FS_PigeonHole
<1> QED BY <1>4, <1>8

LEMMA TimelineItems ==
  ASSUME NEW X, \A x \in X : x.time \in Nat, NEW ts \in Seq(X), NEW es \in Seq(X)
  PROVE  /\ Timeline(ts, es) \in Seq(X)
         /\ \A n \in DOMAIN Timeline(ts, es) : Timeline(ts, es)[n] \in ToSet(ts) \cup ToSet(es)
<1>1. PICK items : items = ts \o es
  OBVIOUS
<1>2. items \in Seq(X) /\ DOMAIN items = 1..Len(items) /\ Len(items) \in Nat
  BY <1>1
<1>3. \A j \in DOMAIN items : items[j] \in ToSet(ts) \cup ToSet(es)
  <2> TAKE j \in DOMAIN items
  <2>1. /\ Len(items) = Len(ts) + Len(es) /\ Len(ts) \in Nat /\ Len(es) \in Nat
        /\ items[j] = IF j <= Len(ts) THEN ts[j] ELSE es[j - Len(ts)]
        /\ DOMAIN ts = 1..Len(ts) /\ DOMAIN es = 1..Len(es)
    BY <1>1, <1>2, ConcatProperties
  <2>2. CASE j <= Len(ts)
    BY <1>2, <2>1, <2>2 DEF ToSet
  <2>3. CASE ~(j <= Len(ts))
    <3>1. j - Len(ts) \in DOMAIN es /\ items[j] = es[j - Len(ts)]
      BY <1>2, <2>1, <2>3
    <3> QED BY <3>1 DEF ToSet
  <2> QED BY <2>2, <2>3
<1>4. PICK place : place = [n \in DOMAIN items |->
        CHOOSE j \in DOMAIN items : Cardinality(Before(items, j)) = n - 1]
  OBVIOUS
<1>5. Timeline(ts, es) = [n \in DOMAIN items |-> items[place[n]]]
  <2>1. Timeline(ts, es) = [n \in DOMAIN items |->
          items[CHOOSE j \in DOMAIN items : Cardinality(Before(items, j)) = n - 1]]
    BY <1>1 DEF Timeline
  <2>2. \A n \in DOMAIN items :
          place[n] = CHOOSE j \in DOMAIN items : Cardinality(Before(items, j)) = n - 1
    BY <1>4
  <2> QED BY <2>1, <2>2
<1>6. \A n \in DOMAIN items : place[n] \in DOMAIN items
  BY <1>2, <1>4, EveryPlaceTaken
<1>7. \A n \in DOMAIN items : items[place[n]] \in X
  BY <1>2, <1>6
<1>8. [n \in DOMAIN items |-> items[place[n]]] \in Seq(X)
  <2>1. [n \in DOMAIN items |-> items[place[n]]] \in [1..Len(items) -> X]
    BY <1>2, <1>7
  <2> QED BY <1>2, <2>1
<1> QED BY <1>3, <1>5, <1>6, <1>8

\* Trades in another order of their file, but for those of one instant, are
\* replayed in the same order.
Reorders(q, ts, us) ==
  /\ Len(us) = Len(ts) /\ q \in [1..Len(ts) -> 1..Len(ts)]
  /\ \A k \in 1..Len(ts) : us[q[k]] = ts[k]
  /\ \A j, k \in 1..Len(ts) : q[j] = q[k] => j = k
  /\ \A m \in 1..Len(ts) : \E k \in 1..Len(ts) : q[k] = m
  /\ \A j, k \in 1..Len(ts) : j < k /\ ts[j].time = ts[k].time => q[j] < q[k]

LEMMA SameTimeline ==
  ASSUME NEW X, \A x \in X : x.time \in Nat, NEW ts \in Seq(X), NEW us \in Seq(X), NEW es \in Seq(X),
         NEW q, Reorders(q, ts, us)
  PROVE  Timeline(us, es) = Timeline(ts, es)
<1>0. /\ Len(us) = Len(ts) /\ q \in [1..Len(ts) -> 1..Len(ts)]
      /\ \A k \in 1..Len(ts) : us[q[k]] = ts[k]
      /\ \A j, k \in 1..Len(ts) : q[j] = q[k] => j = k
      /\ \A m \in 1..Len(ts) : \E k \in 1..Len(ts) : q[k] = m
      /\ \A j, k \in 1..Len(ts) : j < k /\ ts[j].time = ts[k].time => q[j] < q[k]
  BY DEF Reorders
<1>1. PICK a, b, n, N : a = ts \o es /\ b = us \o es /\ n = Len(ts) /\ N = Len(ts) + Len(es)
  OBVIOUS
<1>2. /\ n \in Nat /\ N \in Nat /\ n <= N /\ a \in Seq(X) /\ b \in Seq(X)
      /\ DOMAIN a = 1..N /\ DOMAIN b = 1..N /\ Len(a) = N /\ Len(b) = N
      /\ \A k \in 1..N : a[k] = IF k <= n THEN ts[k] ELSE es[k - n]
      /\ \A k \in 1..N : b[k] = IF k <= n THEN us[k] ELSE es[k - n]
  <2>1. Len(ts) \in Nat /\ Len(es) \in Nat
    OBVIOUS
  <2>2. /\ a \in Seq(X) /\ Len(a) = N
        /\ \A k \in 1..Len(a) : a[k] = IF k <= Len(ts) THEN ts[k] ELSE es[k - Len(ts)]
    BY <1>1, ConcatProperties
  <2>3. /\ b \in Seq(X) /\ Len(b) = N
        /\ \A k \in 1..Len(b) : b[k] = IF k <= Len(us) THEN us[k] ELSE es[k - Len(us)]
    BY <1>0, <1>1, ConcatProperties
  <2>4. DOMAIN a = 1..N /\ DOMAIN b = 1..N
    BY <2>2, <2>3
  <2> QED BY <1>1, <2>1, <2>2, <2>3, <2>4
<1>3. PICK p : p = [k \in 1..N |-> IF k <= n THEN q[k] ELSE k]
  OBVIOUS
<1>4. ASSUME NEW k \in 1..N
      PROVE  /\ p[k] \in 1..N /\ b[p[k]] = a[k] /\ (k <= n <=> p[k] <= n)
             /\ a[k].time \in Nat
             /\ p[k] = IF k <= n THEN q[k] ELSE k
  <2>1. a[k].time \in Nat
    BY <1>2
  <2>2. CASE k <= n
    <3>0. k \in 1..Len(ts) /\ k \in 1..N /\ p[k] = q[k]
      BY <1>1, <1>2, <1>3, <2>2
    <3>1. k \in 1..Len(ts) /\ p[k] = q[k] /\ q[k] \in 1..n
      BY <1>0, <1>1, <3>0
    <3>2. us[q[k]] = ts[k]
      BY <1>0, <3>1
    <3>3. p[k] \in 1..N /\ p[k] <= n
      BY <1>2, <3>1
    <3>4. b[p[k]] = us[p[k]] /\ a[k] = ts[k]
      BY <1>2, <2>2, <3>3
    <3> QED BY <2>1, <2>2, <3>1, <3>2, <3>3, <3>4
  <2>3. CASE ~(k <= n)
    BY <1>2, <1>3, <2>1, <2>3
  <2> QED BY <2>2, <2>3
<1>5. ASSUME NEW j \in 1..N, NEW k \in 1..N, p[j] = p[k] PROVE j = k
  <2>1. CASE j <= n
    <3>1. k <= n
      BY <1>4, <1>5, <2>1
    <3>2. j \in 1..Len(ts) /\ k \in 1..Len(ts) /\ q[j] = q[k]
      BY <1>1, <1>2, <1>4, <1>5, <2>1, <3>1
    <3> QED BY <1>0, <3>2
  <2>2. CASE ~(j <= n)
    <3>1. ~(k <= n)
      BY <1>4, <1>5, <2>2
    <3> QED BY <1>4, <1>5, <2>2, <3>1
  <2> QED BY <2>1, <2>2
<1>6. ASSUME NEW m \in 1..N PROVE \E k \in 1..N : p[k] = m
  <2>1. CASE m <= n
    <3>1. m \in 1..Len(ts)
      BY <1>1, <1>2, <2>1
    <3>2. PICK k \in 1..Len(ts) : q[k] = m
      BY <1>0, <3>1
    <3>3. k \in 1..N /\ k <= n
      BY <1>1, <1>2
    <3> QED BY <1>4, <3>2, <3>3
  <2>2. CASE ~(m <= n)
    BY <1>4, <2>2
  <2> QED BY <2>1, <2>2
<1>7. ASSUME NEW j \in 1..N, NEW k \in 1..N, a[j].time = a[k].time, j < k PROVE p[j] < p[k]
  <2>1. CASE k <= n
    <3>1. j <= n /\ j \in 1..Len(ts) /\ k \in 1..Len(ts)
      BY <1>1, <1>2, <1>7, <2>1
    <3>2. ts[j].time = ts[k].time
      BY <1>2, <1>7, <2>1, <3>1
    <3>3. q[j] < q[k]
      BY <1>0, <1>7, <3>1, <3>2
    <3> QED BY <1>4, <2>1, <3>1, <3>3
  <2>2. CASE ~(k <= n)
    <3>1. CASE j <= n
      <4>1. p[j] <= n /\ p[k] = k /\ p[j] \in 1..N
        BY <1>4, <2>2, <3>1
      <4> QED BY <1>2, <2>2, <4>1
    <3>2. CASE ~(j <= n)
      BY <1>4, <1>7, <2>2, <3>2
    <3> QED BY <3>1, <3>2
  <2> QED BY <2>1, <2>2
<1>8. ASSUME NEW j \in 1..N, NEW k \in 1..N
      PROVE  j \in Before(a, k) <=> p[j] \in Before(b, p[k])
  <2>1. /\ p[j] \in 1..N /\ p[k] \in 1..N /\ b[p[j]] = a[j] /\ b[p[k]] = a[k]
        /\ a[j].time \in Nat /\ a[k].time \in Nat
    BY <1>4
  <2>2. a[j].time = a[k].time => (j < k <=> p[j] < p[k])
    <3>1. SUFFICES ASSUME a[j].time = a[k].time, p[j] < p[k] PROVE j < k
      BY <1>7
    <3>2. ~(k < j)
      <4>1. k < j => p[k] < p[j]
        BY <1>7, <3>1
      <4> QED BY <2>1, <3>1, <4>1
    <3>3. k # j
      BY <2>1, <3>1
    <3> QED BY <3>2, <3>3
  <2>3. j \in Before(a, k) <=> (a[j].time < a[k].time \/ (a[j].time = a[k].time /\ j < k))
    BY <1>2 DEF Before
  <2>4. p[j] \in Before(b, p[k]) <=>
          (a[j].time < a[k].time \/ (a[j].time = a[k].time /\ p[j] < p[k]))
    BY <1>2, <2>1 DEF Before
  <2> QED BY <2>2, <2>3, <2>4
<1>9. ASSUME NEW k \in 1..N PROVE Cardinality(Before(b, p[k])) = Cardinality(Before(a, k))
  <2>1. PICK S, T : S = Before(a, k) /\ T = Before(b, p[k])
    OBVIOUS
  <2>2. S \subseteq 1..N /\ T \subseteq 1..N
    BY <1>2, <2>1 DEF Before
  <2>3. IsFiniteSet(S)
    <3>1. IsFiniteSet(1..N)
      BY <1>2, FirstNumbers
    <3> QED BY <2>2, <3>1, FS_Subset
  <2>4. PICK h : h = [j \in S |-> p[j]]
    OBVIOUS
  <2>5. h \in [S -> T]
    <3>1. \A j \in S : p[j] \in T
      BY <1>8, <2>1, <2>2
    <3> QED BY <2>4, <3>1
  <2>6. \A i, j \in S : h[i] = h[j] => i = j
    BY <1>5, <2>2, <2>4
  <2>7. \A m \in T : \E j \in S : h[j] = m
    <3> TAKE m \in T
    <3>1. PICK j \in 1..N : p[j] = m
      BY <1>6, <2>2
    <3>2. j \in S
      BY <1>8, <2>1, <3>1
    <3> QED BY <2>4, <3>1, <3>2
  <2>8. h \in Bijection(S, T)
    BY <2>5, <2>6, <2>7 DEF Bijection, Injection, Surjection, IsInjective
  <2>9. ExistsBijection(S, T)
    BY <2>8 DEF ExistsBijection
  <2> QED BY <2>1, <2>3, <2>9, FS_Bijection
<1> DEFINE At(s, m) == CHOOSE j \in DOMAIN s : Cardinality(Before(s, j)) = m - 1
<1>10. ASSUME NEW m \in 1..N PROVE b[At(b, m)] = a[At(a, m)]
  <2>1. PICK j, i : j = At(a, m) /\ i = At(b, m)
    OBVIOUS
  <2>2. j \in 1..N /\ Cardinality(Before(a, j)) = m - 1
    <3>0. m \in 1..Len(a) /\ a \in Seq(X) /\ \A x \in X : x.time \in Nat
      BY <1>2
    <3>1. \E k \in DOMAIN a : Cardinality(Before(a, k)) = m - 1
      BY <3>0, EveryPlaceTaken
    <3>2. j \in DOMAIN a /\ Cardinality(Before(a, j)) = m - 1
      BY <2>1, <3>1, Zenon
    <3> QED BY <1>2, <3>2
  <2>3. i \in 1..N /\ Cardinality(Before(b, i)) = m - 1
    <3>0. m \in 1..Len(b) /\ b \in Seq(X) /\ \A x \in X : x.time \in Nat
      BY <1>2
    <3>1. \E k \in DOMAIN b : Cardinality(Before(b, k)) = m - 1
      BY <3>0, EveryPlaceTaken
    <3>2. i \in DOMAIN b /\ Cardinality(Before(b, i)) = m - 1
      BY <2>1, <3>1, Zenon
    <3> QED BY <1>2, <3>2
  <2>4. p[j] \in DOMAIN b /\ i \in DOMAIN b /\ Cardinality(Before(b, p[j])) = Cardinality(Before(b, i))
    BY <1>2, <1>4, <1>9, <2>2, <2>3
  <2>5. i = p[j]
    BY <1>2, <2>4, PlacesDiffer
  <2>6. b[p[j]] = a[j]
    BY <1>4, <2>2
  <2> QED BY <2>1, <2>5, <2>6, Zenon
<1>11. Timeline(us, es) = [m \in 1..N |-> b[At(b, m)]]
  BY <1>1, <1>2 DEF Timeline
<1>12. Timeline(ts, es) = [m \in 1..N |-> a[At(a, m)]]
  BY <1>1, <1>2 DEF Timeline
<1> HIDE DEF At
<1> QED BY <1>10, <1>11, <1>12
=============================================================================
