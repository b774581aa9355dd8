---------------------------- MODULE ReplayProofs ----------------------------
(***************************************************************************)
(* Proofs about the lot book and the period replay.                        *)
(***************************************************************************)
EXTENDS PeriodReplay, TotalsProofs

Lots == Seq(Lot)

-----------------------------------------------------------------------------
(* What the sequence operators of the lot book return. *)

LEMMA AppendElements ==
  ASSUME NEW s \in Lots, NEW e \in Lot
  PROVE  /\ Append(s, e) \in Lots
         /\ DOMAIN Append(s, e) = 1..(Len(s) + 1)
         /\ \A k \in 1..Len(s) : Append(s, e)[k] = s[k]
         /\ Append(s, e)[Len(s) + 1] = e
BY DEF Lots

LEMMA ConcatElements ==
  ASSUME NEW s \in Lots, NEW t \in Lots
  PROVE  /\ s \o t \in Lots
         /\ DOMAIN (s \o t) = 1..(Len(s) + Len(t))
         /\ \A k \in 1..Len(s) : (s \o t)[k] = s[k]
         /\ \A k \in 1..Len(t) : (s \o t)[Len(s) + k] = t[k]
BY DEF Lots

LEMMA RemoveElements ==
  ASSUME NEW s \in Lots, NEW k \in 1..Len(s)
  PROVE  /\ RemoveAt(s, k) \in Lots
         /\ Len(RemoveAt(s, k)) = Len(s) - 1
         /\ \A j \in 1..(Len(s) - 1) :
              RemoveAt(s, k)[j] = IF j < k THEN s[j] ELSE s[j + 1]
<1> DEFINE a == SubSeq(s, 1, k - 1)
           b == SubSeq(s, k + 1, Len(s))
<1>1. a \in Lots /\ Len(a) = k - 1 /\ \A j \in 1..(k - 1) : a[j] = s[j]
  BY DEF Lots
<1>2. b \in Lots /\ Len(b) = Len(s) - k /\ \A j \in 1..(Len(s) - k) : b[j] = s[j + k]
  BY DEF Lots
<1>3. RemoveAt(s, k) = a \o b
  BY DEF RemoveAt
<1> HIDE DEF a, b
<1>4. Len(s) \in Nat
  BY DEF Lots
<1>5. /\ a \o b \in Lots /\ Len(a \o b) = Len(a) + Len(b)
      /\ \A j \in 1..(Len(a) + Len(b)) :
           (a \o b)[j] = IF j <= Len(a) THEN a[j] ELSE b[j - Len(a)]
  BY <1>1, <1>2, ConcatProperties DEF Lots
<1>6. ASSUME NEW j \in 1..(Len(s) - 1) PROVE (a \o b)[j] = IF j < k THEN s[j] ELSE s[j + 1]
  <2>1. CASE j < k
    BY <2>1, <1>1, <1>2, <1>4, <1>5
  <2>2. CASE ~(j < k)
    <3>1. (a \o b)[j] = b[j - (k - 1)]
      BY <2>2, <1>1, <1>2, <1>4, <1>5
    <3>2. j - (k - 1) \in 1..(Len(s) - k) /\ j - (k - 1) + k = j + 1
      BY <2>2, <1>4
    <3> QED BY <2>2, <3>1, <3>2, <1>2
  <2> QED BY <2>1, <2>2
<1> QED BY <1>1, <1>2, <1>3, <1>4, <1>5, <1>6

LEMMA ReplaceElements ==
  ASSUME NEW s \in Lots, NEW k \in 1..Len(s), NEW e \in Lot
  PROVE  /\ ReplaceAt(s, k, e) \in Lots
         /\ Len(ReplaceAt(s, k, e)) = Len(s)
         /\ \A j \in 1..Len(s) : ReplaceAt(s, k, e)[j] = IF j = k THEN e ELSE s[j]
BY DEF Lots, ReplaceAt

LEMMA InsertElements ==
  ASSUME NEW s \in Lots, NEW k \in 1..(Len(s) + 1), NEW e \in Lot
  PROVE  /\ InsertAt(s, k, e) \in Lots
         /\ Len(InsertAt(s, k, e)) = Len(s) + 1
         /\ \A j \in 1..(Len(s) + 1) :
              InsertAt(s, k, e)[j] = IF j < k THEN s[j] ELSE IF j = k THEN e ELSE s[j - 1]
<1> DEFINE a == SubSeq(s, 1, k - 1)
           b == SubSeq(s, k, Len(s))
           c == a \o << e >>
<1>1. Len(s) \in Nat
  BY DEF Lots
<1>2. a \in Lots /\ Len(a) = k - 1 /\ \A j \in 1..(k - 1) : a[j] = s[j]
  BY <1>1 DEF Lots
<1>3. b \in Lots /\ Len(b) = Len(s) + 1 - k /\ \A j \in 1..(Len(s) + 1 - k) : b[j] = s[j + k - 1]
  BY <1>1 DEF Lots
<1>4. InsertAt(s, k, e) = c \o b
  BY DEF InsertAt
<1>5. << e >> \in Lots /\ Len(<< e >>) = 1 /\ << e >>[1] = e
  BY DEF Lots
<1> HIDE DEF a, b
<1>6. c \in Lots /\ Len(c) = k /\ \A j \in 1..k : c[j] = IF j < k THEN s[j] ELSE e
  BY <1>1, <1>2, <1>5 DEF Lots
<1> HIDE DEF c
<1>7. /\ c \o b \in Lots /\ Len(c \o b) = Len(c) + Len(b)
      /\ \A j \in 1..(Len(c) + Len(b)) :
           (c \o b)[j] = IF j <= Len(c) THEN c[j] ELSE b[j - Len(c)]
  BY <1>3, <1>6, ConcatProperties DEF Lots
<1>8. ASSUME NEW j \in 1..(Len(s) + 1)
      PROVE (c \o b)[j] = IF j < k THEN s[j] ELSE IF j = k THEN e ELSE s[j - 1]
  <2>1. CASE j <= k
    <3>1. (c \o b)[j] = c[j] /\ j \in 1..k
      BY <2>1, <1>1, <1>3, <1>6, <1>7
    <3> QED BY <2>1, <3>1, <1>6, <1>1
  <2>2. CASE ~(j <= k)
    <3>1. (c \o b)[j] = b[j - k]
      BY <2>2, <1>1, <1>3, <1>6, <1>7
    <3>2. j - k \in 1..(Len(s) + 1 - k) /\ (j - k) + k - 1 = j - 1
      BY <2>2, <1>1
    <3> QED BY <2>2, <3>1, <3>2, <1>3, <1>1
  <2> QED BY <2>1, <2>2
<1> QED BY <1>1, <1>3, <1>4, <1>6, <1>7, <1>8

-----------------------------------------------------------------------------
(* How a sequence of lots comes out of another one. *)

SeqIds(s) == { s[k].id : k \in 1..Len(s) }

Distinct(s) == \A k, l \in 1..Len(s) : s[k].id = s[l].id => k = l

Sorted(s) == \A k, l \in 1..Len(s) : k < l => s[k].opened <= s[l].opened

\* Lot e is what became of lot f.
Kin(e, f) ==
  /\ e.id = f.id /\ e.opened = f.opened /\ Sign(e.quantity) = Sign(f.quantity)
  /\ f.campaign \in {NoCampaign, e.campaign}

\* Lot j of r comes from lot f[j] of s; lot n, if there is one, is a part cut
\* off under the identifier "new".
Comes(r, s, f, n, new) ==
  /\ f \in [1..Len(r) -> 1..Len(s)]
  /\ \A j, l \in 1..Len(r) : j < l => f[j] <= f[l]
  /\ \A j, l \in 1..Len(r) : j < l /\ j # n /\ l # n => f[j] < f[l]
  /\ \A j \in 1..Len(r) :
       /\ r[j].opened = s[f[j]].opened
       /\ Sign(r[j].quantity) = Sign(s[f[j]].quantity)
       /\ IF j = n THEN r[j].id = new ELSE Kin(r[j], s[f[j]])

Evolved(r, s, new) ==
  \E f \in [1..Len(r) -> 1..Len(s)], n \in Nat : Comes(r, s, f, n, new)

LEMMA LenNat == ASSUME NEW s \in Lots PROVE Len(s) \in Nat /\ \A k \in 1..Len(s) : s[k] \in Lot
BY DEF Lots

LEMMA EvolvedLots ==
  ASSUME NEW r \in Lots, NEW s \in Lots, NEW new \in LotIds, Evolved(r, s, new)
  PROVE  /\ SeqIds(r) \subseteq SeqIds(s) \cup {new}
         /\ Sorted(s) => Sorted(r)
         /\ Distinct(s) /\ new \notin SeqIds(s) => Distinct(r)
         /\ \A j \in 1..Len(r) : \E l \in 1..Len(s) :
              r[j].opened = s[l].opened /\ Sign(r[j].quantity) = Sign(s[l].quantity)
         /\ \A j \in 1..Len(r) : r[j].id # new => \E l \in 1..Len(s) : Kin(r[j], s[l])
<1>1. PICK f \in [1..Len(r) -> 1..Len(s)], n \in Nat : Comes(r, s, f, n, new)
  BY DEF Evolved
<1>2. Len(r) \in Nat /\ Len(s) \in Nat
  BY LenNat
<1>3. SeqIds(r) \subseteq SeqIds(s) \cup {new}
  BY <1>1 DEF Comes, Kin, SeqIds
<1>4. Sorted(s) => Sorted(r)
  <2> SUFFICES ASSUME Sorted(s), NEW j \in 1..Len(r), NEW l \in 1..Len(r), j < l
               PROVE  r[j].opened <= r[l].opened
    BY DEF Sorted
  <2>1. f[j] <= f[l] /\ f[j] \in 1..Len(s) /\ f[l] \in 1..Len(s)
    BY <1>1 DEF Comes
  <2>2. r[j].opened = s[f[j]].opened /\ r[l].opened = s[f[l]].opened
    BY <1>1 DEF Comes
  <2>3. s[f[j]].opened \in Nat
    BY <2>1, LenNat DEF Lot
  <2>4. CASE f[j] = f[l]
    BY <2>2, <2>3, <2>4
  <2>5. CASE f[j] # f[l]
    BY <2>1, <2>2, <2>5, <1>2 DEF Sorted
  <2> QED BY <2>4, <2>5
<1>5. Distinct(s) /\ new \notin SeqIds(s) => Distinct(r)
  <2> SUFFICES ASSUME Distinct(s), new \notin SeqIds(s),
                      NEW j \in 1..Len(r), NEW l \in 1..Len(r), r[j].id = r[l].id, j < l
               PROVE  FALSE
    BY <1>2 DEF Distinct
  <2>1. f[j] \in 1..Len(s) /\ f[l] \in 1..Len(s)
    BY <1>1
  <2>2. s[f[j]].id # new /\ s[f[l]].id # new
    BY <2>1 DEF SeqIds
  <2>3. CASE j = n \/ l = n
    BY <2>2, <2>3, <1>1 DEF Comes, Kin
  <2>4. CASE j # n /\ l # n
    <3>1. f[j] < f[l] /\ s[f[j]].id = s[f[l]].id
      BY <2>4, <1>1 DEF Comes, Kin
    <3> QED BY <2>1, <3>1, <1>2 DEF Distinct
  <2> QED BY <2>3, <2>4
<1>6. ASSUME NEW j \in 1..Len(r)
      PROVE  /\ \E l \in 1..Len(s) :
                  r[j].opened = s[l].opened /\ Sign(r[j].quantity) = Sign(s[l].quantity)
             /\ r[j].id # new => \E l \in 1..Len(s) : Kin(r[j], s[l])
  BY <1>1 DEF Comes
<1> QED BY <1>3, <1>4, <1>5, <1>6

-----------------------------------------------------------------------------
(* The operations of the lot book. *)

LEMMA TakenPart ==
  ASSUME NEW lot \in Lot, NEW q \in Int \ {0}, Sign(lot.quantity) # Sign(q)
  PROVE  LET part == Taken(lot, q) IN
         /\ part \in Int \ {0} /\ Sign(part) = Sign(q) /\ q - part \in Int
         /\ lot.quantity + part \in Int
         /\ lot.quantity + part # 0 => Sign(lot.quantity + part) = Sign(lot.quantity)
BY DEF Taken, Sign, Smaller, Magnitude, Lot

LEMMA ReducedLots ==
  ASSUME NEW s \in Lots, NEW k \in 1..Len(s), NEW part \in Int, NEW new \in LotIds,
         s[k].quantity + part # 0 => Sign(s[k].quantity + part) = Sign(s[k].quantity)
  PROVE  LET r == Reduced(s, k, part) IN
         /\ r \in Lots
         /\ \E f \in [1..Len(r) -> 1..Len(s)] : Comes(r, s, f, 0, new)
<1> DEFINE r == Reduced(s, k, part)
           e == [s[k] EXCEPT !.quantity = s[k].quantity + part]
<1>1. Len(s) \in Nat /\ s[k] \in Lot
  BY LenNat
<1>2. CASE s[k].quantity + part = 0
  <2> DEFINE f == [j \in 1..(Len(s) - 1) |-> IF j < k THEN j ELSE j + 1]
  <2>1. /\ r \in Lots /\ Len(r) = Len(s) - 1
        /\ \A j \in 1..(Len(s) - 1) : r[j] = IF j < k THEN s[j] ELSE s[j + 1]
    BY <1>2, RemoveElements DEF Reduced
  <2> HIDE DEF r
  <2>2. f \in [1..Len(r) -> 1..Len(s)]
    BY <2>1, <1>1
  <2>3. \A j \in 1..Len(r) : Kin(r[j], s[f[j]])
    BY <2>1, <1>1 DEF Kin
  <2>4. \A j, l \in 1..Len(r) : j < l => f[j] < f[l]
    BY <2>1, <1>1
  <2>5. Comes(r, s, f, 0, new)
    BY <2>1, <2>2, <2>3, <2>4, <1>1 DEF Comes, Kin
  <2> QED BY <2>1, <2>2, <2>5 DEF r
<1>3. CASE s[k].quantity + part # 0
  <2> DEFINE f == [j \in 1..Len(s) |-> j]
  <2>1. e \in Lot /\ e.id = s[k].id /\ e.opened = s[k].opened /\ e.campaign = s[k].campaign
        /\ e.quantity = s[k].quantity + part
    BY <1>1, <1>3 DEF Lot
  <2>0. r = ReplaceAt(s, k, e)
    BY <1>3 DEF Reduced
  <2> HIDE DEF e, r
  <2>2. /\ r \in Lots /\ Len(r) = Len(s)
        /\ \A j \in 1..Len(s) : r[j] = IF j = k THEN e ELSE s[j]
    BY <2>0, <2>1, ReplaceElements
  <2>3. f \in [1..Len(r) -> 1..Len(s)]
    BY <2>2
  <2>4. \A j \in 1..Len(r) : Kin(r[j], s[f[j]])
    BY <2>1, <2>2, <1>3 DEF Kin
  <2>5. Comes(r, s, f, 0, new)
    BY <2>2, <2>3, <2>4, <1>1 DEF Comes, Kin
  <2> QED BY <2>2, <2>3, <2>5 DEF r
<1> QED BY <1>2, <1>3

LEMMA ClaimedLots ==
  ASSUME NEW s \in Lots, NEW k \in 1..Len(s), NEW quantity \in Nat \ {0},
         NEW campaign \in Campaigns, NEW new \in LotIds,
         s[k].campaign = NoCampaign, s[k].quantity > 0
  PROVE  LET r == Claimed(s, k, quantity, campaign, new) IN
         /\ r \in Lots
         /\ \E f \in [1..Len(r) -> 1..Len(s)], n \in Nat :
              Comes(r, s, f, n, new) /\ (s[k].quantity <= quantity <=> n = 0)
<1> DEFINE r == Claimed(s, k, quantity, campaign, new)
           part == [s[k] EXCEPT !.campaign = campaign]
           first == [part EXCEPT !.quantity = quantity]
           rest == [s[k] EXCEPT !.id = new, !.quantity = s[k].quantity - quantity]
<1>1. Len(s) \in Nat /\ s[k] \in Lot
  BY LenNat
<1>2. /\ part \in Lot /\ part.id = s[k].id /\ part.opened = s[k].opened
      /\ part.quantity = s[k].quantity /\ part.campaign = campaign
  BY <1>1 DEF Lot
<1>3. CASE s[k].quantity <= quantity
  <2> DEFINE f == [j \in 1..Len(s) |-> j]
  <2>0. r = ReplaceAt(s, k, part)
    BY <1>3 DEF Claimed
  <2> HIDE DEF part, r
  <2>2. /\ r \in Lots /\ Len(r) = Len(s)
        /\ \A j \in 1..Len(s) : r[j] = IF j = k THEN part ELSE s[j]
    BY <2>0, <1>2, ReplaceElements
  <2>3. f \in [1..Len(r) -> 1..Len(s)]
    BY <2>2
  <2>4. \A j \in 1..Len(r) : Kin(r[j], s[f[j]])
    BY <1>2, <2>2 DEF Kin
  <2>5. Comes(r, s, f, 0, new)
    BY <2>2, <2>3, <2>4, <1>1 DEF Comes, Kin
  <2>6. 0 \in Nat /\ (s[k].quantity <= quantity <=> 0 = 0)
    BY <1>3
  <2> HIDE DEF f
  <2> QED BY <2>2, <2>3, <2>5, <2>6 DEF r
<1>4. CASE ~(s[k].quantity <= quantity)
  <2> DEFINE t == ReplaceAt(s, k, first)
             f == [j \in 1..(Len(s) + 1) |-> IF j <= k THEN j ELSE j - 1]
  <2>0. r = InsertAt(t, k + 1, rest)
    BY <1>4 DEF Claimed
  <2> HIDE DEF part, r
  <2>1. /\ first \in Lot /\ first.id = s[k].id /\ first.opened = s[k].opened
        /\ first.quantity = quantity /\ first.campaign = campaign
    BY <1>1, <1>2 DEF Lot
  <2>11. s[k].quantity - quantity \in Int \ {0} /\ s[k].quantity - quantity > 0
    BY <1>1, <1>4 DEF Lot
  <2>2. /\ rest \in Lot /\ rest.id = new /\ rest.opened = s[k].opened
        /\ rest.quantity = s[k].quantity - quantity /\ rest.quantity > 0
    BY <1>1, <2>11 DEF Lot
  <2> HIDE DEF first, rest
  <2>3. /\ t \in Lots /\ Len(t) = Len(s)
        /\ \A j \in 1..Len(s) : t[j] = IF j = k THEN first ELSE s[j]
    BY <2>1, ReplaceElements
  <2> HIDE DEF t
  <2>4. k + 1 \in 1..(Len(t) + 1)
    BY <2>3, <1>1
  <2>5. /\ r \in Lots /\ Len(r) = Len(t) + 1
        /\ \A j \in 1..(Len(t) + 1) :
             r[j] = IF j < k + 1 THEN t[j] ELSE IF j = k + 1 THEN rest ELSE t[j - 1]
    BY <2>0, <2>2, <2>3, <2>4, InsertElements
  <2>6. Len(r) = Len(s) + 1 /\ f \in [1..Len(r) -> 1..Len(s)]
    BY <2>3, <2>5, <1>1
  <2>7. ASSUME NEW j \in 1..Len(r)
        PROVE  /\ r[j].opened = s[f[j]].opened
               /\ Sign(r[j].quantity) = Sign(s[f[j]].quantity)
               /\ IF j = k + 1 THEN r[j].id = new ELSE Kin(r[j], s[f[j]])
    <3>1. CASE j < k
      BY <3>1, <2>3, <2>5, <2>6, <1>1 DEF Kin
    <3>2. CASE j = k
      BY <3>2, <2>1, <2>3, <2>5, <2>6, <1>1 DEF Kin, Sign
    <3>3. CASE j = k + 1
      <4>1. r[j] = rest
        BY <3>3, <2>3, <2>5, <1>1
      <4>2. f[j] = k
        BY <3>3, <1>1
      <4>3. Sign(rest.quantity) = 1 /\ Sign(s[k].quantity) = 1
        BY <2>2 DEF Sign
      <4> HIDE DEF f
      <4> QED BY <3>3, <4>1, <4>2, <4>3, <2>2
    <3>4. CASE j > k + 1
      <4>1. r[j] = s[j - 1] /\ f[j] = j - 1
        BY <3>4, <2>3, <2>5, <2>6, <1>1, SMTT(40)
      <4> QED BY <3>4, <4>1, <1>1 DEF Kin
    <3> QED BY <3>1, <3>2, <3>3, <3>4, <2>6, <1>1
  <2>8. /\ \A j, l \in 1..Len(r) : j < l => f[j] <= f[l]
        /\ \A j, l \in 1..Len(r) : j < l /\ j # k + 1 /\ l # k + 1 => f[j] < f[l]
    BY <2>6, <1>1
  <2>9. Comes(r, s, f, k + 1, new)
    BY <2>6, <2>7, <2>8 DEF Comes
  <2>10. ~(s[k].quantity <= quantity) /\ k + 1 \in Nat
    BY <1>4, <1>1
  <2> QED BY <2>5, <2>6, <2>9, <2>10 DEF r
<1> QED BY <1>3, <1>4

LEMMA MultipliedLots ==
  ASSUME NEW s \in Lots, NEW ratio \in Nat \ {0}, NEW new \in LotIds
  PROVE  LET r == Multiplied(s, ratio) IN
         /\ r \in Lots
         /\ \E f \in [1..Len(r) -> 1..Len(s)] : Comes(r, s, f, 0, new)
<1> DEFINE r == Multiplied(s, ratio)
           f == [j \in 1..Len(s) |-> j]
<1>1. Len(s) \in Nat /\ DOMAIN s = 1..Len(s)
  BY LenNat DEF Lots
<1>2. ASSUME NEW j \in 1..Len(s)
      PROVE  /\ r[j] \in Lot /\ Kin(r[j], s[j])
  <2>1. s[j] \in Lot
    BY LenNat
  <2>2. s[j].quantity * ratio \in Int \ {0} /\ Sign(s[j].quantity * ratio) = Sign(s[j].quantity)
    BY <2>1, SMTT(30) DEF Lot, Sign
  <2>3. r[j] = [s[j] EXCEPT !.quantity = s[j].quantity * ratio]
    BY <1>1 DEF Multiplied
  <2> QED BY <2>1, <2>2, <2>3 DEF Lot, Kin
<1>3. r \in Lots /\ Len(r) = Len(s)
  <2>1. r \in [1..Len(s) -> Lot]
    BY <1>1, <1>2 DEF Multiplied
  <2> HIDE DEF r
  <2> QED BY <2>1, <1>1 DEF Lots
<1> HIDE DEF r
<1>4. f \in [1..Len(r) -> 1..Len(s)]
  BY <1>3
<1>5. Comes(r, s, f, 0, new)
  BY <1>1, <1>2, <1>3, <1>4 DEF Comes, Kin
<1> QED BY <1>3, <1>4, <1>5 DEF r

LEMMA AppendedLots ==
  ASSUME NEW s \in Lots, NEW e \in Lot
  PROVE  LET r == Append(s, e) IN
         /\ r \in Lots
         /\ SeqIds(r) = SeqIds(s) \cup {e.id}
         /\ Distinct(s) /\ e.id \notin SeqIds(s) => Distinct(r)
         /\ Sorted(s) /\ (\A j \in 1..Len(s) : s[j].opened <= e.opened) => Sorted(r)
         /\ \A j \in 1..Len(r) : r[j] = e \/ \E l \in 1..Len(s) : r[j] = s[l]
<1> DEFINE r == Append(s, e)
<1>1. /\ r \in Lots /\ Len(r) = Len(s) + 1 /\ Len(s) \in Nat
      /\ \A k \in 1..Len(s) : r[k] = s[k]
      /\ r[Len(s) + 1] = e
  BY AppendElements, LenNat DEF Lots
<1> HIDE DEF r
<1>2. \A j \in 1..Len(r) : j \in 1..Len(s) \/ j = Len(s) + 1
  BY <1>1
<1>3. SeqIds(r) = SeqIds(s) \cup {e.id}
  BY <1>1, <1>2 DEF SeqIds
<1>4. Distinct(s) /\ e.id \notin SeqIds(s) => Distinct(r)
  BY <1>1, <1>2 DEF SeqIds, Distinct
<1>5. Sorted(s) /\ (\A j \in 1..Len(s) : s[j].opened <= e.opened) => Sorted(r)
  BY <1>1, <1>2 DEF Sorted
<1> QED BY <1>1, <1>2, <1>3, <1>4, <1>5 DEF r

LEMMA JoinedLots ==
  ASSUME NEW s \in Lots, NEW t \in Lots
  PROVE  LET r == s \o t IN
         /\ r \in Lots
         /\ SeqIds(r) = SeqIds(s) \cup SeqIds(t)
         /\ Distinct(s) /\ Distinct(t) /\ SeqIds(s) \cap SeqIds(t) = {} => Distinct(r)
         /\ Sorted(s) /\ Sorted(t)
              /\ (\A j \in 1..Len(s), l \in 1..Len(t) : s[j].opened <= t[l].opened) => Sorted(r)
         /\ \A j \in 1..Len(r) :
              \/ \E l \in 1..Len(s) : r[j] = s[l]
              \/ \E l \in 1..Len(t) : r[j] = t[l]
<1> DEFINE r == s \o t
<1>1. /\ r \in Lots /\ Len(r) = Len(s) + Len(t) /\ Len(s) \in Nat /\ Len(t) \in Nat
      /\ \A j \in 1..Len(r) : r[j] = IF j <= Len(s) THEN s[j] ELSE t[j - Len(s)]
  BY ConcatProperties, LenNat DEF Lots
<1> HIDE DEF r
<1>2. \A j \in 1..Len(r) :
        \/ j \in 1..Len(s) /\ r[j] = s[j]
        \/ j > Len(s) /\ j - Len(s) \in 1..Len(t) /\ r[j] = t[j - Len(s)]
  BY <1>1
<1>3. /\ \A j \in 1..Len(s) : j \in 1..Len(r) /\ r[j] = s[j]
      /\ \A j \in 1..Len(t) : Len(s) + j \in 1..Len(r) /\ r[Len(s) + j] = t[j]
  BY <1>1, SMTT(40)
<1>4. SeqIds(r) = SeqIds(s) \cup SeqIds(t)
  <2>1. SeqIds(r) \subseteq SeqIds(s) \cup SeqIds(t)
    BY <1>2 DEF SeqIds
  <2>2. SeqIds(s) \cup SeqIds(t) \subseteq SeqIds(r)
    BY <1>3 DEF SeqIds
  <2> QED BY <2>1, <2>2
<1>5. ASSUME Distinct(s), Distinct(t), SeqIds(s) \cap SeqIds(t) = {},
             NEW j \in 1..Len(r), NEW l \in 1..Len(r), r[j].id = r[l].id
      PROVE  j = l
  <2>1. CASE j \in 1..Len(s) /\ r[j] = s[j]
    <3>1. ~(l - Len(s) \in 1..Len(t) /\ r[l] = t[l - Len(s)])
      BY <2>1, <1>5 DEF SeqIds
    <3>2. l \in 1..Len(s) /\ r[l] = s[l]
      BY <3>1, <1>2
    <3> QED BY <2>1, <3>2, <1>5 DEF Distinct
  <2>2. CASE j > Len(s) /\ j - Len(s) \in 1..Len(t) /\ r[j] = t[j - Len(s)]
    <3>1. ~(l \in 1..Len(s) /\ r[l] = s[l])
      BY <2>2, <1>5 DEF SeqIds
    <3>2. l - Len(s) \in 1..Len(t) /\ r[l] = t[l - Len(s)]
      BY <3>1, <1>2
    <3>3. j - Len(s) = l - Len(s)
      BY <2>2, <3>2, <1>5 DEF Distinct
    <3> QED BY <3>3, <1>1
  <2> QED BY <2>1, <2>2, <1>2
<1>6. ASSUME Sorted(s), Sorted(t),
             \A j \in 1..Len(s), l \in 1..Len(t) : s[j].opened <= t[l].opened,
             NEW j \in 1..Len(r), NEW l \in 1..Len(r), j < l
      PROVE  r[j].opened <= r[l].opened
  <2>1. CASE l \in 1..Len(s)
    BY <2>1, <1>1, <1>2, <1>6 DEF Sorted
  <2>2. CASE l \notin 1..Len(s) /\ j \in 1..Len(s)
    BY <2>2, <1>1, <1>2, <1>6, SMTT(40)
  <2>3. CASE l \notin 1..Len(s) /\ j \notin 1..Len(s)
    BY <2>3, <1>1, <1>2, <1>6, SMTT(40) DEF Sorted
  <2> QED BY <2>1, <2>2, <2>3
<1>7. \A j \in 1..Len(r) :
        (\E l \in 1..Len(s) : r[j] = s[l]) \/ (\E l \in 1..Len(t) : r[j] = t[l])
  BY <1>2
<1>8. Distinct(s) /\ Distinct(t) /\ SeqIds(s) \cap SeqIds(t) = {} => Distinct(r)
  BY <1>5 DEF Distinct
<1>9. Sorted(s) /\ Sorted(t)
        /\ (\A j \in 1..Len(s), l \in 1..Len(t) : s[j].opened <= t[l].opened) => Sorted(r)
  BY <1>6 DEF Sorted
<1> QED BY <1>1, <1>4, <1>7, <1>8, <1>9 DEF r

-----------------------------------------------------------------------------
(* Type correctness. *)

\* What the loops rely on besides the types: only an assigned option has a
\* second change to apply, allocations belong to the change under way, and no
\* month opens with lots of a currency pair.
TypeInv ==
  /\ TypeOK
  /\ \A p \in ForexPairs : opening.lots[p] = << >>
  /\ stage = "change" /\ follow # 0 => instrument \in Options
  /\ stage \in {"idle", "claim"} => allocations = {}
  /\ stage = "claim" => owner \in Campaigns /\ follow = 0

LEMMA KindsOfInstrument ==
  /\ \A p \in ForexPairs : p \in Instruments /\ Namesake[p] \in Instruments
  /\ \A o \in Options : o \in Instruments /\ Underlying[o] \in Instruments
  /\ Traded \subseteq Instruments
  /\ \A q \in Signed : q \in Int \ {0}
  /\ \A q \in Quantities : q \in Nat \ {0}
  /\ Instruments \subseteq LotIds
BY InstrumentAssumption, ReplayAssumption DEF Instruments, Signed, LotIds

LEMMA NewLot ==
  ASSUME NEW id \in LotIds, NEW q \in Int \ {0}, NEW now \in Nat,
         NEW c \in Campaigns \cup {NoCampaign}
  PROVE  /\ BuildLot(id, q, now, c) \in Lot
         /\ BuildLot(id, q, now, c).id = id /\ BuildLot(id, q, now, c).opened = now
         /\ BuildLot(id, q, now, c).quantity = q /\ BuildLot(id, q, now, c).campaign = c
BY DEF BuildLot, Lot

\* AppendLot keeps the book well typed.
LEMMA AppendLotOK ==
  ASSUME BookOK, NEW i \in Instruments, NEW q \in Int \ {0}, NEW now \in Nat,
         NEW c \in Campaigns \cup {NoCampaign}, AppendLot(i, q, c, now)
  PROVE  BookOK'
<1> DEFINE e == BuildLot(nextId, q, now, c)
<1>1. e \in Lot
  BY NewLot DEF BookOK, LotIds
<1> HIDE DEF e
<1>2. Append(lots[i], e) \in Lots
  BY <1>1, AppendedLots DEF BookOK, Lots
<1>3. lots' = [lots EXCEPT ![i] = Append(lots[i], e)] /\ nextId' = nextId + 1
  BY DEF AppendLot, e
<1> QED BY <1>2, <1>3 DEF BookOK, Lots

LEMMA ForexClosingPart ==
  ASSUME NEW p \in ForexPairs, fx[p] \in Int, NEW q \in Int \ {0}
  PROVE  /\ ForexClosing(p, q) \in Int /\ q - ForexClosing(p, q) \in Int
BY DEF ForexClosing, Sign, Smaller, Magnitude

LEMMA InitTypeInv == Init => TypeInv
<1> SUFFICES ASSUME Init PROVE TypeInv
  OBVIOUS
<1>1. PICK rows \in SUBSET SnapshotRows :
        /\ lots = [i \in Instruments |->
                     IF \E r \in rows : r.instrument = i
                     THEN LET row == CHOOSE r \in rows : r.instrument = i
                          IN << BuildLot(i, row.quantity, 0, NoCampaign) >>
                     ELSE << >>]
        /\ position = [i \in Instruments |->
                         IF \E r \in rows : r.instrument = i
                         THEN (CHOOSE r \in rows : r.instrument = i).quantity ELSE 0]
  BY DEF Init
<1>2. ASSUME NEW i \in Instruments
      PROVE  /\ lots[i] \in Seq(Lot) /\ position[i] \in Int
             /\ (\A r \in rows : r.instrument # i) => lots[i] = << >>
  <2>1. CASE \E r \in rows : r.instrument = i
    <3> DEFINE row == CHOOSE r \in rows : r.instrument = i
    <3>1. row \in SnapshotRows
      BY <2>1
    <3>2. row.quantity \in Int \ {0}
      BY <3>1, ReplayAssumption
    <3> HIDE DEF row
    <3>3. BuildLot(i, row.quantity, 0, NoCampaign) \in Lot
      BY <3>2, NewLot, KindsOfInstrument
    <3>4. lots[i] = << BuildLot(i, row.quantity, 0, NoCampaign) >> /\ position[i] = row.quantity
      BY <2>1, <1>1 DEF row
    <3> QED BY <2>1, <3>2, <3>3, <3>4
  <2>2. CASE ~ \E r \in rows : r.instrument = i
    BY <2>2, <1>1
  <2> QED BY <2>1, <2>2
<1>3. lots \in [Instruments -> Seq(Lot)] /\ position \in [Instruments -> Int]
  BY <1>1, <1>2
<1>4. \A p \in ForexPairs : lots[p] = << >>
  <2>1. \A p \in ForexPairs, r \in rows : r.instrument # p
    BY InstrumentAssumption, ReplayAssumption
  <2> QED BY <2>1, <1>2, KindsOfInstrument
<1>5. /\ opening.lots = lots /\ opening.nextId = nextId /\ opening.position = position
      /\ opening.retired = retired
  BY DEF Init, BookOf
<1>6. /\ nextId = 1 /\ retired = {} /\ month = 1 /\ clock = 0 /\ stage = "idle"
      /\ instrument = AnyInstrument /\ due = 0 /\ owner = NoCampaign /\ follow = 0
      /\ toClaim = 0 /\ allocations = {} /\ claimed = {}
      /\ fx = [p \in ForexPairs |-> 0] /\ seeded = FALSE
  BY DEF Init
<1>7. instrument \in Instruments
  BY <1>6, InstrumentAssumption DEF AnyInstrument
<1>8. BookOK
  BY <1>3, <1>6 DEF BookOK
<1>9. LoopOK
  BY <1>6, <1>7 DEF LoopOK
<1>10. PeriodOK
  <2>1. opening.lots \in [Instruments -> Seq(Lot)] /\ opening.position \in [Instruments -> Int]
    BY <1>3, <1>5
  <2>2. opening.nextId \in Nat \ {0} /\ opening.retired \subseteq LotIds /\ retired \subseteq LotIds
    BY <1>5, <1>6
  <2>3. fx \in [ForexPairs -> Int]
    <3>1. fx = [p \in ForexPairs |-> 0]
      BY <1>6
    <3> QED BY <3>1
  <2>4. seeded \in BOOLEAN
    BY <1>6, Zenon
  <2>5. month \in Nat /\ clock \in Nat
    <3>1. month = 1 /\ clock = 0
      BY <1>6
    <3> QED BY <3>1
  <2> QED BY <1>3, <2>1, <2>2, <2>3, <2>4, <2>5 DEF PeriodOK
<1> QED BY <1>4, <1>5, <1>6, <1>8, <1>9, <1>10 DEF TypeInv, TypeOK

\* Reading an item of the history.
LEMMA ReadItemTypes == TypeInv /\ ReadItem => TypeInv'
<1> SUFFICES ASSUME TypeInv, ReadItem PROVE TypeInv'
  OBVIOUS
<1> USE DEF TypeInv, TypeOK
<1>1. ASSUME NextItem, stage' = "idle", UNCHANGED << stage, instrument, due, owner, follow >>,
             BookOK', fx' \in [ForexPairs -> Int], position' \in [Instruments -> Int]
      PROVE  TypeInv'
  BY <1>1, SMTT(40) DEF NextItem, LoopOK, PeriodOK
<1>2. ASSUME NextItem, NEW s \in {"close", "change"}, NEW i \in Instruments, NEW q \in Int,
             NEW c \in Campaigns \cup {NoCampaign}, NEW second \in Int,
             Enter(s, i, q, c, second), s = "change" /\ second # 0 => i \in Options,
             UNCHANGED << lots, nextId >>,
             fx' \in [ForexPairs -> Int], position' \in [Instruments -> Int]
      PROVE  TypeInv'
  <2>1. BookOK' /\ PeriodOK'
    BY <1>2, SMTT(40) DEF NextItem, BookOK, PeriodOK
  <2>2. LoopOK'
    BY <1>2 DEF NextItem, Enter, LoopOK
  <2> QED BY <1>2, <2>1, <2>2 DEF NextItem, Enter
<1>3. ASSUME NEW i \in Instruments, NEW q \in Int, Moves(i, q) PROVE position' \in [Instruments -> Int]
  BY <1>3 DEF Moves, PeriodOK
<1>4. ASSUME NextItem PROVE clock + 1 \in Nat /\ stage = "idle"
  BY <1>4 DEF NextItem, PeriodOK
<1>5. ASSUME NEW i \in Traded, NEW q \in Signed, NEW c \in Campaigns, OpenLeg(i, q, c)
      PROVE  TypeInv'
  BY <1>1, <1>3, <1>4, <1>5, KindsOfInstrument, AppendLotOK DEF OpenLeg, PeriodOK
<1>6. ASSUME NEW i \in Traded, NEW q \in Signed, NEW c \in Campaigns, CloseLeg(i, q, c)
      PROVE  TypeInv'
  <2>1. i \in Instruments /\ q \in Int /\ c \in Campaigns \cup {NoCampaign} /\ 0 \in Int
    BY KindsOfInstrument
  <2>2. /\ NextItem /\ Enter("close", i, q, c, 0) /\ Moves(i, q)
        /\ UNCHANGED << lots, nextId >> /\ fx' = fx
    BY <1>6 DEF CloseLeg
  <2>3. position' \in [Instruments -> Int] /\ fx' \in [ForexPairs -> Int]
    BY <1>3, <2>1, <2>2 DEF PeriodOK
  <2> QED BY <1>2, <2>1, <2>2, <2>3
<1>7. ASSUME NEW p \in ForexPairs, NEW q \in Signed, NEW c \in Campaigns, ForexTrade(p, q, c)
      PROVE  TypeInv'
  <2>1. p \in Instruments /\ q \in Int \ {0}
    BY KindsOfInstrument
  <2>2. fx' \in [ForexPairs -> Int] /\ position' \in [Instruments -> Int] /\ NextItem
    BY <1>3, <1>7, <2>1 DEF ForexTrade, PeriodOK
  <2>3. ForexClosing(p, q) \in Int /\ q - ForexClosing(p, q) \in Int
    BY <2>1, ForexClosingPart DEF PeriodOK
  <2>4. CASE AppendLot(p, q, c, clock + 1) /\ UNCHANGED << stage, instrument, due, owner, follow >>
    BY <1>1, <1>4, <2>1, <2>2, <2>4, AppendLotOK
  <2>5. CASE /\ Enter("close", p, ForexClosing(p, q), c, q - ForexClosing(p, q))
             /\ UNCHANGED << lots, nextId >>
    BY <1>2, <2>1, <2>2, <2>3, <2>5
  <2> QED BY <1>7, <2>4, <2>5 DEF ForexTrade
<1>8. ASSUME NEW i \in Traded, NEW q \in Signed, Expiration(i, q) PROVE TypeInv'
  <2>1. i \in Instruments /\ q \in Int /\ NoCampaign \in Campaigns \cup {NoCampaign} /\ 0 \in Int
    BY KindsOfInstrument
  <2>2. /\ NextItem /\ Enter("change", i, q, NoCampaign, 0) /\ Moves(i, q)
        /\ UNCHANGED << lots, nextId >> /\ fx' = fx
    BY <1>8 DEF Expiration
  <2>3. position' \in [Instruments -> Int] /\ fx' \in [ForexPairs -> Int]
    BY <1>3, <2>1, <2>2 DEF PeriodOK
  <2> QED BY <1>2, <2>1, <2>2, <2>3
<1>9. ASSUME NEW o \in Options, NEW q \in Quantities, NEW delivers \in BOOLEAN,
             Assignment(o, q, delivers)
      PROVE  TypeInv'
  <2> DEFINE shares == IF o \in Calls THEN -q * PerContract ELSE q * PerContract
             second == IF delivers THEN shares ELSE 0
  <2>1. o \in Instruments /\ q \in Nat \ {0} /\ PerContract \in Nat
    BY KindsOfInstrument, ReplayAssumption
  <2>2. second \in Int
    BY <2>1
  <2>3. NextItem /\ UNCHANGED << lots, nextId >> /\ Moves(o, q) /\ fx' = fx
    BY <1>9 DEF Assignment
  <2>4. Enter("change", o, q, NoCampaign, second)
    BY <1>9 DEF Assignment
  <2> HIDE DEF second
  <2>5. PICK change \in Int : Enter("change", o, q, NoCampaign, change)
    BY <2>2, <2>4
  <2>6. position' \in [Instruments -> Int] /\ fx' \in [ForexPairs -> Int]
    BY <1>3, <2>1, <2>3 DEF PeriodOK
  <2>7. q \in Int /\ NoCampaign \in Campaigns \cup {NoCampaign}
    BY <2>1
  <2> QED BY <1>2, <2>1, <2>3, <2>5, <2>6, <2>7
<1>10. ASSUME NEW old \in Options, NEW new \in Options, NEW ratio \in Nat \ {0},
              Split(old, new, ratio)
       PROVE  TypeInv'
  <2>1. Multiplied(lots[old], ratio) \in Seq(Lot)
    BY MultipliedLots, KindsOfInstrument DEF BookOK, Lots, LotIds
  <2>2. position[new] + position[old] * ratio \in Int
    BY KindsOfInstrument DEF PeriodOK
  <2>3. position' \in [Instruments -> Int] /\ BookOK'
    BY <1>10, <2>1, <2>2, KindsOfInstrument, SMTT(40) DEF Split, PeriodOK, BookOK
  <2>4. NextItem /\ UNCHANGED << stage, instrument, due, owner, follow, fx >>
    BY <1>10 DEF Split
  <2> QED BY <1>1, <1>4, <2>3, <2>4 DEF PeriodOK
<1>11. \A x \in Splits : x.old \in Options /\ x.new \in Options /\ x.ratio \in Nat \ {0}
  BY ReplayAssumption
<1> QED BY <1>5, <1>6, <1>7, <1>8, <1>9, <1>10, <1>11 DEF ReadItem

LEMMA IdsOfBook ==
  ASSUME NEW book \in [Instruments -> Lots]
  PROVE  /\ Ids(book) = UNION { SeqIds(book[i]) : i \in Instruments }
         /\ Ids(book) \subseteq LotIds
<1>1. ASSUME NEW i \in Instruments
      PROVE  { book[i][k].id : k \in DOMAIN book[i] } = SeqIds(book[i])
  <2>1. book[i] \in Lots
    OBVIOUS
  <2>2. DOMAIN book[i] = 1..Len(book[i])
    BY <2>1 DEF Lots
  <2> QED BY <2>2 DEF SeqIds
<1>2. ASSUME NEW i \in Instruments PROVE SeqIds(book[i]) \subseteq LotIds
  <2>1. book[i] \in Lots
    OBVIOUS
  <2>2. \A k \in 1..Len(book[i]) : book[i][k].id \in LotIds
    BY <2>1, LenNat DEF Lot
  <2> QED BY <2>2 DEF SeqIds
<1>3. DOMAIN book = Instruments
  OBVIOUS
<1> QED BY <1>1, <1>2, <1>3 DEF Ids

\* The lot the next iteration of _close draws on, and what it takes.
LEMMA NextClosed ==
  ASSUME NEW s \in Lots, NEW q \in Int \ {0}, Opposite(s, q) # {}
  PROVE  LET k == NextToClose(s, q) IN
         /\ k \in 1..Len(s) /\ Sign(s[k].quantity) # Sign(q)
         /\ \A j \in 1..Len(s) : Sign(s[j].quantity) # Sign(q) => k <= j
<1>1. Len(s) \in Nat /\ DOMAIN s = 1..Len(s)
  BY LenNat DEF Lots
<1>2. Opposite(s, q) = { k \in 1..Len(s) : Sign(s[k].quantity) # Sign(q) }
  BY <1>1 DEF Opposite
<1>3. Opposite(s, q) \in SUBSET Nat
  BY <1>1, <1>2
<1> QED BY <1>2, <1>3, MinIsLeast DEF NextToClose

LEMMA NextBound ==
  ASSUME NEW s \in Lots, Unclaimed(s) # {}
  PROVE  LET k == NextUnclaimed(s) IN
         k \in 1..Len(s) /\ s[k].campaign = NoCampaign /\ s[k].quantity > 0
<1>1. Len(s) \in Nat /\ DOMAIN s = 1..Len(s)
  BY LenNat DEF Lots
<1>2. Unclaimed(s) = { k \in 1..Len(s) : s[k].campaign = NoCampaign /\ s[k].quantity > 0 }
  BY <1>1 DEF Unclaimed
<1>3. Unclaimed(s) \in SUBSET Nat
  BY <1>1, <1>2
<1> QED BY <1>2, <1>3, MinIsLeast DEF NextUnclaimed

LEMMA AllocationTypes ==
  ASSUME NEW lot \in Lot, NEW part \in Int \ {0}, NEW c \in Campaigns \cup {NoCampaign}
  PROVE  /\ AllocationOf(lot, part, c) \in Allocation
         /\ AllocationOf(lot, part, c).opened = lot.opened
         /\ AllocationOf(lot, part, c).quantity = part
BY DEF AllocationOf, Allocation, Lot

LEMMA ForexStartTypes ==
  ASSUME NEW book \in [Instruments -> Lots], NEW net \in [Instruments -> Int],
         \A p \in ForexPairs : book[p] = << >>, ForexStart(book, net)
  PROVE  fx' \in [ForexPairs -> Int] /\ seeded' \in BOOLEAN
<1>1. CarriedForex(book) = [p \in ForexPairs |-> 0]
  BY DEF CarriedForex
<1>2. CarriedForex(book) \in [ForexPairs -> Int]
  BY <1>1
<1>3. HistoricalForex(net) \in [ForexPairs -> Int]
  BY KindsOfInstrument DEF HistoricalForex
<1>4. CASE fx' = CarriedForex(book) /\ seeded' = FALSE
  BY <1>2, <1>4
<1>5. CASE /\ fx' = [p \in ForexPairs |-> IF book[p] # << >> THEN CarriedForex(book)[p]
                                         ELSE HistoricalForex(net)[p]]
           /\ seeded' = (fx' # CarriedForex(book))
  <2>1. fx' \in [ForexPairs -> Int]
    BY <1>2, <1>3, <1>5
  <2>2. seeded' \in BOOLEAN
    BY <1>5
  <2> QED BY <2>1, <2>2
<1> QED BY <1>4, <1>5 DEF ForexStart

\* A reloaded book has the lots of the saved one, those of a pair under its
\* symbol behind the lots that were there.
LEMMA ReloadedBook ==
  ASSUME NEW book \in [Instruments -> Lots]
  PROVE  /\ Reloaded(book) \in [Instruments -> Lots]
         /\ \A p \in ForexPairs : Reloaded(book)[p] = << >>
         /\ \A i \in Instruments \ ForexPairs :
              \/ Reloaded(book)[i] = book[i] /\ \A p \in ForexPairs : Namesake[p] # i
              \/ \E p \in ForexPairs :
                   Namesake[p] = i /\ Reloaded(book)[i] = book[i] \o book[p]
<1>1. ASSUME NEW i \in Instruments \ ForexPairs
      PROVE  \/ Reloaded(book)[i] = book[i] /\ \A p \in ForexPairs : Namesake[p] # i
             \/ \E p \in ForexPairs :
                  Namesake[p] = i /\ Reloaded(book)[i] = book[i] \o book[p]
  <2>1. CASE \E p \in ForexPairs : Namesake[p] = i
    <3> DEFINE p == CHOOSE p \in ForexPairs : Namesake[p] = i
    <3>1. p \in ForexPairs /\ Namesake[p] = i
      BY <2>1
    <3>2. Reloaded(book)[i] = book[i] \o book[p]
      BY <2>1 DEF Reloaded
    <3> QED BY <3>1, <3>2
  <2>2. CASE ~ \E p \in ForexPairs : Namesake[p] = i
    BY <2>2 DEF Reloaded
  <2> QED BY <2>1, <2>2
<1>2. \A p \in ForexPairs : Reloaded(book)[p] = << >>
  BY KindsOfInstrument DEF Reloaded
<1>3. ASSUME NEW i \in Instruments PROVE Reloaded(book)[i] \in Lots
  <2>1. CASE i \in ForexPairs
    <3>1. Reloaded(book)[i] = << >>
      BY <1>2, <2>1
    <3>2. << >> \in Lots
      BY DEF Lots
    <3> QED BY <3>1, <3>2
  <2>2. CASE i \notin ForexPairs
    <3>1. ASSUME NEW p \in ForexPairs PROVE book[i] \o book[p] \in Lots
      <4>1. book[i] \in Lots /\ book[p] \in Lots
        BY KindsOfInstrument
      <4> QED BY <4>1, JoinedLots
    <3>2. i \in Instruments \ ForexPairs /\ book[i] \in Lots
      BY <2>2
    <3>3. CASE Reloaded(book)[i] = book[i]
      BY <3>2, <3>3
    <3>4. CASE \E p \in ForexPairs : Reloaded(book)[i] = book[i] \o book[p]
      BY <3>1, <3>4
    <3> QED BY <1>1, <3>2, <3>3, <3>4
  <2> QED BY <2>1, <2>2
<1>4. Reloaded(book) \in [Instruments -> Lots]
  <2>1. \E g : Reloaded(book) = [i \in Instruments |-> g[i]]
    <3>1. Reloaded(book) = [i \in Instruments |-> Reloaded(book)[i]]
      BY DEF Reloaded
    <3> QED BY <3>1
  <2> QED BY <1>3, <2>1
<1> QED BY <1>1, <1>2, <1>4

LEMMA CarriedPositionTypes ==
  ASSUME NEW net \in [Instruments -> Int]
  PROVE  CarriedPosition(net) \in [Instruments -> Int]
<1>1. ASSUME NEW i \in Instruments
      PROVE  net[i] + net[CHOOSE p \in ForexPairs : Namesake[p] = i] \in Int
             \/ ~ \E p \in ForexPairs : Namesake[p] = i
  <2> DEFINE p == CHOOSE p \in ForexPairs : Namesake[p] = i
  <2>1. CASE \E r \in ForexPairs : Namesake[r] = i
    <3>1. p \in Instruments
      BY <2>1, KindsOfInstrument
    <3> HIDE DEF p
    <3>2. net[i] + net[p] \in Int
      BY <3>1
    <3> QED BY <3>2 DEF p
  <2> QED BY <2>1
<1> QED BY <1>1, SMTT(40) DEF CarriedPosition

LEMMA NextTypeInv == TypeInv /\ [Next]_vars => TypeInv'
<1> SUFFICES ASSUME TypeInv, [Next]_vars PROVE TypeInv'
  OBVIOUS
<1>1. /\ lots \in [Instruments -> Lots] /\ nextId \in Nat \ {0}
      /\ opening.lots \in [Instruments -> Lots] /\ opening.nextId \in Nat \ {0}
      /\ instrument \in Instruments
      /\ owner \in Campaigns \cup {NoCampaign}
      /\ due \in Int /\ follow \in Int /\ toClaim \in Nat
      /\ allocations \subseteq Allocation /\ claimed \subseteq LotIds
      /\ retired \subseteq LotIds /\ opening.retired \subseteq LotIds
      /\ position \in [Instruments -> Int] /\ opening.position \in [Instruments -> Int]
      /\ month \in Nat /\ clock \in Nat
  BY DEF TypeInv, TypeOK, BookOK, LoopOK, PeriodOK, Lots
<1>2. CASE ReadItem
  BY <1>2, ReadItemTypes
<1>3. CASE CloseNextLot
  <2> DEFINE s == lots[instrument]
             k == NextToClose(s, due)
             part == Taken(s[k], due)
             r == Reduced(s, k, part)
             c == IF stage = "close" THEN owner ELSE NoCampaign
  <2>1. /\ stage \in {"close", "change"} /\ due \in Int \ {0} /\ Opposite(s, due) # {}
        /\ lots' = [lots EXCEPT ![instrument] = r]
        /\ due' = due - part
        /\ retired' \subseteq retired \cup Ids(lots)
        /\ allocations' = allocations \cup { AllocationOf(s[k], part, c) }
        /\ UNCHANGED << nextId, opening, month, clock, stage, instrument, owner, follow,
                        toClaim, claimed, fx, seeded, position >>
    BY <1>1, <1>3 DEF CloseNextLot
  <2>2. c \in Campaigns \cup {NoCampaign} /\ s \in Lots
    BY <1>1
  <2> HIDE DEF c, s
  <2>3. k \in 1..Len(s) /\ Sign(s[k].quantity) # Sign(due)
    BY <2>1, <2>2, NextClosed
  <2> HIDE DEF k
  <2>4. s[k] \in Lot
    BY <2>2, <2>3, LenNat
  <2>5. /\ part \in Int \ {0} /\ due - part \in Int
        /\ s[k].quantity + part # 0 => Sign(s[k].quantity + part) = Sign(s[k].quantity)
    BY <2>1, <2>3, <2>4, TakenPart
  <2> HIDE DEF part
  <2>6. r \in Lots
    BY <2>2, <2>3, <2>5, ReducedLots DEF LotIds
  <2>7. AllocationOf(s[k], part, c) \in Allocation
    BY <2>2, <2>4, <2>5, AllocationTypes
  <2> HIDE DEF r
  <2>8. retired' \subseteq LotIds
    BY <1>1, <2>1, IdsOfBook
  <2>9. lots' \in [Instruments -> Seq(Lot)] /\ nextId' \in Nat \ {0}
    BY <1>1, <2>1, <2>6 DEF Lots
  <2>10. allocations' \subseteq Allocation /\ due' \in Int
    BY <1>1, <2>1, <2>5, <2>7
  <2> QED BY <2>1, <2>8, <2>9, <2>10 DEF TypeInv, TypeOK, BookOK, LoopOK, PeriodOK
<1>4. CASE AppendRest
  <2>1. BookOK'
    BY <1>1, <1>4, AppendLotOK DEF AppendRest, BookOK, TypeInv, TypeOK
  <2> QED BY <1>4, <2>1 DEF AppendRest, TypeInv, TypeOK, LoopOK, PeriodOK
<1>5. CASE Finish
  BY <1>5, InstrumentAssumption
    DEF Finish, ItemDone, AnyInstrument, TypeInv, TypeOK, BookOK, LoopOK, PeriodOK
<1>6. CASE \E c \in Campaigns : Reopen(c)
  <2>1. PICK c \in Campaigns : Reopen(c)
    BY <1>6
  <2>2. BookOK'
    BY <1>1, <2>1, AppendLotOK DEF Reopen, BookOK, TypeInv, TypeOK
  <2> QED BY <2>1, <2>2, InstrumentAssumption
        DEF Reopen, ItemDone, AnyInstrument, TypeInv, TypeOK, LoopOK, PeriodOK
<1>7. CASE Deliver
  <2> DEFINE shares == Underlying[instrument]
             binds == follow < 0 /\ AssignmentCampaign # NoCampaign
                        /\ Unclaimed(lots[shares]) # {}
  <2>1. /\ stage = "change" /\ follow # 0
        /\ Enter(IF binds THEN "claim" ELSE "change", shares, follow, AssignmentCampaign, 0)
        /\ toClaim' = IF binds THEN -follow ELSE 0
        /\ Moves(shares, follow)
        /\ allocations' = {}
        /\ UNCHANGED << lots, nextId, opening, month, clock, claimed, fx, seeded, retired >>
    BY <1>7 DEF Deliver
  <2>2. instrument \in Options
    BY <2>1 DEF TypeInv
  <2>3. shares \in Instruments
    BY <2>2, KindsOfInstrument
  <2>4. AssignmentCampaign \in Campaigns \cup {NoCampaign}
    <3>1. \A a \in allocations : a.campaign \in Campaigns \cup {NoCampaign}
      BY <1>1 DEF Allocation
    <3> QED BY <3>1 DEF AssignmentCampaign
  <2> HIDE DEF shares
  <2>5. stage' \in {"claim", "change"} /\ instrument' \in Instruments /\ due' \in Int /\ follow' = 0
        /\ owner' = AssignmentCampaign
    BY <1>1, <2>1, <2>3 DEF Enter
  <2>6. toClaim' \in Nat
    BY <1>1, <2>1
  <2>7. stage' = "claim" => owner' \in Campaigns
    BY <2>1, <2>4 DEF Enter
  <2>8. position' \in [Instruments -> Int]
    BY <1>1, <2>1, <2>3 DEF Moves
  <2>9. BookOK' /\ PeriodOK'
    BY <2>1, <2>8 DEF TypeInv, TypeOK, BookOK, PeriodOK
  <2>10. LoopOK'
    BY <1>1, <2>1, <2>4, <2>5, <2>6 DEF LoopOK
  <2> QED BY <2>1, <2>5, <2>7, <2>9, <2>10 DEF TypeInv, TypeOK
<1>8. CASE ClaimNextLot
  <2> DEFINE s == lots[instrument]
             k == NextUnclaimed(s)
             r == Claimed(s, k, toClaim, owner, nextId)
             whole == s[k].quantity <= toClaim
  <2>1. /\ stage = "claim" /\ toClaim > 0 /\ Unclaimed(s) # {}
        /\ lots' = [lots EXCEPT ![instrument] = r]
        /\ nextId' = IF whole THEN nextId ELSE nextId + 1
        /\ toClaim' = IF whole THEN toClaim - s[k].quantity ELSE 0
        /\ claimed' = claimed \cup {s[k].id}
        /\ UNCHANGED << opening, month, clock, stage, instrument, due, owner, follow,
                        allocations, fx, seeded, position, retired >>
    BY <1>8 DEF ClaimNextLot
  <2>2. s \in Lots /\ owner \in Campaigns /\ toClaim \in Nat \ {0} /\ nextId \in LotIds
    BY <1>1, <2>1 DEF TypeInv, LotIds
  <2> HIDE DEF s
  <2>3. k \in 1..Len(s) /\ s[k].campaign = NoCampaign /\ s[k].quantity > 0
    BY <2>1, <2>2, NextBound
  <2> HIDE DEF k
  <2>4. s[k] \in Lot /\ s[k].id \in LotIds /\ s[k].quantity \in Int
    BY <2>2, <2>3, LenNat DEF Lot
  <2>5. r \in Lots
    BY <2>2, <2>3, ClaimedLots
  <2> HIDE DEF r
  <2>6. lots' \in [Instruments -> Seq(Lot)] /\ nextId' \in Nat \ {0}
    BY <1>1, <2>1, <2>5 DEF Lots
  <2>7. toClaim' \in Nat /\ claimed' \subseteq LotIds
    <3>1. claimed' \subseteq LotIds
      BY <1>1, <2>1, <2>4
    <3>2. CASE whole
      <4>1. toClaim' = toClaim - s[k].quantity
        BY <2>1, <3>2
      <4>2. toClaim - s[k].quantity \in Nat
        BY <2>2, <2>4, <3>2
      <4> QED BY <3>1, <4>1, <4>2
    <3>3. CASE ~whole
      BY <2>1, <3>1, <3>3
    <3> QED BY <3>2, <3>3
  <2> QED BY <2>1, <2>6, <2>7 DEF TypeInv, TypeOK, BookOK, LoopOK, PeriodOK
<1>9. CASE ClaimDone
  BY <1>9 DEF ClaimDone, TypeInv, TypeOK, BookOK, LoopOK, PeriodOK
<1>10. CASE Abandon
  <2>1. /\ lots' = opening.lots /\ nextId' = opening.nextId /\ position' = opening.position
        /\ retired' = opening.retired
        /\ ForexStart(opening.lots, opening.position)
        /\ ItemDone
        /\ UNCHANGED << opening, month, clock >>
    BY <1>10 DEF Abandon
  <2>2. \A p \in ForexPairs : opening.lots[p] = << >>
    BY DEF TypeInv
  <2>3. fx' \in [ForexPairs -> Int] /\ seeded' \in BOOLEAN
    BY <1>1, <2>1, <2>2, ForexStartTypes
  <2>4. lots' \in [Instruments -> Seq(Lot)] /\ nextId' \in Nat \ {0}
    BY <1>1, <2>1 DEF Lots
  <2>5. LoopOK'
    BY <2>1, InstrumentAssumption DEF ItemDone, AnyInstrument, LoopOK
  <2>6. BookOK' /\ PeriodOK'
    BY <1>1, <2>1, <2>3, <2>4 DEF BookOK, PeriodOK, Lots
  <2> QED BY <2>1, <2>2, <2>5, <2>6 DEF ItemDone, TypeInv, TypeOK
<1>11. CASE EndMonth
  <2> DEFINE book == Reloaded(lots)
             net == CarriedPosition(position)
  <2>1. /\ month' = month + 1
        /\ lots' = book /\ nextId' = nextId /\ position' = net
        /\ opening'.lots = book /\ opening'.nextId = nextId
        /\ opening'.position = net /\ opening'.retired = retired
        /\ ForexStart(book, net)
        /\ UNCHANGED << clock, stage, instrument, due, owner, follow, toClaim, allocations,
                        claimed, retired >>
    BY <1>11 DEF EndMonth, BookOf, CarriedId
  <2>2. book \in [Instruments -> Lots] /\ \A p \in ForexPairs : book[p] = << >>
    BY <1>1, ReloadedBook
  <2>3. net \in [Instruments -> Int]
    BY <1>1, CarriedPositionTypes
  <2> HIDE DEF book, net
  <2>4. fx' \in [ForexPairs -> Int] /\ seeded' \in BOOLEAN
    BY <2>1, <2>2, <2>3, ForexStartTypes
  <2> QED BY <1>1, <2>1, <2>2, <2>3, <2>4, SMTT(40)
        DEF TypeInv, TypeOK, BookOK, LoopOK, PeriodOK, Lots
<1>12. CASE UNCHANGED vars
  BY <1>12 DEF vars, TypeInv, TypeOK, BookOK, LoopOK, PeriodOK
<1> QED BY <1>2, <1>3, <1>4, <1>5, <1>6, <1>7, <1>8, <1>9, <1>10, <1>11, <1>12 DEF Next

(***************************************************************************)
(* Every step of the replay, in every month and for every set of contracts *)
(* and quantities, leaves lots with a nonzero quantity, a date and a       *)
(* campaign or none, and loop variables the code can hold.                 *)
(***************************************************************************)
THEOREM TypeCorrect == Spec => []TypeOK
<1>1. Spec => []TypeInv
  BY InitTypeInv, NextTypeInv, PTL DEF Spec
<1>2. TypeInv => TypeOK
  BY DEF TypeInv
<1> QED BY <1>1, <1>2, PTL

-----------------------------------------------------------------------------
(* What a step does to the book: the proofs below go by these six kinds     *)
(* instead of by the actions.                                               *)

Kept == UNCHANGED << lots, nextId, retired, opening >>

\* A new lot at the end, under the next identifier.
Grown ==
  \E i \in Instruments, e \in Lot :
    /\ \A p \in ForexPairs : i # Namesake[p]
    /\ e.id = nextId /\ e.opened = clock'
    /\ lots' = [lots EXCEPT ![i] = Append(lots[i], e)]
    /\ nextId' = nextId + 1
    /\ UNCHANGED << retired, opening >>

\* A close takes from a lot, an assignment binds a lot or a part of it.
Drawn ==
  \E i \in Instruments, r \in Lots, n \in Nat :
    \E f \in [1..Len(r) -> 1..Len(lots[i])] :
      /\ Comes(r, lots[i], f, n, nextId)
      /\ lots' = [lots EXCEPT ![i] = r]
      /\ nextId' = IF n = 0 THEN nextId ELSE nextId + 1
      /\ \A x \in retired' : x \in retired \/ x \in Ids(lots) \ Ids(lots')
      /\ UNCHANGED opening

\* A split moves the lots of a contract to another one.
Moved ==
  \E old, new \in Options, r \in Lots :
    \E f \in [1..Len(r) -> 1..Len(lots[old])] :
      /\ old # new /\ lots[new] = << >>
      /\ Comes(r, lots[old], f, 0, nextId)
      /\ lots' = [i \in Instruments |-> IF i = new THEN r
                                       ELSE IF i = old THEN << >> ELSE lots[i]]
      /\ UNCHANGED << nextId, retired, opening >>

Restarted ==
  /\ lots' = opening.lots /\ nextId' = opening.nextId /\ retired' = opening.retired
  /\ UNCHANGED opening

Carried ==
  /\ lots' = Reloaded(lots) /\ UNCHANGED << nextId, retired >>
  /\ opening'.lots = Reloaded(lots) /\ opening'.nextId = nextId
  /\ opening'.retired = retired

\* The symbol of a pair is no instrument a loop works on.
NoNamesake == stage # "idle" => \A p \in ForexPairs : instrument # Namesake[p]

LEMMA NamesakesNotTraded ==
  /\ \A i \in Traded \cup Options \cup ForexPairs, p \in ForexPairs : i # Namesake[p]
  /\ \A o \in Options, p \in ForexPairs : Underlying[o] # Namesake[p]
BY InstrumentAssumption, ReplayAssumption

LEMMA NoNamesakeHolds ==
  /\ Init => NoNamesake
  /\ TypeInv /\ NoNamesake /\ [Next]_vars => NoNamesake'
<1>1. Init => NoNamesake
  BY DEF Init, NoNamesake
<1>2. ASSUME TypeInv, NoNamesake, [Next]_vars PROVE NoNamesake'
  <2>1. CASE ReadItem
    <3>1. CASE \E i \in Traded, q \in Signed, c \in Campaigns : OpenLeg(i, q, c)
      BY <1>2, <3>1 DEF OpenLeg, NextItem, NoNamesake
    <3>2. CASE \E i \in Traded, q \in Signed, c \in Campaigns : CloseLeg(i, q, c)
      BY <3>2, NamesakesNotTraded DEF CloseLeg, Enter, NoNamesake
    <3>3. CASE \E p \in ForexPairs, q \in Signed, c \in Campaigns : ForexTrade(p, q, c)
      BY <1>2, <3>3, NamesakesNotTraded DEF ForexTrade, NextItem, Enter, NoNamesake
    <3>4. CASE \E i \in Traded, q \in Signed : Expiration(i, q)
      BY <3>4, NamesakesNotTraded DEF Expiration, Enter, NoNamesake
    <3>5. CASE \E o \in Options, q \in Quantities, delivers \in BOOLEAN :
                 Assignment(o, q, delivers)
      BY <3>5, NamesakesNotTraded DEF Assignment, Enter, NoNamesake
    <3>6. CASE \E s \in Splits : Split(s.old, s.new, s.ratio)
      BY <1>2, <3>6 DEF Split, NextItem, NoNamesake
    <3> QED BY <2>1, <3>1, <3>2, <3>3, <3>4, <3>5, <3>6 DEF ReadItem
  <2>2. CASE CloseNextLot
    BY <1>2, <2>2 DEF CloseNextLot, NoNamesake
  <2>3. CASE AppendRest
    BY <1>2, <2>3 DEF AppendRest, NoNamesake
  <2>4. CASE Finish \/ (\E c \in Campaigns : Reopen(c)) \/ Abandon
    BY <2>4 DEF Finish, Reopen, Abandon, ItemDone, NoNamesake
  <2>5. CASE Deliver
    <3>1. instrument \in Options /\ instrument' = Underlying[instrument]
      BY <1>2, <2>5 DEF Deliver, Enter, TypeInv
    <3> QED BY <3>1, NamesakesNotTraded DEF NoNamesake
  <2>6. CASE ClaimNextLot
    BY <1>2, <2>6 DEF ClaimNextLot, NoNamesake
  <2>7. CASE ClaimDone
    BY <1>2, <2>7 DEF ClaimDone, NoNamesake
  <2>8. CASE EndMonth
    BY <1>2, <2>8 DEF EndMonth, NoNamesake
  <2>9. CASE UNCHANGED vars
    BY <1>2, <2>9 DEF vars, NoNamesake
  <2> QED BY <1>2, <2>1, <2>2, <2>3, <2>4, <2>5, <2>6, <2>7, <2>8, <2>9 DEF Next
<1> QED BY <1>1, <1>2

LEMMA AppendLotGrows ==
  ASSUME TypeInv, clock' \in Nat, NEW i \in Instruments, \A p \in ForexPairs : i # Namesake[p],
         NEW q \in Int \ {0}, NEW c \in Campaigns \cup {NoCampaign},
         AppendLot(i, q, c, clock'), UNCHANGED << retired, opening >>
  PROVE  Grown
<1> DEFINE e == BuildLot(nextId, q, clock', c)
<1>1. nextId \in LotIds
  BY DEF TypeInv, TypeOK, BookOK, LotIds
<1>2. e \in Lot /\ e.id = nextId /\ e.opened = clock'
  BY <1>1, NewLot
<1>3. lots' = [lots EXCEPT ![i] = Append(lots[i], e)] /\ nextId' = nextId + 1
  BY DEF AppendLot
<1> HIDE DEF e
<1> QED BY <1>2, <1>3 DEF Grown

LEMMA ReadItemKinds ==
  ASSUME TypeInv, ReadItem
  PROVE  clock' = clock + 1 /\ (Kept \/ Grown \/ Moved)
<1>1. clock' = clock + 1 /\ UNCHANGED << retired, opening >>
  BY DEF ReadItem, OpenLeg, CloseLeg, ForexTrade, Expiration, Assignment, Split, NextItem
<1>2. clock' \in Nat
  BY <1>1 DEF TypeInv, TypeOK, PeriodOK
<1>3. ASSUME NEW i \in Traded, NEW q \in Signed, NEW c \in Campaigns, OpenLeg(i, q, c)
      PROVE  Grown
  <2>1. AppendLot(i, q, c, clock')
    BY <1>1, <1>3 DEF OpenLeg
  <2> QED BY <1>1, <1>2, <2>1, KindsOfInstrument, NamesakesNotTraded, AppendLotGrows
<1>4. ASSUME NEW i \in Traded, NEW q \in Signed, NEW c \in Campaigns, CloseLeg(i, q, c)
      PROVE  Kept
  BY <1>1, <1>4 DEF CloseLeg, Kept
<1>5. ASSUME NEW p \in ForexPairs, NEW q \in Signed, NEW c \in Campaigns, ForexTrade(p, q, c)
      PROVE  Kept \/ Grown
  <2>1. CASE UNCHANGED << lots, nextId >>
    BY <1>1, <2>1 DEF Kept
  <2>2. CASE AppendLot(p, q, c, clock + 1)
    <3>1. AppendLot(p, q, c, clock')
      BY <1>1, <2>2
    <3>2. p \in Instruments /\ q \in Int \ {0} /\ \A r \in ForexPairs : p # Namesake[r]
      BY KindsOfInstrument, NamesakesNotTraded
    <3> QED BY <1>1, <1>2, <3>1, <3>2, AppendLotGrows
  <2> QED BY <1>5, <2>1, <2>2 DEF ForexTrade
<1>6. ASSUME NEW i \in Traded, NEW q \in Signed, Expiration(i, q) PROVE Kept
  BY <1>1, <1>6 DEF Expiration, Kept
<1>7. ASSUME NEW o \in Options, NEW q \in Quantities, NEW delivers \in BOOLEAN,
             Assignment(o, q, delivers)
      PROVE  Kept
  BY <1>1, <1>7 DEF Assignment, Kept
<1>8. ASSUME NEW old \in Options, NEW new \in Options, NEW ratio \in Nat \ {0},
             Split(old, new, ratio)
      PROVE  Moved
  <2> DEFINE r == Multiplied(lots[old], ratio)
  <2>1. lots[old] \in Lots /\ nextId \in LotIds
    BY KindsOfInstrument DEF TypeInv, TypeOK, BookOK, Lots, LotIds
  <2>2. r \in Lots /\ \E f \in [1..Len(r) -> 1..Len(lots[old])] : Comes(r, lots[old], f, 0, nextId)
    BY <2>1, MultipliedLots
  <2>3. old # new /\ lots[new] = << >> /\ nextId' = nextId
        /\ lots' = [i \in Instruments |-> IF i = new THEN r ELSE IF i = old THEN << >> ELSE lots[i]]
    BY <1>8 DEF Split, Splittable
  <2> HIDE DEF r
  <2> QED BY <1>1, <2>2, <2>3 DEF Moved
<1>9. \A x \in Splits : x.old \in Options /\ x.new \in Options /\ x.ratio \in Nat \ {0}
  BY ReplayAssumption
<1> QED BY <1>1, <1>3, <1>4, <1>5, <1>6, <1>7, <1>8, <1>9 DEF ReadItem

LEMMA StepKinds ==
  ASSUME TypeInv, NoNamesake, [Next]_vars
  PROVE  /\ clock' \in Nat /\ clock' >= clock
         /\ Kept \/ Grown \/ Drawn \/ Moved \/ Restarted \/ Carried
<1>1. /\ lots \in [Instruments -> Lots] /\ nextId \in LotIds
      /\ instrument \in Instruments /\ owner \in Campaigns \cup {NoCampaign}
      /\ due \in Int /\ follow \in Int /\ toClaim \in Nat /\ clock \in Nat
  BY DEF TypeInv, TypeOK, BookOK, LoopOK, PeriodOK, Lots, LotIds
<1>2. CASE ReadItem
  BY <1>1, <1>2, ReadItemKinds
<1>3. CASE CloseNextLot
  <2> DEFINE s == lots[instrument]
             k == NextToClose(s, due)
             part == Taken(s[k], due)
             r == Reduced(s, k, part)
  <2>1. /\ due \in Int \ {0} /\ Opposite(s, due) # {}
        /\ lots' = [lots EXCEPT ![instrument] = r]
        /\ \A x \in retired' : x \in retired \/ x \in Ids(lots) \ Ids(lots')
        /\ UNCHANGED << nextId, opening, clock >>
    BY <1>1, <1>3 DEF CloseNextLot
  <2>2. s \in Lots
    BY <1>1
  <2>3. k \in 1..Len(s) /\ Sign(s[k].quantity) # Sign(due)
    BY <2>1, <2>2, NextClosed
  <2> HIDE DEF k
  <2>4. /\ part \in Int
        /\ s[k].quantity + part # 0 => Sign(s[k].quantity + part) = Sign(s[k].quantity)
    BY <2>1, <2>2, <2>3, TakenPart, LenNat
  <2> HIDE DEF part
  <2>5. r \in Lots /\ \E f \in [1..Len(r) -> 1..Len(s)] : Comes(r, s, f, 0, nextId)
    BY <1>1, <2>2, <2>3, <2>4, ReducedLots
  <2> HIDE DEF r
  <2>6. 0 \in Nat /\ nextId' = IF 0 = 0 THEN nextId ELSE nextId + 1
    BY <2>1
  <2>7. Drawn
    BY <1>1, <2>1, <2>5, <2>6 DEF Drawn
  <2> QED BY <1>1, <2>1, <2>7
<1>4. CASE AppendRest
  <2>1. /\ stage # "idle" /\ due \in Int \ {0} /\ clock' = clock
        /\ AppendLot(instrument, due, owner, clock') /\ UNCHANGED << retired, opening >>
    BY <1>1, <1>4 DEF AppendRest
  <2>2. Grown
    BY <1>1, <2>1, AppendLotGrows DEF NoNamesake
  <2> QED BY <1>1, <2>1, <2>2
<1>5. CASE Finish
  BY <1>1, <1>5 DEF Finish, Kept
<1>6. CASE \E c \in Campaigns : Reopen(c)
  <2>1. PICK c \in Campaigns : Reopen(c)
    BY <1>6
  <2>2. /\ stage # "idle" /\ follow \in Int \ {0} /\ clock' = clock
        /\ AppendLot(instrument, follow, c, clock') /\ UNCHANGED << retired, opening >>
    BY <1>1, <2>1 DEF Reopen
  <2>3. Grown
    BY <1>1, <2>2, AppendLotGrows DEF NoNamesake
  <2> QED BY <1>1, <2>2, <2>3
<1>7. CASE Deliver \/ ClaimDone
  BY <1>1, <1>7 DEF Deliver, ClaimDone, Kept
<1>8. CASE ClaimNextLot
  <2> DEFINE s == lots[instrument]
             k == NextUnclaimed(s)
             r == Claimed(s, k, toClaim, owner, nextId)
  <2>1. /\ stage = "claim" /\ toClaim > 0 /\ Unclaimed(s) # {}
        /\ lots' = [lots EXCEPT ![instrument] = r]
        /\ nextId' = IF s[k].quantity <= toClaim THEN nextId ELSE nextId + 1
        /\ UNCHANGED << opening, clock, retired >>
    BY <1>8 DEF ClaimNextLot
  <2>2. s \in Lots /\ owner \in Campaigns /\ toClaim \in Nat \ {0}
    BY <1>1, <2>1 DEF TypeInv
  <2>3. k \in 1..Len(s) /\ s[k].campaign = NoCampaign /\ s[k].quantity > 0
    BY <2>1, <2>2, NextBound
  <2> HIDE DEF k
  <2>4. /\ r \in Lots
        /\ \E f \in [1..Len(r) -> 1..Len(s)], n \in Nat :
             Comes(r, s, f, n, nextId) /\ (s[k].quantity <= toClaim <=> n = 0)
    BY <1>1, <2>2, <2>3, ClaimedLots
  <2> HIDE DEF r
  <2>5. Drawn
    BY <1>1, <2>1, <2>4 DEF Drawn
  <2> QED BY <1>1, <2>1, <2>5
<1>9. CASE Abandon
  BY <1>1, <1>9 DEF Abandon, Restarted
<1>10. CASE EndMonth
  BY <1>1, <1>10 DEF EndMonth, BookOf, CarriedId, Carried
<1>11. CASE UNCHANGED vars
  BY <1>1, <1>11 DEF vars, Kept
<1> QED BY <1>2, <1>3, <1>4, <1>5, <1>6, <1>7, <1>8, <1>9, <1>10, <1>11 DEF Next

-----------------------------------------------------------------------------
(* Identifiers. *)

WellNumbered(book, next, gone) ==
  /\ \A i \in Instruments : Distinct(book[i])
  /\ \A i, j \in Instruments : i # j => SeqIds(book[i]) \cap SeqIds(book[j]) = {}
  /\ \A i \in Instruments : \A id \in SeqIds(book[i]) : id \in Nat => id < next
  /\ \A id \in gone : id \in Nat => id < next
  /\ \A i \in Instruments : SeqIds(book[i]) \cap gone = {}

NumberInv ==
  /\ WellNumbered(lots, nextId, retired)
  /\ WellNumbered(opening.lots, opening.nextId, opening.retired)

\* One instrument changes and may get a lot under the next identifier.
LEMMA OneRenumbered ==
  ASSUME NEW b \in [Instruments -> Lots], NEW next \in Nat, NEW gone,
         WellNumbered(b, next, gone),
         NEW i \in Instruments, NEW r \in Lots, NEW b2, NEW next2 \in Nat, NEW gone2,
         b2 = [b EXCEPT ![i] = r],
         Distinct(r), SeqIds(r) \subseteq SeqIds(b[i]) \cup {next},
         next <= next2, next \in SeqIds(r) => next < next2,
         \A x \in gone2 : x \in gone \/ x \in Ids(b) \ Ids(b2)
  PROVE  WellNumbered(b2, next2, gone2)
<1>1. b2 \in [Instruments -> Lots] /\ b2[i] = r /\ \A j \in Instruments \ {i} : b2[j] = b[j]
  OBVIOUS
<1>2. /\ Ids(b) = UNION { SeqIds(b[j]) : j \in Instruments }
      /\ Ids(b2) = UNION { SeqIds(b2[j]) : j \in Instruments }
  BY <1>1, IdsOfBook
<1>3. \A j \in Instruments : next \notin SeqIds(b[j])
  BY DEF WellNumbered
<1>4. next \notin gone
  BY DEF WellNumbered
<1>5. \A j \in Instruments : Distinct(b2[j])
  BY <1>1 DEF WellNumbered
<1>6. ASSUME NEW j \in Instruments, NEW l \in Instruments, j # l
      PROVE  SeqIds(b2[j]) \cap SeqIds(b2[l]) = {}
  <2>1. SeqIds(b[j]) \cap SeqIds(b[l]) = {}
    BY <1>6 DEF WellNumbered
  <2>2. CASE j = i
    BY <1>1, <1>3, <1>6, <2>1, <2>2
  <2>3. CASE l = i
    BY <1>1, <1>3, <1>6, <2>1, <2>3
  <2>4. CASE j # i /\ l # i
    BY <1>1, <2>1, <2>4
  <2> QED BY <2>2, <2>3, <2>4
<1>7. ASSUME NEW j \in Instruments, NEW id \in SeqIds(b2[j]), id \in Nat PROVE id < next2
  <2>1. CASE id = next
    <3>1. j = i
      BY <1>1, <1>3, <2>1, <1>7
    <3> QED BY <1>1, <3>1, <2>1
  <2>2. CASE id # next
    <3>1. id \in SeqIds(b[j])
      BY <1>1, <2>2
    <3>2. id < next
      BY <1>7, <3>1 DEF WellNumbered
    <3> QED BY <1>7, <3>2
  <2> QED BY <2>1, <2>2
<1>8. ASSUME NEW id \in gone2, id \in Nat PROVE id < next2
  <2>1. id < next
    BY <1>2, <1>8 DEF WellNumbered
  <2> QED BY <1>8, <2>1
<1>9. ASSUME NEW j \in Instruments, NEW id \in SeqIds(b2[j]), id \in gone2 PROVE FALSE
  <2>1. id \in Ids(b2)
    <3>1. SeqIds(b2[j]) \subseteq UNION { SeqIds(b2[l]) : l \in Instruments }
      BY Zenon
    <3> QED BY <1>2, <3>1
  <2>2. id \in gone
    BY <1>9, <2>1
  <2>3. id \in SeqIds(b[j])
    BY <1>1, <1>4, <2>2
  <2> QED BY <2>2, <2>3 DEF WellNumbered
<1> QED BY <1>5, <1>6, <1>7, <1>8, <1>9 DEF WellNumbered

LEMMA KeptIds ==
  ASSUME NEW r, NEW s, NEW new, NEW f \in [1..Len(r) -> 1..Len(s)], Comes(r, s, f, 0, new)
  PROVE  SeqIds(r) \subseteq SeqIds(s)
BY DEF Comes, Kin, SeqIds

LEMMA EmptyIds == << >> \in Lots /\ Len(<< >>) = 0 /\ SeqIds(<< >>) = {} /\ Distinct(<< >>)
BY DEF Lots, SeqIds, Distinct

LEMMA ReloadedNumbered ==
  ASSUME NEW b \in [Instruments -> Lots], NEW next, NEW gone, WellNumbered(b, next, gone)
  PROVE  WellNumbered(Reloaded(b), next, gone)
<1> DEFINE b2 == Reloaded(b)
<1>1. /\ \A p \in ForexPairs : b2[p] = << >>
      /\ \A i \in Instruments \ ForexPairs :
           \/ b2[i] = b[i] /\ \A p \in ForexPairs : Namesake[p] # i
           \/ \E p \in ForexPairs : Namesake[p] = i /\ b2[i] = b[i] \o b[p]
  BY ReloadedBook
<1> HIDE DEF b2
\* What instrument i was before or, for the lots of a pair, is named after.
<1> DEFINE Sources(i) == {i} \cup { p \in ForexPairs : Namesake[p] = i }
<1>2. ASSUME NEW i \in Instruments
      PROVE  /\ Distinct(b2[i])
             /\ \A id \in SeqIds(b2[i]) : i \notin ForexPairs /\ \E j \in Sources(i) : id \in SeqIds(b[j])
  <2>1. CASE i \in ForexPairs
    BY <1>1, <2>1, EmptyIds
  <2>2. CASE i \notin ForexPairs /\ b2[i] = b[i]
    BY <2>2 DEF WellNumbered
  <2>3. ASSUME i \notin ForexPairs, NEW p \in ForexPairs, Namesake[p] = i, b2[i] = b[i] \o b[p]
        PROVE  /\ Distinct(b2[i])
               /\ \A id \in SeqIds(b2[i]) : \E j \in Sources(i) : id \in SeqIds(b[j])
    <3>1. p \in Instruments /\ p # i /\ p \in Sources(i) /\ i \in Sources(i)
      BY <2>3, KindsOfInstrument
    <3>2. b[i] \in Lots /\ b[p] \in Lots
      BY <3>1
    <3>3. Distinct(b[i]) /\ Distinct(b[p]) /\ SeqIds(b[i]) \cap SeqIds(b[p]) = {}
      BY <3>1 DEF WellNumbered
    <3>4. Distinct(b2[i]) /\ SeqIds(b2[i]) = SeqIds(b[i]) \cup SeqIds(b[p])
      BY <2>3, <3>2, <3>3, JoinedLots
    <3> QED BY <3>1, <3>4
  <2> QED BY <1>1, <2>1, <2>2, <2>3
<1>3. \A i, j \in Instruments \ ForexPairs : i # j => Sources(i) \cap Sources(j) = {}
  OBVIOUS
<1>4. \A i \in Instruments : Sources(i) \subseteq Instruments
  BY KindsOfInstrument
<1>5. ASSUME NEW i \in Instruments, NEW j \in Instruments, i # j
      PROVE  SeqIds(b2[i]) \cap SeqIds(b2[j]) = {}
  <2> SUFFICES ASSUME NEW id \in SeqIds(b2[i]), id \in SeqIds(b2[j]) PROVE FALSE
    OBVIOUS
  <2>1. PICK k \in Sources(i) : id \in SeqIds(b[k])
    BY <1>2
  <2>2. PICK l \in Sources(j) : id \in SeqIds(b[l])
    BY <1>2
  <2>3. k # l /\ k \in Instruments /\ l \in Instruments
    BY <1>2, <1>3, <1>4, <1>5, <2>1, <2>2
  <2> QED BY <2>1, <2>2, <2>3 DEF WellNumbered
<1>6. ASSUME NEW i \in Instruments, NEW id \in SeqIds(b2[i])
      PROVE  (id \in Nat => id < next) /\ id \notin gone
  <2>1. PICK k \in Instruments : id \in SeqIds(b[k])
    BY <1>2, <1>4
  <2> QED BY <2>1 DEF WellNumbered
<1>7. \A id \in gone : id \in Nat => id < next
  BY DEF WellNumbered
<1>8. WellNumbered(b2, next, gone)
  BY <1>2, <1>5, <1>6, <1>7 DEF WellNumbered
<1> QED BY <1>8 DEF b2

LEMMA InitNumbered == Init => NumberInv
<1> SUFFICES ASSUME Init PROVE NumberInv
  OBVIOUS
<1>1. PICK rows \in SUBSET SnapshotRows :
        lots = [i \in Instruments |->
                  IF \E r \in rows : r.instrument = i
                  THEN LET row == CHOOSE r \in rows : r.instrument = i
                       IN << BuildLot(i, row.quantity, 0, NoCampaign) >>
                  ELSE << >>]
  BY DEF Init
<1>2. ASSUME NEW i \in Instruments PROVE Distinct(lots[i]) /\ SeqIds(lots[i]) \subseteq {i}
  <2>1. CASE \E r \in rows : r.instrument = i
    <3> DEFINE row == CHOOSE r \in rows : r.instrument = i
               e == BuildLot(i, row.quantity, 0, NoCampaign)
    <3>1. lots[i] = << e >>
      BY <2>1, <1>1
    <3>2. e.id = i
      BY DEF BuildLot
    <3> HIDE DEF e
    <3> QED BY <3>1, <3>2 DEF Distinct, SeqIds
  <2>2. CASE ~ \E r \in rows : r.instrument = i
    <3>1. lots[i] = << >>
      BY <2>2, <1>1
    <3> QED BY <3>1, EmptyIds
  <2> QED BY <2>1, <2>2
<1>3. retired = {} /\ opening.lots = lots /\ opening.nextId = nextId /\ opening.retired = retired
  BY DEF Init, BookOf
<1>4. \A i \in Instruments : i \notin Nat
  BY InstrumentAssumption
<1>5. WellNumbered(lots, nextId, retired)
  BY <1>2, <1>3, <1>4 DEF WellNumbered
<1> QED BY <1>3, <1>5 DEF NumberInv

LEMMA NextNumbered == TypeInv /\ NoNamesake /\ NumberInv /\ [Next]_vars => NumberInv'
<1> SUFFICES ASSUME TypeInv, NoNamesake, NumberInv, [Next]_vars PROVE NumberInv'
  OBVIOUS
<1>1. /\ lots \in [Instruments -> Lots] /\ nextId \in Nat /\ nextId \in LotIds
      /\ WellNumbered(lots, nextId, retired)
      /\ WellNumbered(opening.lots, opening.nextId, opening.retired)
  BY DEF TypeInv, TypeOK, BookOK, Lots, LotIds, NumberInv
<1>2. \A i \in Instruments : lots[i] \in Lots /\ Distinct(lots[i]) /\ nextId \notin SeqIds(lots[i])
  BY <1>1 DEF WellNumbered
<1>3. CASE Kept
  BY <1>1, <1>3 DEF Kept, NumberInv
<1>4. CASE Grown
  <2>1. PICK i \in Instruments, e \in Lot :
          /\ e.id = nextId
          /\ lots' = [lots EXCEPT ![i] = Append(lots[i], e)]
          /\ nextId' = nextId + 1
          /\ UNCHANGED << retired, opening >>
    BY <1>4 DEF Grown
  <2> DEFINE r == Append(lots[i], e)
  <2>2. r \in Lots /\ SeqIds(r) = SeqIds(lots[i]) \cup {nextId} /\ Distinct(r)
    BY <1>2, <2>1, AppendedLots
  <2>3. lots' = [lots EXCEPT ![i] = r]
    BY <2>1
  <2> HIDE DEF r
  <2>4. nextId' \in Nat /\ nextId <= nextId' /\ nextId < nextId'
    BY <1>1, <2>1
  <2>5. \A x \in retired' : x \in retired \/ x \in Ids(lots) \ Ids(lots')
    BY <2>1
  <2>6. SeqIds(r) \subseteq SeqIds(lots[i]) \cup {nextId} /\ (nextId \in SeqIds(r) => nextId < nextId')
    BY <2>2, <2>4
  <2>7. WellNumbered(lots', nextId', retired')
    BY <1>1, <2>2, <2>3, <2>4, <2>5, <2>6, OneRenumbered
  <2> QED BY <1>1, <2>1, <2>7 DEF NumberInv
<1>5. CASE Drawn
  <2>1. PICK i \in Instruments, r \in Lots, n \in Nat :
          \E f \in [1..Len(r) -> 1..Len(lots[i])] :
            /\ Comes(r, lots[i], f, n, nextId)
            /\ lots' = [lots EXCEPT ![i] = r]
            /\ nextId' = IF n = 0 THEN nextId ELSE nextId + 1
            /\ \A x \in retired' : x \in retired \/ x \in Ids(lots) \ Ids(lots')
            /\ UNCHANGED opening
    BY <1>5 DEF Drawn
  <2>2. PICK f \in [1..Len(r) -> 1..Len(lots[i])] : Comes(r, lots[i], f, n, nextId)
    BY <2>1
  <2>3. SeqIds(r) \subseteq SeqIds(lots[i]) \cup {nextId} /\ Distinct(r)
    <3>1. Evolved(r, lots[i], nextId)
      BY <2>2 DEF Evolved
    <3> QED BY <1>1, <1>2, <3>1, EvolvedLots
  <2>4. nextId' \in Nat /\ nextId <= nextId' /\ (n # 0 => nextId < nextId')
    BY <1>1, <2>1
  <2>5. n = 0 => SeqIds(r) \subseteq SeqIds(lots[i])
    BY <2>2, KeptIds
  <2>6. nextId \in SeqIds(r) => nextId < nextId'
    BY <1>2, <2>4, <2>5
  <2>7. WellNumbered(lots', nextId', retired')
    BY <1>1, <2>1, <2>3, <2>4, <2>6, OneRenumbered
  <2> QED BY <1>1, <2>1, <2>7 DEF NumberInv
<1>6. CASE Moved
  <2>1. PICK old \in Options, new \in Options, r \in Lots :
          \E f \in [1..Len(r) -> 1..Len(lots[old])] :
            /\ old # new /\ lots[new] = << >>
            /\ Comes(r, lots[old], f, 0, nextId)
            /\ lots' = [i \in Instruments |-> IF i = new THEN r
                                             ELSE IF i = old THEN << >> ELSE lots[i]]
            /\ UNCHANGED << nextId, retired, opening >>
    BY <1>6 DEF Moved
  <2>2. PICK f \in [1..Len(r) -> 1..Len(lots[old])] : Comes(r, lots[old], f, 0, nextId)
    BY <2>1
  <2>3. old \in Instruments /\ new \in Instruments
    BY KindsOfInstrument
  <2>4. SeqIds(r) \subseteq SeqIds(lots[old])
    BY <2>2, KeptIds
  <2>5. Distinct(r)
    <3>1. Evolved(r, lots[old], nextId)
      BY <2>2 DEF Evolved
    <3> QED BY <1>1, <1>2, <2>3, <3>1, EvolvedLots
  <2>6. ASSUME NEW i \in Instruments
        PROVE  /\ i = new => lots'[i] = r
               /\ i = old => lots'[i] = << >>
               /\ i # new /\ i # old => lots'[i] = lots[i]
    BY <2>1
  <2>7. ASSUME NEW i \in Instruments
        PROVE  /\ Distinct(lots'[i])
               /\ i = new => SeqIds(lots'[i]) \subseteq SeqIds(lots[old])
               /\ i = old => SeqIds(lots'[i]) = {}
               /\ i # new /\ i # old => SeqIds(lots'[i]) = SeqIds(lots[i])
    BY <1>2, <2>1, <2>4, <2>5, <2>6, EmptyIds
  <2>8. WellNumbered(lots', nextId', retired')
    <3>1. ASSUME NEW i \in Instruments, NEW j \in Instruments, i # j
          PROVE  SeqIds(lots'[i]) \cap SeqIds(lots'[j]) = {}
      BY <1>1, <2>3, <2>7, <3>1 DEF WellNumbered
    <3>2. ASSUME NEW i \in Instruments
          PROVE  /\ \A id \in SeqIds(lots'[i]) : id \in Nat => id < nextId
                 /\ SeqIds(lots'[i]) \cap retired = {}
      BY <1>1, <2>3, <2>7 DEF WellNumbered
    <3> QED BY <1>1, <2>1, <2>7, <3>1, <3>2 DEF WellNumbered
  <2> QED BY <1>1, <2>1, <2>8 DEF NumberInv
<1>7. CASE Restarted
  BY <1>1, <1>7 DEF Restarted, NumberInv
<1>8. CASE Carried
  <2>1. WellNumbered(Reloaded(lots), nextId, retired)
    BY <1>1, ReloadedNumbered
  <2> QED BY <1>8, <2>1 DEF Carried, NumberInv
<1> QED BY <1>3, <1>4, <1>5, <1>6, <1>7, <1>8, StepKinds

LEMMA Numbered == Spec => [](TypeInv /\ NoNamesake /\ NumberInv)
<1>1. Init => TypeInv /\ NoNamesake /\ NumberInv
  BY InitTypeInv, NoNamesakeHolds, InitNumbered
<1>2. /\ TypeInv /\ NoNamesake /\ NumberInv /\ [Next]_vars
      => (TypeInv /\ NoNamesake /\ NumberInv)'
  BY NextTypeInv, NoNamesakeHolds, NextNumbered
<1> QED BY <1>1, <1>2, PTL DEF Spec

(***************************************************************************)
(* A lot identifier names one lot of the book and the next one is unused,  *)
(* whatever the contracts and however many items and months are replayed.  *)
(***************************************************************************)
THEOREM IdsIdentify == Spec => []LotIdsIdentify
<1>1. ASSUME TypeInv, NumberInv PROVE LotIdsIdentify
  <2>1. lots \in [Instruments -> Lots] /\ WellNumbered(lots, nextId, retired)
    BY <1>1 DEF TypeInv, TypeOK, BookOK, Lots, NumberInv
  <2>2. \A i \in Instruments : DOMAIN lots[i] = 1..Len(lots[i])
    BY <2>1 DEF Lots
  <2>3. ASSUME NEW i \in Instruments, NEW j \in Instruments,
               NEW k \in DOMAIN lots[i], NEW l \in DOMAIN lots[j], lots[i][k].id = lots[j][l].id
        PROVE  i = j /\ k = l
    <3>1. lots[i][k].id \in SeqIds(lots[i]) /\ lots[j][l].id \in SeqIds(lots[j])
      BY <2>2 DEF SeqIds
    <3>2. i = j
      BY <2>1, <2>3, <3>1 DEF WellNumbered
    <3> QED BY <2>1, <2>2, <2>3, <3>2 DEF WellNumbered, Distinct
  <2>4. \A id \in Ids(lots) \cap Nat : id < nextId
    BY <2>1, IdsOfBook DEF WellNumbered
  <2> QED BY <2>3, <2>4 DEF LotIdsIdentify
<1> QED BY <1>1, Numbered, PTL

(***************************************************************************)
(* The identifier of a lot that was closed in full is never given to       *)
(* another lot, for any history and any number of months.                  *)
(***************************************************************************)
THEOREM RetiredIdsNotReused == Spec => []RetiredIdsStayRetired
<1>1. ASSUME TypeInv, NumberInv PROVE RetiredIdsStayRetired
  BY <1>1, IdsOfBook
    DEF TypeInv, TypeOK, BookOK, Lots, NumberInv, WellNumbered, RetiredIdsStayRetired
<1> QED BY <1>1, Numbered, PTL

-----------------------------------------------------------------------------
(* Origins. *)

\* Every lot of book b that has the identifier of a lot of book o became of it.
Descends(b, o) ==
  \A i, j \in Instruments : \A k \in 1..Len(b[i]), l \in 1..Len(o[j]) :
    b[i][k].id = o[j][l].id => Kin(b[i][k], o[j][l])

OriginInv == opening.nextId <= nextId /\ Descends(lots, opening.lots)

LEMMA KinTransitive ==
  ASSUME NEW e, NEW f, NEW g, Kin(e, f), Kin(f, g)
  PROVE  Kin(e, g)
BY DEF Kin

LEMMA DescendsFromItself ==
  ASSUME NEW b, NEW next, NEW gone, WellNumbered(b, next, gone)
  PROVE  Descends(b, b)
<1> SUFFICES ASSUME NEW i \in Instruments, NEW j \in Instruments,
                    NEW k \in 1..Len(b[i]), NEW l \in 1..Len(b[j]), b[i][k].id = b[j][l].id
             PROVE  Kin(b[i][k], b[j][l])
  BY DEF Descends
<1>1. b[i][k].id \in SeqIds(b[i]) /\ b[j][l].id \in SeqIds(b[j])
  BY DEF SeqIds
<1>2. i = j
  BY <1>1 DEF WellNumbered
<1>3. k = l
  BY <1>2 DEF WellNumbered, Distinct
<1> QED BY <1>2, <1>3 DEF Kin

LEMMA NextOrigin ==
  TypeInv /\ NoNamesake /\ NumberInv /\ NumberInv' /\ OriginInv /\ [Next]_vars => OriginInv'
<1> SUFFICES ASSUME TypeInv, NoNamesake, NumberInv, NumberInv', OriginInv, [Next]_vars
             PROVE  OriginInv'
  OBVIOUS
<1>1. /\ lots \in [Instruments -> Lots] /\ nextId \in Nat /\ nextId \in LotIds
      /\ opening.nextId \in Nat
      /\ WellNumbered(opening.lots, opening.nextId, opening.retired)
      /\ opening.nextId <= nextId /\ Descends(lots, opening.lots)
  BY DEF TypeInv, TypeOK, BookOK, PeriodOK, Lots, LotIds, NumberInv, OriginInv
<1>2. ASSUME NEW j \in Instruments, NEW l \in 1..Len(opening.lots[j])
      PROVE  opening.lots[j][l].id # nextId
  <2> DEFINE id == opening.lots[j][l].id
  <2>1. id \in SeqIds(opening.lots[j])
    BY DEF SeqIds
  <2> HIDE DEF id
  <2>2. id \in Nat => id < opening.nextId
    BY <1>1, <2>1 DEF WellNumbered
  <2>3. id # nextId
    BY <1>1, <2>2
  <2> QED BY <2>3 DEF id
\* One instrument's lots became of the lots of one instrument.
<1>3. ASSUME NEW i \in Instruments, NEW r,
             \A k \in 1..Len(r) : r[k].id # nextId => \E m \in 1..Len(lots[i]) : Kin(r[k], lots[i][m]),
             NEW k \in 1..Len(r), NEW j \in Instruments, NEW l \in 1..Len(opening.lots[j]),
             r[k].id = opening.lots[j][l].id
      PROVE  Kin(r[k], opening.lots[j][l])
  <2>1. PICK m \in 1..Len(lots[i]) : Kin(r[k], lots[i][m])
    BY <1>2, <1>3
  <2>2. lots[i][m].id = opening.lots[j][l].id
    BY <1>3, <2>1 DEF Kin
  <2>3. Kin(lots[i][m], opening.lots[j][l])
    BY <1>1, <2>2 DEF Descends
  <2> QED BY <2>1, <2>3, KinTransitive
<1>4. CASE Kept
  BY <1>1, <1>4 DEF Kept, OriginInv
<1>5. ASSUME NEW i \in Instruments, NEW r \in Lots, lots' = [lots EXCEPT ![i] = r],
             \A k \in 1..Len(r) : r[k].id # nextId => \E m \in 1..Len(lots[i]) : Kin(r[k], lots[i][m]),
             nextId' \in {nextId, nextId + 1}, UNCHANGED opening
      PROVE  OriginInv'
  <2>1. opening'.nextId <= nextId' /\ opening'.lots = opening.lots
    BY <1>1, <1>5
  <2>2. ASSUME NEW a \in Instruments, NEW j \in Instruments,
               NEW k \in 1..Len(lots'[a]), NEW l \in 1..Len(opening.lots[j]),
               lots'[a][k].id = opening.lots[j][l].id
        PROVE  Kin(lots'[a][k], opening.lots[j][l])
    <3>1. CASE a = i
      <4>1. lots'[a] = r
        BY <1>1, <1>5, <3>1
      <4> QED BY <1>3, <1>5, <2>2, <4>1, ZenonT(60)
    <3>2. CASE a # i
      <4>1. lots'[a] = lots[a]
        BY <1>1, <1>5, <3>2
      <4> QED BY <1>1, <2>2, <4>1 DEF Descends
    <3> QED BY <3>1, <3>2
  <2> QED BY <2>1, <2>2 DEF OriginInv, Descends
<1>6. CASE Grown
  <2>1. PICK i \in Instruments, e \in Lot :
          /\ e.id = nextId
          /\ lots' = [lots EXCEPT ![i] = Append(lots[i], e)]
          /\ nextId' = nextId + 1
          /\ UNCHANGED << retired, opening >>
    BY <1>6 DEF Grown
  <2> DEFINE r == Append(lots[i], e)
  <2>2. r \in Lots /\ \A k \in 1..Len(r) : r[k] = e \/ \E m \in 1..Len(lots[i]) : r[k] = lots[i][m]
    BY <1>1, AppendedLots
  <2>3. lots' = [lots EXCEPT ![i] = r]
    BY <2>1
  <2> HIDE DEF r
  <2>4. \A k \in 1..Len(r) : r[k].id # nextId => \E m \in 1..Len(lots[i]) : Kin(r[k], lots[i][m])
    BY <2>1, <2>2 DEF Kin
  <2> QED BY <1>5, <2>1, <2>2, <2>3, <2>4
<1>7. CASE Drawn
  <2>1. PICK i \in Instruments, r \in Lots, n \in Nat :
          \E f \in [1..Len(r) -> 1..Len(lots[i])] :
            /\ Comes(r, lots[i], f, n, nextId)
            /\ lots' = [lots EXCEPT ![i] = r]
            /\ nextId' = IF n = 0 THEN nextId ELSE nextId + 1
            /\ UNCHANGED opening
    BY <1>7 DEF Drawn
  <2>2. \A k \in 1..Len(r) : r[k].id # nextId => \E m \in 1..Len(lots[i]) : Kin(r[k], lots[i][m])
    BY <2>1 DEF Comes
  <2>3. nextId' \in {nextId, nextId + 1}
    BY <2>1
  <2> QED BY <1>5, <2>1, <2>2, <2>3
<1>8. CASE Moved
  <2>1. PICK old \in Options, new \in Options, r \in Lots :
          \E f \in [1..Len(r) -> 1..Len(lots[old])] :
            /\ Comes(r, lots[old], f, 0, nextId)
            /\ lots' = [i \in Instruments |-> IF i = new THEN r
                                             ELSE IF i = old THEN << >> ELSE lots[i]]
            /\ UNCHANGED << nextId, retired, opening >>
    BY <1>8 DEF Moved
  <2>2. \A k \in 1..Len(r) : r[k].id # nextId => \E m \in 1..Len(lots[old]) : Kin(r[k], lots[old][m])
    BY <2>1 DEF Comes
  <2>3. old \in Instruments
    BY KindsOfInstrument
  <2>4. ASSUME NEW a \in Instruments, NEW j \in Instruments,
               NEW k \in 1..Len(lots'[a]), NEW l \in 1..Len(opening.lots[j]),
               lots'[a][k].id = opening.lots[j][l].id
        PROVE  Kin(lots'[a][k], opening.lots[j][l])
    <3>1. CASE a = new
      <4>1. lots'[a] = r
        BY <2>1, <3>1
      <4> QED BY <1>3, <2>2, <2>3, <2>4, <4>1, SMTT(40)
    <3>2. CASE a # new /\ a = old
      <4>1. lots'[a] = << >>
        BY <2>1, <3>2
      <4> QED BY <2>4, <4>1, EmptyIds
    <3>3. CASE a # new /\ a # old
      <4>1. lots'[a] = lots[a]
        BY <2>1, <3>3
      <4> QED BY <1>1, <2>4, <4>1 DEF Descends
    <3> QED BY <3>1, <3>2, <3>3
  <2> QED BY <1>1, <2>1, <2>4 DEF OriginInv, Descends
<1>9. CASE Restarted
  <2>1. Descends(opening.lots, opening.lots)
    BY <1>1, DescendsFromItself
  <2> QED BY <1>1, <1>9, <2>1 DEF Restarted, OriginInv
<1>10. CASE Carried
  <2>1. lots' = opening'.lots /\ opening'.nextId = nextId'
    BY <1>10 DEF Carried
  <2>2. WellNumbered(lots', nextId', retired')
    BY DEF NumberInv
  <2>3. Descends(lots', lots')
    BY <2>2, DescendsFromItself
  <2> QED BY <1>1, <1>10, <2>1, <2>3 DEF Carried, OriginInv
<1> QED BY <1>4, <1>6, <1>7, <1>8, <1>9, <1>10, StepKinds

(***************************************************************************)
(* As long as a lot the month was opened with is open, the replay leaves   *)
(* its date and side alone, and its campaign once it has one, through      *)
(* every close, assignment, split, abandoned attempt and carried month.    *)
(***************************************************************************)
THEOREM OriginsKept == Spec => []OpeningLotsKeepTheirOrigin
<1>1. Init /\ NumberInv => OriginInv
  <2> SUFFICES ASSUME Init, NumberInv PROVE OriginInv
    OBVIOUS
  <2>1. opening.lots = lots /\ opening.nextId = nextId /\ nextId = 1
    BY DEF Init, BookOf
  <2>2. Descends(lots, lots)
    BY DescendsFromItself DEF NumberInv
  <2> QED BY <2>1, <2>2 DEF OriginInv
<1>2. ASSUME TypeInv, OriginInv PROVE OpeningLotsKeepTheirOrigin
  <2>1. lots \in [Instruments -> Lots] /\ opening.lots \in [Instruments -> Lots]
    BY <1>2 DEF TypeInv, TypeOK, BookOK, PeriodOK, Lots
  <2>2. \A i \in Instruments :
          DOMAIN lots[i] = 1..Len(lots[i]) /\ DOMAIN opening.lots[i] = 1..Len(opening.lots[i])
    BY <2>1 DEF Lots
  <2>3. ASSUME NEW i \in Instruments, NEW j \in Instruments,
               NEW k \in DOMAIN lots[i], NEW l \in DOMAIN opening.lots[j],
               lots[i][k].id = opening.lots[j][l].id
        PROVE  Kin(lots[i][k], opening.lots[j][l])
    BY <1>2, <2>2, <2>3 DEF OriginInv, Descends
  <2> QED BY <2>3 DEF Kin, OpeningLotsKeepTheirOrigin
<1>3. /\ TypeInv /\ NoNamesake /\ NumberInv /\ (TypeInv /\ NoNamesake /\ NumberInv)'
         /\ OriginInv /\ [Next]_vars
      => OriginInv'
  BY NextOrigin
<1> QED BY <1>1, <1>2, <1>3, Numbered, PTL DEF Spec

-----------------------------------------------------------------------------
(* First in, first out. *)

\* The lots of an instrument stand in the order of their dates.
Aged(book, now) ==
  \A i \in Instruments :
    Sorted(book[i]) /\ \A k \in 1..Len(book[i]) : book[i][k].opened <= now

\* The lots a month's reload puts behind others are not older than those.
PairsBehind(book) ==
  \A p \in ForexPairs :
    \A k \in 1..Len(book[Namesake[p]]), l \in 1..Len(book[p]) :
      book[Namesake[p]][k].opened <= book[p][l].opened

AgeInv == Aged(lots, clock) /\ Aged(opening.lots, clock) /\ PairsBehind(lots)

\* The lots of r have the dates of lots of s.
DatesFrom(r, s) ==
  \A k \in 1..Len(r) : \E m \in 1..Len(s) : r[k].opened = s[m].opened

LEMMA AgedLater ==
  ASSUME NEW b \in [Instruments -> Lots], NEW now \in Nat, NEW later \in Nat,
         now <= later, Aged(b, now)
  PROVE  Aged(b, later)
<1>1. ASSUME NEW i \in Instruments, NEW k \in 1..Len(b[i]) PROVE b[i][k].opened <= later
  <2>1. b[i] \in Lots
    OBVIOUS
  <2>2. b[i][k].opened \in Nat
    BY <2>1, LenNat DEF Lot
  <2> QED BY <2>2 DEF Aged
<1> QED BY <1>1 DEF Aged

LEMMA EmptyAged == Sorted(<< >>)
BY DEF Sorted

\* A book whose instruments keep their order and their dates, or are emptied.
LEMMA AgedFrom ==
  ASSUME NEW b, NEW now, Aged(b, now), PairsBehind(b), NEW b2,
         \A i \in Instruments : Sorted(b2[i]),
         \A i \in Instruments : \E j \in Instruments :
           DatesFrom(b2[i], b[j]) /\ (i = j \/ (i \in Options /\ j \in Options))
  PROVE  Aged(b2, now) /\ PairsBehind(b2)
<1>1. Aged(b2, now)
  <2> SUFFICES ASSUME NEW i \in Instruments, NEW k \in 1..Len(b2[i])
               PROVE  b2[i][k].opened <= now
    BY DEF Aged
  <2>1. PICK j \in Instruments : DatesFrom(b2[i], b[j])
    OBVIOUS
  <2>2. PICK m \in 1..Len(b[j]) : b2[i][k].opened = b[j][m].opened
    BY <2>1 DEF DatesFrom
  <2> QED BY <2>2 DEF Aged
<1>2. PairsBehind(b2)
  <2> SUFFICES ASSUME NEW p \in ForexPairs,
                      NEW k \in 1..Len(b2[Namesake[p]]), NEW l \in 1..Len(b2[p])
               PROVE  b2[Namesake[p]][k].opened <= b2[p][l].opened
    BY DEF PairsBehind
  <2>1. p \in Instruments \ Options /\ Namesake[p] \in Instruments \ Options
    BY InstrumentAssumption DEF Instruments
  <2>2. DatesFrom(b2[p], b[p]) /\ DatesFrom(b2[Namesake[p]], b[Namesake[p]])
    BY <2>1
  <2>3. PICK m \in 1..Len(b[Namesake[p]]) : b2[Namesake[p]][k].opened = b[Namesake[p]][m].opened
    BY <2>2 DEF DatesFrom
  <2>4. PICK n \in 1..Len(b[p]) : b2[p][l].opened = b[p][n].opened
    BY <2>2 DEF DatesFrom
  <2>5. b[Namesake[p]][m].opened <= b[p][n].opened
    BY DEF PairsBehind
  <2> QED BY <2>3, <2>4, <2>5
<1> QED BY <1>1, <1>2

LEMMA ReloadedAged ==
  ASSUME NEW b \in [Instruments -> Lots], NEW now, Aged(b, now), PairsBehind(b)
  PROVE  Aged(Reloaded(b), now) /\ PairsBehind(Reloaded(b))
<1> DEFINE b2 == Reloaded(b)
<1>1. /\ \A p \in ForexPairs : b2[p] = << >>
      /\ \A i \in Instruments \ ForexPairs :
           \/ b2[i] = b[i]
           \/ \E p \in ForexPairs : Namesake[p] = i /\ b2[i] = b[i] \o b[p]
  BY ReloadedBook
<1> HIDE DEF b2
<1>2. ASSUME NEW i \in Instruments
      PROVE  Sorted(b2[i]) /\ \A k \in 1..Len(b2[i]) : b2[i][k].opened <= now
  <2>1. CASE i \in ForexPairs
    BY <1>1, <2>1, EmptyIds, EmptyAged
  <2>2. CASE i \notin ForexPairs /\ b2[i] = b[i]
    BY <2>2 DEF Aged
  <2>3. ASSUME NEW p \in ForexPairs, Namesake[p] = i, b2[i] = b[i] \o b[p]
        PROVE  Sorted(b2[i]) /\ \A k \in 1..Len(b2[i]) : b2[i][k].opened <= now
    <3>1. p \in Instruments
      BY KindsOfInstrument
    <3>2. b[i] \in Lots /\ b[p] \in Lots /\ Sorted(b[i]) /\ Sorted(b[p])
      BY <3>1 DEF Aged
    <3>3. \A j \in 1..Len(b[i]), l \in 1..Len(b[p]) : b[i][j].opened <= b[p][l].opened
      BY <2>3 DEF PairsBehind
    <3> DEFINE s == b[i]
               t == b[p]
    <3>4. s \in Lots /\ t \in Lots /\ Sorted(s) /\ Sorted(t)
          /\ (\A j \in 1..Len(s), l \in 1..Len(t) : s[j].opened <= t[l].opened)
      BY <3>2, <3>3
    <3>5. /\ \A j \in 1..Len(s) : s[j].opened <= now
          /\ \A j \in 1..Len(t) : t[j].opened <= now
      BY <3>1 DEF Aged
    <3> HIDE DEF s, t
    <3>6. /\ Sorted(s \o t)
          /\ \A k \in 1..Len(s \o t) : \/ \E l \in 1..Len(s) : (s \o t)[k] = s[l]
                                       \/ \E l \in 1..Len(t) : (s \o t)[k] = t[l]
      BY <3>4, JoinedLots
    <3>7. \A k \in 1..Len(s \o t) : (s \o t)[k].opened <= now
      BY <3>5, <3>6
    <3>8. b2[i] = s \o t
      BY <2>3 DEF s, t
    <3> QED BY <3>6, <3>7, <3>8
  <2> QED BY <1>1, <2>1, <2>2, <2>3
<1>3. PairsBehind(b2)
  BY <1>1, EmptyIds DEF PairsBehind
<1> QED BY <1>2, <1>3 DEF Aged, b2

LEMMA InitAged == Init => AgeInv
<1> SUFFICES ASSUME Init PROVE AgeInv
  OBVIOUS
<1>1. PICK rows \in SUBSET SnapshotRows :
        lots = [i \in Instruments |->
                  IF \E r \in rows : r.instrument = i
                  THEN LET row == CHOOSE r \in rows : r.instrument = i
                       IN << BuildLot(i, row.quantity, 0, NoCampaign) >>
                  ELSE << >>]
  BY DEF Init
<1>2. ASSUME NEW i \in Instruments
      PROVE  Sorted(lots[i]) /\ \A k \in 1..Len(lots[i]) : lots[i][k].opened = 0
  <2>1. CASE \E r \in rows : r.instrument = i
    <3> DEFINE row == CHOOSE r \in rows : r.instrument = i
               e == BuildLot(i, row.quantity, 0, NoCampaign)
    <3>1. lots[i] = << e >>
      BY <2>1, <1>1
    <3>2. e.opened = 0
      BY DEF BuildLot
    <3> HIDE DEF e
    <3> QED BY <3>1, <3>2 DEF Sorted
  <2>2. CASE ~ \E r \in rows : r.instrument = i
    <3>1. lots[i] = << >>
      BY <2>2, <1>1
    <3> QED BY <3>1, EmptyIds, EmptyAged
  <2> QED BY <2>1, <2>2
<1>3. clock = 0 /\ opening.lots = lots
  BY DEF Init, BookOf
<1>4. PairsBehind(lots)
  BY <1>2, KindsOfInstrument DEF PairsBehind
<1> QED BY <1>2, <1>3, <1>4 DEF AgeInv, Aged

LEMMA NextAged == TypeInv /\ NoNamesake /\ AgeInv /\ [Next]_vars => AgeInv'
<1> SUFFICES ASSUME TypeInv, NoNamesake, AgeInv, [Next]_vars PROVE AgeInv'
  OBVIOUS
<1>1. /\ lots \in [Instruments -> Lots] /\ opening.lots \in [Instruments -> Lots]
      /\ clock \in Nat /\ clock' \in Nat /\ clock <= clock' /\ nextId \in LotIds
  BY StepKinds DEF TypeInv, TypeOK, BookOK, PeriodOK, Lots, LotIds
<1>2. /\ Aged(lots, clock') /\ Aged(opening.lots, clock') /\ PairsBehind(lots)
  BY <1>1, AgedLater DEF AgeInv
<1>3. \A i \in Instruments : lots[i] \in Lots /\ Sorted(lots[i]) /\ DatesFrom(lots[i], lots[i])
  BY <1>1, <1>2 DEF Aged, DatesFrom
<1>4. CASE Kept
  BY <1>2, <1>4 DEF Kept, AgeInv
<1>5. CASE Grown
  <2>1. PICK i \in Instruments, e \in Lot :
          /\ \A p \in ForexPairs : i # Namesake[p]
          /\ e.opened = clock'
          /\ lots' = [lots EXCEPT ![i] = Append(lots[i], e)]
          /\ UNCHANGED opening
    BY <1>5 DEF Grown
  <2> DEFINE r == Append(lots[i], e)
  <2>2. \A k \in 1..Len(lots[i]) : lots[i][k].opened <= e.opened
    BY <1>2, <2>1 DEF Aged
  <2>3. /\ Sorted(r)
        /\ \A k \in 1..Len(r) : r[k] = e \/ \E m \in 1..Len(lots[i]) : r[k] = lots[i][m]
    BY <1>3, <2>2, AppendedLots
  <2>4. lots'[i] = r /\ \A j \in Instruments \ {i} : lots'[j] = lots[j]
    BY <1>1, <2>1
  <2> HIDE DEF r
  <2>5. Aged(lots', clock')
    <3>1. ASSUME NEW j \in Instruments
          PROVE  Sorted(lots'[j]) /\ \A k \in 1..Len(lots'[j]) : lots'[j][k].opened <= clock'
      <4>1. CASE j = i
        <5>1. \A k \in 1..Len(r) : r[k].opened <= clock'
          BY <1>1, <2>1, <2>2, <2>3
        <5> QED BY <2>3, <2>4, <4>1, <5>1
      <4>2. CASE j # i
        BY <1>2, <2>4, <4>2 DEF Aged
      <4> QED BY <4>1, <4>2
    <3> QED BY <3>1 DEF Aged
  <2>6. PairsBehind(lots')
    <3> SUFFICES ASSUME NEW p \in ForexPairs,
                        NEW k \in 1..Len(lots'[Namesake[p]]), NEW l \in 1..Len(lots'[p])
                 PROVE  lots'[Namesake[p]][k].opened <= lots'[p][l].opened
      BY DEF PairsBehind
    <3>1. p \in Instruments /\ Namesake[p] \in Instruments /\ Namesake[p] # i
      BY <2>1, KindsOfInstrument
    <3>2. lots'[Namesake[p]] = lots[Namesake[p]]
      BY <2>4, <3>1
    <3>3. CASE p # i
      <4>1. lots'[p] = lots[p]
        BY <2>4, <3>1, <3>3
      <4> QED BY <1>2, <3>2, <4>1 DEF PairsBehind
    <3>4. CASE p = i
      <4>1. CASE lots'[p][l] = e
        BY <1>2, <2>1, <3>1, <3>2, <4>1 DEF Aged
      <4>2. CASE \E m \in 1..Len(lots[i]) : lots'[p][l] = lots[i][m]
        BY <1>2, <3>2, <3>4, <4>2 DEF PairsBehind
      <4> QED BY <2>3, <2>4, <3>4, <4>1, <4>2
    <3> QED BY <3>3, <3>4
  <2> QED BY <1>2, <2>1, <2>5, <2>6 DEF AgeInv
<1>6. CASE Drawn
  <2>1. PICK i \in Instruments, r \in Lots, n \in Nat :
          \E f \in [1..Len(r) -> 1..Len(lots[i])] :
            /\ Comes(r, lots[i], f, n, nextId)
            /\ lots' = [lots EXCEPT ![i] = r]
            /\ UNCHANGED opening
    BY <1>6 DEF Drawn
  <2>2. Evolved(r, lots[i], nextId)
    BY <2>1 DEF Evolved
  <2>3. Sorted(r) /\ DatesFrom(r, lots[i])
    BY <1>1, <1>3, <2>2, EvolvedLots DEF DatesFrom
  <2>4. \A j \in Instruments : lots'[j] = IF j = i THEN r ELSE lots[j]
    BY <1>1, <2>1
  <2>5. \A j \in Instruments : Sorted(lots'[j]) /\ DatesFrom(lots'[j], lots[j])
    BY <1>3, <2>3, <2>4
  <2>6. Aged(lots', clock') /\ PairsBehind(lots')
    BY <1>2, <2>5, AgedFrom
  <2> QED BY <1>2, <2>1, <2>6 DEF AgeInv
<1>7. CASE Moved
  <2>1. PICK old \in Options, new \in Options, r \in Lots :
          \E f \in [1..Len(r) -> 1..Len(lots[old])] :
            /\ Comes(r, lots[old], f, 0, nextId)
            /\ lots' = [i \in Instruments |-> IF i = new THEN r
                                             ELSE IF i = old THEN << >> ELSE lots[i]]
            /\ UNCHANGED << nextId, retired, opening >>
    BY <1>7 DEF Moved
  <2>2. old \in Instruments /\ new \in Instruments
    BY KindsOfInstrument
  <2>3. Evolved(r, lots[old], nextId)
    BY <2>1 DEF Evolved
  <2>4. Sorted(r) /\ DatesFrom(r, lots[old])
    BY <1>1, <1>3, <2>2, <2>3, EvolvedLots DEF DatesFrom
  <2>5. ASSUME NEW j \in Instruments
        PROVE  /\ Sorted(lots'[j])
               /\ \E m \in Instruments :
                    DatesFrom(lots'[j], lots[m]) /\ (j = m \/ (j \in Options /\ m \in Options))
    <3>1. CASE j = new
      BY <2>1, <2>2, <2>4, <3>1
    <3>2. CASE j # new /\ j = old
      <4>1. lots'[j] = << >>
        BY <2>1, <3>2
      <4>2. DatesFrom(lots'[j], lots[j])
        BY <4>1, EmptyIds DEF DatesFrom
      <4> QED BY <4>1, <4>2, EmptyAged
    <3>3. CASE j # new /\ j # old
      <4>1. lots'[j] = lots[j]
        BY <2>1, <3>3
      <4> QED BY <1>3, <4>1
    <3> QED BY <3>1, <3>2, <3>3
  <2>6. Aged(lots', clock') /\ PairsBehind(lots')
    BY <1>2, <2>5, AgedFrom
  <2> QED BY <1>2, <2>1, <2>6 DEF AgeInv
<1>8. CASE Restarted
  <2>1. \A p \in ForexPairs : opening.lots[p] = << >>
    BY DEF TypeInv
  <2>2. PairsBehind(opening.lots)
    BY <2>1, EmptyIds DEF PairsBehind
  <2> QED BY <1>2, <1>8, <2>2 DEF Restarted, AgeInv
<1>9. CASE Carried
  <2>1. Aged(Reloaded(lots), clock') /\ PairsBehind(Reloaded(lots))
    BY <1>1, <1>2, ReloadedAged
  <2> QED BY <1>9, <2>1 DEF Carried, AgeInv
<1> QED BY <1>4, <1>5, <1>6, <1>7, <1>8, <1>9, StepKinds

FifoInv == ClosedOldestFirst /\ \A a \in allocations : a.opened <= clock

\* All steps but these two leave no allocation behind or leave the state alone.
LEMMA AllocationsStart ==
  ASSUME TypeInv, Next, ~CloseNextLot, ~AppendRest
  PROVE  allocations' = {}
<1>1. stage \in {"idle", "claim"} => allocations = {}
  BY DEF TypeInv
<1>2. CASE ReadItem
  <2>1. NextItem
    BY <1>2 DEF ReadItem, OpenLeg, CloseLeg, ForexTrade, Expiration, Assignment, Split
  <2> QED BY <1>1, <2>1 DEF NextItem
<1>3. CASE Finish \/ Deliver \/ Abandon \/ \E c \in Campaigns : Reopen(c)
  BY <1>3 DEF Finish, Deliver, Abandon, Reopen, ItemDone
<1>4. CASE ClaimNextLot \/ ClaimDone \/ EndMonth
  BY <1>1, <1>4 DEF ClaimNextLot, ClaimDone, EndMonth
<1> QED BY <1>2, <1>3, <1>4 DEF Next

LEMMA NextFifo == TypeInv /\ AgeInv /\ FifoInv /\ [Next]_vars => FifoInv'
<1> SUFFICES ASSUME TypeInv, AgeInv, FifoInv, [Next]_vars PROVE FifoInv'
  OBVIOUS
<1>1. /\ lots \in [Instruments -> Lots] /\ nextId \in LotIds /\ instrument \in Instruments
      /\ owner \in Campaigns \cup {NoCampaign} /\ due \in Int
      /\ allocations \subseteq Allocation /\ clock \in Nat
  BY DEF TypeInv, TypeOK, BookOK, LoopOK, PeriodOK, Lots, LotIds
<1> DEFINE s == lots[instrument]
<1>2. s \in Lots /\ Sorted(s) /\ DOMAIN s = 1..Len(s) /\ Len(s) \in Nat
      /\ \A k \in 1..Len(s) : s[k].opened <= clock
  BY <1>1, LenNat DEF AgeInv, Aged, Lots
<1>3. \A a \in allocations :
        /\ a.opened <= clock
        /\ \A m \in 1..Len(s) : Sign(s[m].quantity) # Sign(a.quantity) => a.opened <= s[m].opened
  BY <1>2 DEF FifoInv, ClosedOldestFirst
<1>4. CASE allocations' = {}
  BY <1>4 DEF FifoInv, ClosedOldestFirst
<1>5. CASE UNCHANGED vars
  BY <1>5 DEF vars, FifoInv, ClosedOldestFirst
<1>6. CASE CloseNextLot
  <2> DEFINE k == NextToClose(s, due)
             part == Taken(s[k], due)
             r == Reduced(s, k, part)
             c == IF stage = "close" THEN owner ELSE NoCampaign
             new == AllocationOf(s[k], part, c)
  <2>1. /\ due \in Int \ {0} /\ Opposite(s, due) # {}
        /\ lots' = [lots EXCEPT ![instrument] = r]
        /\ allocations' = allocations \cup { new }
        /\ UNCHANGED << instrument, clock >>
    BY <1>1, <1>6 DEF CloseNextLot
  <2>2. c \in Campaigns \cup {NoCampaign}
    BY <1>1
  <2>3. lots'[instrument'] = r
    BY <1>1, <2>1
  <2> HIDE DEF c, s
  <2>4. /\ k \in 1..Len(s) /\ Sign(s[k].quantity) # Sign(due)
        /\ \A j \in 1..Len(s) : Sign(s[j].quantity) # Sign(due) => k <= j
    BY <1>2, <2>1, NextClosed
  <2> HIDE DEF k
  <2>5. s[k] \in Lot
    BY <1>2, <2>4, LenNat
  <2>6. /\ part \in Int \ {0} /\ Sign(part) = Sign(due)
        /\ s[k].quantity + part # 0 => Sign(s[k].quantity + part) = Sign(s[k].quantity)
    BY <2>1, <2>4, <2>5, TakenPart
  <2> HIDE DEF part
  <2>7. r \in Lots /\ \E f \in [1..Len(r) -> 1..Len(s)] : Comes(r, s, f, 0, nextId)
    BY <1>1, <1>2, <2>4, <2>6, ReducedLots
  <2> HIDE DEF r
  <2>8. Evolved(r, s, nextId)
    BY <2>7 DEF Evolved
  <2>9. \A j \in 1..Len(r) : \E m \in 1..Len(s) :
          r[j].opened = s[m].opened /\ Sign(r[j].quantity) = Sign(s[m].quantity)
    BY <1>1, <1>2, <2>7, <2>8, EvolvedLots
  <2>10. new.opened = s[k].opened /\ new.quantity = part
    BY ONLY <2>2, <2>5, <2>6, AllocationTypes, SMTT(40), ZenonT(60)
  <2> HIDE DEF new
  <2>11. \A a \in allocations' :
           /\ a.opened <= clock
           /\ \A m \in 1..Len(s) : Sign(s[m].quantity) # Sign(a.quantity) => a.opened <= s[m].opened
    <3>1. \A m \in 1..Len(s) : Sign(s[m].quantity) # Sign(new.quantity) => new.opened <= s[m].opened
      <4> SUFFICES ASSUME NEW m \in 1..Len(s), Sign(s[m].quantity) # Sign(new.quantity)
                   PROVE  new.opened <= s[m].opened
        OBVIOUS
      <4>1. k <= m
        BY <2>4, <2>6, <2>10
      <4>2. CASE k = m
        BY <2>5, <2>10, <4>2 DEF Lot
      <4>3. CASE k # m
        BY <1>2, <2>4, <2>10, <4>1, <4>3 DEF Sorted
      <4> QED BY <4>2, <4>3
    <3> QED BY <1>2, <1>3, <2>1, <2>4, <2>10, <3>1
  <2>12. ASSUME NEW a \in allocations', NEW j \in 1..Len(r), Sign(r[j].quantity) # Sign(a.quantity)
         PROVE  a.opened <= r[j].opened
    BY <2>9, <2>11, <2>12
  <2>13. DOMAIN r = 1..Len(r)
    BY <2>7 DEF Lots
  <2> QED BY <2>1, <2>3, <2>11, <2>12, <2>13 DEF FifoInv, ClosedOldestFirst
<1>7. CASE AppendRest
  <2> DEFINE e == BuildLot(nextId, due, clock, owner)
             r == Append(s, e)
  <2>1. /\ due \in Int \ {0}
        /\ lots' = [lots EXCEPT ![instrument] = r]
        /\ UNCHANGED << instrument, clock, allocations >>
    BY <1>1, <1>7 DEF AppendRest, AppendLot
  <2>2. e \in Lot /\ e.opened = clock
    BY <1>1, <2>1, NewLot
  <2>3. lots'[instrument'] = r
    BY <1>1, <2>1
  <2> HIDE DEF e, s
  <2>4. r \in Lots /\ \A j \in 1..Len(r) : r[j] = e \/ \E m \in 1..Len(s) : r[j] = s[m]
    BY <1>2, <2>2, AppendedLots
  <2> HIDE DEF r
  <2>5. ASSUME NEW a \in allocations, NEW j \in 1..Len(r), Sign(r[j].quantity) # Sign(a.quantity)
        PROVE  a.opened <= r[j].opened
    BY <1>3, <2>2, <2>4, <2>5
  <2>6. DOMAIN r = 1..Len(r)
    BY <2>4 DEF Lots
  <2> QED BY <1>3, <2>1, <2>3, <2>5, <2>6 DEF FifoInv, ClosedOldestFirst
<1> QED BY <1>4, <1>5, <1>6, <1>7, AllocationsStart

(***************************************************************************)
(* A close draws on the oldest lots of the other side: after any number of *)
(* iterations of _close no lot it could have taken is older than one it    *)
(* took, for books of any length, also after pairs were carried under      *)
(* their symbols and lots were divided by assignments.                     *)
(***************************************************************************)
THEOREM OldestClosedFirst == Spec => []ClosedOldestFirst
<1>1. Init => FifoInv
  BY DEF Init, FifoInv, ClosedOldestFirst
<1>2. /\ TypeInv /\ NoNamesake /\ NumberInv /\ AgeInv /\ FifoInv /\ [Next]_vars
      => AgeInv' /\ FifoInv'
  BY NextAged, NextFifo
<1>3. FifoInv => ClosedOldestFirst
  BY DEF FifoInv
<1> QED BY <1>1, <1>2, <1>3, InitAged, Numbered, PTL DEF Spec

-----------------------------------------------------------------------------
(* What the lots of an instrument add up to. *)

LEMMA QuantitiesOfLots ==
  ASSUME NEW s \in Lots
  PROVE  /\ QuantitiesOf(s) \in Seq(Int) /\ Len(QuantitiesOf(s)) = Len(s) /\ Len(s) \in Nat
         /\ \A k \in 1..Len(s) : QuantitiesOf(s)[k] = s[k].quantity /\ s[k].quantity \in Int
         /\ SumQuantities(s) \in Int
<1>1. Len(s) \in Nat /\ DOMAIN s = 1..Len(s) /\ \A k \in 1..Len(s) : s[k].quantity \in Int
  <2>1. Len(s) \in Nat /\ \A k \in 1..Len(s) : s[k] \in Lot
    BY LenNat
  <2>2. DOMAIN s = 1..Len(s)
    BY DEF Lots
  <2> QED BY <2>1, <2>2 DEF Lot
<1>2. QuantitiesOf(s) = [k \in 1..Len(s) |-> s[k].quantity]
  BY <1>1 DEF QuantitiesOf
<1>3. QuantitiesOf(s) \in Seq(Int) /\ Len(QuantitiesOf(s)) = Len(s)
  BY <1>1, <1>2
<1>4. SumQuantities(s) \in Int
  BY <1>3, TotalInt DEF SumQuantities
<1> QED BY <1>1, <1>2, <1>3, <1>4

LEMMA SumOfNone == SumQuantities(<< >>) = 0
<1>1. QuantitiesOf(<< >>) = << >>
  BY DEF QuantitiesOf
<1> QED BY <1>1, TotalOfNone DEF SumQuantities

LEMMA SumOfAppended ==
  ASSUME NEW s \in Lots, NEW e \in Lot
  PROVE  SumQuantities(Append(s, e)) = SumQuantities(s) + e.quantity
<1> DEFINE r == Append(s, e)
<1>1. /\ r \in Lots /\ Len(r) = Len(s) + 1 /\ \A k \in 1..Len(s) : r[k] = s[k]
      /\ r[Len(s) + 1] = e
  BY AppendElements, LenNat DEF Lots
<1> HIDE DEF r
<1>2. /\ QuantitiesOf(s) \in Seq(Int) /\ Len(QuantitiesOf(s)) = Len(s) /\ Len(s) \in Nat
      /\ \A k \in 1..Len(s) : QuantitiesOf(s)[k] = s[k].quantity
  BY QuantitiesOfLots
<1>3. /\ QuantitiesOf(r) \in Seq(Int) /\ Len(QuantitiesOf(r)) = Len(r)
      /\ \A k \in 1..Len(r) : QuantitiesOf(r)[k] = r[k].quantity
  BY <1>1, QuantitiesOfLots
<1>4. \A k \in 1..Len(s) : QuantitiesOf(r)[k] = QuantitiesOf(s)[k]
  BY <1>1, <1>2, <1>3, SMTT(40)
<1>5. QuantitiesOf(r)[Len(r)] = e.quantity
  BY <1>1, <1>2, <1>3
<1>6. Total(QuantitiesOf(r)) = Total(QuantitiesOf(s)) + QuantitiesOf(r)[Len(QuantitiesOf(r))]
  BY <1>1, <1>2, <1>3, <1>4, TotalExtended
<1> QED BY <1>3, <1>5, <1>6 DEF SumQuantities, r

LEMMA SumOfJoined ==
  ASSUME NEW s \in Lots, NEW t \in Lots
  PROVE  SumQuantities(s \o t) = SumQuantities(s) + SumQuantities(t)
<1> DEFINE r == s \o t
<1>1. /\ r \in Lots /\ Len(r) = Len(s) + Len(t)
      /\ \A j \in 1..Len(r) : r[j] = IF j <= Len(s) THEN s[j] ELSE t[j - Len(s)]
  BY ConcatProperties, LenNat DEF Lots
<1> HIDE DEF r
<1>2. /\ QuantitiesOf(s) \in Seq(Int) /\ Len(QuantitiesOf(s)) = Len(s) /\ Len(s) \in Nat
      /\ \A k \in 1..Len(s) : QuantitiesOf(s)[k] = s[k].quantity
  BY QuantitiesOfLots
<1>3. /\ QuantitiesOf(t) \in Seq(Int) /\ Len(QuantitiesOf(t)) = Len(t) /\ Len(t) \in Nat
      /\ \A k \in 1..Len(t) : QuantitiesOf(t)[k] = t[k].quantity
  BY QuantitiesOfLots
<1>4. /\ QuantitiesOf(r) \in Seq(Int) /\ Len(QuantitiesOf(r)) = Len(r)
      /\ \A k \in 1..Len(r) : QuantitiesOf(r)[k] = r[k].quantity
  BY <1>1, QuantitiesOfLots
<1>5. ASSUME NEW k \in 1..Len(r)
      PROVE  QuantitiesOf(r)[k] = IF k <= Len(s) THEN QuantitiesOf(s)[k]
                                  ELSE QuantitiesOf(t)[k - Len(s)]
  <2>1. CASE k <= Len(s)
    <3>1. k \in 1..Len(s)
      BY <1>1, <1>2, <2>1
    <3> QED BY <1>1, <1>2, <1>4, <2>1, <3>1
  <2>2. CASE ~(k <= Len(s))
    <3>1. k - Len(s) \in 1..Len(t)
      BY <1>1, <1>2, <1>3, <2>2
    <3> QED BY <1>1, <1>3, <1>4, <2>2, <3>1
  <2> QED BY <2>1, <2>2
<1>6. Total(QuantitiesOf(r)) = Total(QuantitiesOf(s)) + Total(QuantitiesOf(t))
  <2>1. Len(QuantitiesOf(r)) = Len(QuantitiesOf(s)) + Len(QuantitiesOf(t))
    BY <1>1, <1>2, <1>3, <1>4
  <2>2. \A k \in 1..Len(QuantitiesOf(r)) :
          QuantitiesOf(r)[k] = IF k <= Len(QuantitiesOf(s)) THEN QuantitiesOf(s)[k]
                               ELSE QuantitiesOf(t)[k - Len(QuantitiesOf(s))]
    BY <1>2, <1>4, <1>5
  <2>3. QuantitiesOf(s) \in Seq(Int) /\ QuantitiesOf(t) \in Seq(Int) /\ QuantitiesOf(r) \in Seq(Int)
    BY <1>2, <1>3, <1>4
  <2> QED BY <2>1, <2>2, <2>3, TotalJoined
<1> QED BY <1>6 DEF SumQuantities, r

LEMMA SumOfReduced ==
  ASSUME NEW s \in Lots, NEW k \in 1..Len(s), NEW part \in Int
  PROVE  SumQuantities(Reduced(s, k, part)) = SumQuantities(s) + part
<1> DEFINE r == Reduced(s, k, part)
           e == [s[k] EXCEPT !.quantity = s[k].quantity + part]
<1>1. /\ QuantitiesOf(s) \in Seq(Int) /\ Len(QuantitiesOf(s)) = Len(s) /\ Len(s) \in Nat
      /\ \A j \in 1..Len(s) : QuantitiesOf(s)[j] = s[j].quantity
      /\ s[k] \in Lot /\ s[k].quantity \in Int /\ SumQuantities(s) \in Int
  BY QuantitiesOfLots, LenNat DEF Lot
<1>2. CASE s[k].quantity + part = 0
  <2>1. /\ r \in Lots /\ Len(r) = Len(s) - 1
        /\ \A j \in 1..(Len(s) - 1) : r[j] = IF j < k THEN s[j] ELSE s[j + 1]
    BY <1>2, RemoveElements DEF Reduced
  <2> HIDE DEF r
  <2>2. /\ QuantitiesOf(r) \in Seq(Int) /\ Len(QuantitiesOf(r)) = Len(r)
        /\ \A j \in 1..Len(r) : QuantitiesOf(r)[j] = r[j].quantity
    BY <2>1, QuantitiesOfLots
  <2>3. ASSUME NEW j \in 1..(Len(s) - 1)
        PROVE  QuantitiesOf(r)[j] = IF j < k THEN QuantitiesOf(s)[j] ELSE QuantitiesOf(s)[j + 1]
    <3>1. j \in 1..Len(s) /\ j + 1 \in 1..Len(s) /\ j \in 1..Len(r)
      BY <1>1, <2>1
    <3> QED BY <1>1, <2>1, <2>2, <3>1
  <2>4. Total(QuantitiesOf(r)) = Total(QuantitiesOf(s)) - QuantitiesOf(s)[k]
    BY <1>1, <2>1, <2>2, <2>3, TotalRemoved
  <2>5. part = -s[k].quantity
    BY <1>1, <1>2
  <2> QED BY <1>1, <2>4, <2>5 DEF SumQuantities, r
<1>3. CASE s[k].quantity + part # 0
  <2>1. e \in Lot /\ e.quantity = s[k].quantity + part
    <3>1. s[k].quantity + part \in Int \ {0}
      BY <1>1, <1>3
    <3>2. s[k] \in Lot
      BY <1>1
    <3> QED BY <3>1, <3>2 DEF Lot
  <2>2. r = ReplaceAt(s, k, e)
    BY <1>3 DEF Reduced
  <2> HIDE DEF e, r
  <2>3. /\ r \in Lots /\ Len(r) = Len(s)
        /\ \A j \in 1..Len(s) : r[j] = IF j = k THEN e ELSE s[j]
    BY <2>1, <2>2, ReplaceElements
  <2>4. /\ QuantitiesOf(r) \in Seq(Int) /\ Len(QuantitiesOf(r)) = Len(r)
        /\ \A j \in 1..Len(r) : QuantitiesOf(r)[j] = r[j].quantity
    BY <2>3, QuantitiesOfLots
  <2>5. \A j \in 1..Len(s) : j # k => QuantitiesOf(r)[j] = QuantitiesOf(s)[j]
    BY <1>1, <2>3, <2>4
  <2>6. Total(QuantitiesOf(r)) = Total(QuantitiesOf(s)) - QuantitiesOf(s)[k] + QuantitiesOf(r)[k]
    BY <1>1, <2>3, <2>4, <2>5, TotalReplaced
  <2>7. QuantitiesOf(s)[k] = s[k].quantity /\ QuantitiesOf(r)[k] = s[k].quantity + part
    BY <1>1, <2>1, <2>3, <2>4
  <2> QED BY <1>1, <2>6, <2>7 DEF SumQuantities, r
<1> QED BY <1>2, <1>3

LEMMA SumOfClaimed ==
  ASSUME NEW s \in Lots, NEW k \in 1..Len(s), NEW quantity \in Nat \ {0},
         NEW campaign \in Campaigns, NEW new \in LotIds
  PROVE  SumQuantities(Claimed(s, k, quantity, campaign, new)) = SumQuantities(s)
<1> DEFINE r == Claimed(s, k, quantity, campaign, new)
           part == [s[k] EXCEPT !.campaign = campaign]
           first == [part EXCEPT !.quantity = quantity]
           rest == [s[k] EXCEPT !.id = new, !.quantity = s[k].quantity - quantity]
           t == ReplaceAt(s, k, first)
<1>1. /\ QuantitiesOf(s) \in Seq(Int) /\ Len(QuantitiesOf(s)) = Len(s) /\ Len(s) \in Nat
      /\ \A j \in 1..Len(s) : QuantitiesOf(s)[j] = s[j].quantity
      /\ SumQuantities(s) \in Int
  BY QuantitiesOfLots
<1>2. s[k] \in Lot /\ s[k].quantity \in Int
  BY LenNat DEF Lot
<1>3. part \in Lot /\ part.quantity = s[k].quantity
  BY <1>2 DEF Lot
\* Replacing a lot by one with another quantity.
<1>4. ASSUME NEW e \in Lot
      PROVE  /\ ReplaceAt(s, k, e) \in Lots /\ Len(ReplaceAt(s, k, e)) = Len(s)
             /\ \A j \in 1..Len(s) : ReplaceAt(s, k, e)[j] = IF j = k THEN e ELSE s[j]
             /\ SumQuantities(ReplaceAt(s, k, e)) = SumQuantities(s) - s[k].quantity + e.quantity
  <2> DEFINE u == ReplaceAt(s, k, e)
  <2>1. /\ u \in Lots /\ Len(u) = Len(s)
        /\ \A j \in 1..Len(s) : u[j] = IF j = k THEN e ELSE s[j]
    BY ReplaceElements
  <2> HIDE DEF u
  <2>2. /\ QuantitiesOf(u) \in Seq(Int) /\ Len(QuantitiesOf(u)) = Len(u)
        /\ \A j \in 1..Len(u) : QuantitiesOf(u)[j] = u[j].quantity
    BY <2>1, QuantitiesOfLots
  <2>3. \A j \in 1..Len(s) : j # k => QuantitiesOf(u)[j] = QuantitiesOf(s)[j]
    BY <1>1, <2>1, <2>2
  <2>4. Total(QuantitiesOf(u)) = Total(QuantitiesOf(s)) - QuantitiesOf(s)[k] + QuantitiesOf(u)[k]
    BY <1>1, <2>1, <2>2, <2>3, TotalReplaced
  <2>5. QuantitiesOf(s)[k] = s[k].quantity /\ QuantitiesOf(u)[k] = e.quantity
    BY <1>1, <2>1, <2>2
  <2> QED BY <2>1, <2>4, <2>5 DEF SumQuantities, u
<1>5. CASE s[k].quantity <= quantity
  <2>1. r = ReplaceAt(s, k, part)
    BY <1>5 DEF Claimed
  <2> HIDE DEF part, r
  <2>2. SumQuantities(r) = SumQuantities(s) - s[k].quantity + s[k].quantity
    BY <1>3, <1>4, <2>1
  <2> QED BY <1>1, <1>2, <2>2 DEF r
<1>6. CASE ~(s[k].quantity <= quantity)
  <2>1. r = InsertAt(t, k + 1, rest)
    BY <1>6 DEF Claimed
  <2>2. first \in Lot /\ first.quantity = quantity
    <3>1. part \in Lot /\ quantity \in Int \ {0}
      BY <1>3
    <3> HIDE DEF part
    <3> QED BY <3>1 DEF Lot
  <2>3. s[k].quantity - quantity \in Int \ {0}
    BY <1>2, <1>6
  <2>4. rest \in Lot /\ rest.quantity = s[k].quantity - quantity
    BY <1>2, <2>3 DEF Lot
  <2> HIDE DEF part, first, rest, r
  <2>5. t \in Lots /\ Len(t) = Len(s)
    BY <1>4, <2>2
  <2>6. SumQuantities(t) = SumQuantities(s) - s[k].quantity + quantity
    BY <1>4, <2>2
  <2> HIDE DEF t
  <2>7. k + 1 \in 1..(Len(t) + 1) /\ k + 1 \in 1..(Len(s) + 1)
    BY <1>1, <2>5
  <2>8. /\ r \in Lots /\ Len(r) = Len(t) + 1
        /\ \A j \in 1..(Len(t) + 1) :
             r[j] = IF j < k + 1 THEN t[j] ELSE IF j = k + 1 THEN rest ELSE t[j - 1]
    <3>1. rest \in Lot /\ t \in Lots
      BY <2>4, <2>5
    <3> QED BY <2>1, <2>7, <3>1, InsertElements
  <2>9. /\ QuantitiesOf(r) \in Seq(Int) /\ Len(QuantitiesOf(r)) = Len(r)
        /\ \A j \in 1..Len(r) : QuantitiesOf(r)[j] = r[j].quantity
    BY <2>8, QuantitiesOfLots
  <2>10. /\ QuantitiesOf(t) \in Seq(Int) /\ Len(QuantitiesOf(t)) = Len(t)
         /\ \A j \in 1..Len(t) : QuantitiesOf(t)[j] = t[j].quantity
    BY <2>5, QuantitiesOfLots
  <2>11. ASSUME NEW j \in 1..(Len(r) - 1)
         PROVE  QuantitiesOf(t)[j] = IF j < k + 1 THEN QuantitiesOf(r)[j] ELSE QuantitiesOf(r)[j + 1]
    <3>1. j \in 1..Len(t) /\ j \in 1..Len(r) /\ j + 1 \in 1..Len(r) /\ (j + 1) - 1 = j
      BY <1>1, <2>5, <2>8
    <3>2. CASE j < k + 1
      <4>1. j \in 1..(Len(t) + 1)
        BY <2>8, <3>1
      <4>2. r[j] = t[j]
        BY <2>8, <3>2, <4>1
      <4> QED BY <2>9, <2>10, <3>1, <3>2, <4>2
    <3>3. CASE ~(j < k + 1)
      <4>1. ~(j + 1 < k + 1) /\ j + 1 # k + 1 /\ j + 1 \in 1..(Len(t) + 1)
        BY <1>1, <2>5, <3>1, <3>3, SMTT(40)
      <4>2. r[j + 1] = t[j]
        BY <2>8, <3>1, <4>1
      <4> QED BY <2>9, <2>10, <3>1, <3>3, <4>2
    <3> QED BY <3>2, <3>3
  <2>12. Total(QuantitiesOf(t)) = Total(QuantitiesOf(r)) - QuantitiesOf(r)[k + 1]
    <3>1. k + 1 \in 1..Len(QuantitiesOf(r)) /\ Len(QuantitiesOf(t)) = Len(QuantitiesOf(r)) - 1
      BY <1>1, <2>5, <2>7, <2>8, <2>9, <2>10
    <3>2. \A j \in 1..(Len(QuantitiesOf(r)) - 1) :
            QuantitiesOf(t)[j] = IF j < k + 1 THEN QuantitiesOf(r)[j] ELSE QuantitiesOf(r)[j + 1]
      BY <2>9, <2>11
    <3> QED BY <2>9, <2>10, <3>1, <3>2, TotalRemoved
  <2>13. QuantitiesOf(r)[k + 1] = s[k].quantity - quantity
    <3>1. r[k + 1] = rest /\ k + 1 \in 1..Len(r)
      BY <1>1, <2>5, <2>7, <2>8
    <3> QED BY <2>4, <2>9, <3>1
  <2>14. SumQuantities(r) \in Int
    BY <2>8, QuantitiesOfLots
  <2>15. SumQuantities(t) = SumQuantities(r) - (s[k].quantity - quantity)
    BY <2>12, <2>13 DEF SumQuantities
  <2>16. SumQuantities(r) = SumQuantities(s)
    BY <1>1, <1>2, <2>6, <2>14, <2>15, SMTT(40)
  <2> QED BY <2>16 DEF r
<1> QED BY <1>5, <1>6

LEMMA SumOfMultiplied ==
  ASSUME NEW s \in Lots, NEW ratio \in Nat \ {0}
  PROVE  SumQuantities(Multiplied(s, ratio)) = SumQuantities(s) * ratio
<1> DEFINE r == Multiplied(s, ratio)
<1>1. /\ QuantitiesOf(s) \in Seq(Int) /\ Len(QuantitiesOf(s)) = Len(s) /\ Len(s) \in Nat
      /\ \A j \in 1..Len(s) : QuantitiesOf(s)[j] = s[j].quantity
  BY QuantitiesOfLots
<1>2. r \in Lots
  BY MultipliedLots DEF LotIds
<1>3. Len(r) = Len(s) /\ \A j \in 1..Len(s) : r[j].quantity = s[j].quantity * ratio
  <2>1. DOMAIN s = 1..Len(s) /\ \A j \in 1..Len(s) : s[j] \in Lot
    BY LenNat DEF Lots
  <2>2. r = [j \in 1..Len(s) |-> [s[j] EXCEPT !.quantity = s[j].quantity * ratio]]
    BY <2>1 DEF Multiplied
  <2>3. DOMAIN r = 1..Len(s) /\ \A j \in 1..Len(s) :
          r[j] = [s[j] EXCEPT !.quantity = s[j].quantity * ratio]
    BY <2>2
  <2>4. DOMAIN r = 1..Len(r) /\ Len(r) \in Nat
    BY <1>2 DEF Lots
  <2> HIDE DEF r
  <2>5. Len(r) = Len(s)
    BY <1>1, <2>3, <2>4
  <2> QED BY <2>1, <2>3, <2>5 DEF Lot
<1> HIDE DEF r
<1>4. /\ QuantitiesOf(r) \in Seq(Int) /\ Len(QuantitiesOf(r)) = Len(r)
      /\ \A j \in 1..Len(r) : QuantitiesOf(r)[j] = r[j].quantity
  BY <1>2, QuantitiesOfLots
<1>5. \A j \in 1..Len(QuantitiesOf(s)) : QuantitiesOf(r)[j] = QuantitiesOf(s)[j] * ratio
  BY <1>1, <1>3, <1>4
<1>6. Total(QuantitiesOf(r)) = Total(QuantitiesOf(s)) * ratio
  <2>1. Len(QuantitiesOf(r)) = Len(QuantitiesOf(s)) /\ ratio \in Int
    BY <1>1, <1>3, <1>4
  <2> QED BY <1>1, <1>4, <1>5, <2>1, TotalScaled
<1> QED BY <1>6 DEF SumQuantities, r

\* Lots of one side only add up to something on that side.
LEMMA SumOfOneSide ==
  ASSUME NEW s \in Lots, NEW q \in Int \ {0}, Opposite(s, q) = {}
  PROVE  /\ q > 0 => SumQuantities(s) >= 0
         /\ q < 0 => SumQuantities(s) <= 0
<1>1. /\ QuantitiesOf(s) \in Seq(Int) /\ Len(QuantitiesOf(s)) = Len(s) /\ Len(s) \in Nat
      /\ \A j \in 1..Len(s) : QuantitiesOf(s)[j] = s[j].quantity
      /\ SumQuantities(s) \in Int
  BY QuantitiesOfLots
<1>2. \A j \in 1..Len(s) : s[j].quantity \in Int \ {0} /\ Sign(s[j].quantity) = Sign(q)
  <2>1. DOMAIN s = 1..Len(s) /\ \A j \in 1..Len(s) : s[j] \in Lot
    BY LenNat DEF Lots
  <2> QED BY <2>1 DEF Opposite, Lot
<1>3. CASE s = << >>
  BY <1>3, SumOfNone
<1>4. CASE s # << >> /\ q > 0
  <2>1. \A j \in 1..Len(QuantitiesOf(s)) : QuantitiesOf(s)[j] > 0
    BY <1>1, <1>2, <1>4 DEF Sign
  <2>2. QuantitiesOf(s) # << >>
    <3>1. Len(s) # 0
      BY <1>4 DEF Lots
    <3> QED BY <1>1, <3>1
  <2>3. Total(QuantitiesOf(s)) > 0
    BY <1>1, <2>1, <2>2, TotalPositive
  <2> QED BY <1>1, <1>4, <2>3 DEF SumQuantities
<1>5. CASE s # << >> /\ q < 0
  <2> DEFINE d == [j \in 1..Len(s) |-> -QuantitiesOf(s)[j]]
  <2>1. \A j \in 1..Len(s) : QuantitiesOf(s)[j] \in Int /\ QuantitiesOf(s)[j] < 0
    BY <1>1, <1>2, <1>5 DEF Sign
  <2>2. d \in Seq(Int) /\ Len(d) = Len(s) /\ Len(s) # 0
    <3>1. Len(s) # 0
      BY <1>5 DEF Lots
    <3> QED BY <1>1, <2>1, <3>1
  <2>3. \A j \in 1..Len(d) : d[j] > 0
    BY <2>1, <2>2
  <2>4. \A j \in 1..Len(d) : QuantitiesOf(s)[j] = d[j] * (-1)
    BY <2>1, <2>2
  <2> HIDE DEF d
  <2>5. Total(d) > 0 /\ Total(d) \in Int
    BY <2>2, <2>3, TotalPositive, TotalInt
  <2>6. Total(QuantitiesOf(s)) = Total(d) * (-1)
    BY <1>1, <2>2, <2>4, TotalScaled
  <2> QED BY <1>1, <1>5, <2>5, <2>6 DEF SumQuantities
<1> QED BY <1>3, <1>4, <1>5

-----------------------------------------------------------------------------
(* Conservation of the units. *)

\* PositionsAgree with what keeps it: nothing is left to apply between items,
\* the opening book has the opening position, and an assignment binds shares.
BalanceInv ==
  /\ PositionsAgree
  /\ \A i \in Instruments : opening.position[i] = SumQuantities(opening.lots[i])
  /\ stage = "idle" => due = 0 /\ follow = 0
  /\ stage = "claim" => instrument \in Equities

LEMMA BalanceTypes ==
  ASSUME TypeInv
  PROVE  /\ lots \in [Instruments -> Lots] /\ opening.lots \in [Instruments -> Lots]
         /\ position \in [Instruments -> Int] /\ opening.position \in [Instruments -> Int]
         /\ \A i \in Instruments : /\ lots[i] \in Lots /\ position[i] \in Int
                                   /\ SumQuantities(lots[i]) \in Int
         /\ nextId \in LotIds /\ instrument \in Instruments
         /\ owner \in Campaigns \cup {NoCampaign}
         /\ due \in Int /\ follow \in Int /\ toClaim \in Nat /\ clock \in Nat
<1>1. /\ lots \in [Instruments -> Lots] /\ opening.lots \in [Instruments -> Lots]
      /\ position \in [Instruments -> Int] /\ opening.position \in [Instruments -> Int]
      /\ nextId \in LotIds /\ instrument \in Instruments
      /\ owner \in Campaigns \cup {NoCampaign}
      /\ due \in Int /\ follow \in Int /\ toClaim \in Nat /\ clock \in Nat
  BY DEF TypeInv, TypeOK, BookOK, LoopOK, PeriodOK, Lots, LotIds
<1>2. \A i \in Instruments : SumQuantities(lots[i]) \in Int
  BY <1>1, QuantitiesOfLots
<1> QED BY <1>1, <1>2

\* A new lot adds its quantity to the instrument it is appended to.
LEMMA AppendLotAdds ==
  ASSUME TypeInv, NEW i \in Instruments, NEW q \in Int \ {0},
         NEW c \in Campaigns \cup {NoCampaign}, NEW now \in Nat, AppendLot(i, q, c, now)
  PROVE  \A j \in Instruments :
           SumQuantities(lots'[j]) = SumQuantities(lots[j]) + (IF j = i THEN q ELSE 0)
<1> DEFINE e == BuildLot(nextId, q, now, c)
<1>1. e \in Lot /\ e.quantity = q
  BY BalanceTypes, NewLot
<1>2. lots' = [lots EXCEPT ![i] = Append(lots[i], e)]
  BY DEF AppendLot
<1> HIDE DEF e
<1>3. lots \in [Instruments -> Lots] /\ \A j \in Instruments : SumQuantities(lots[j]) \in Int
  BY BalanceTypes
<1>4. SumQuantities(Append(lots[i], e)) = SumQuantities(lots[i]) + q
  BY <1>1, <1>3, SumOfAppended
<1>5. ASSUME NEW j \in Instruments
      PROVE  SumQuantities(lots'[j]) = SumQuantities(lots[j]) + (IF j = i THEN q ELSE 0)
  <2>1. CASE j = i
    <3>1. lots'[j] = Append(lots[i], e)
      BY <1>2, <1>3, <2>1
    <3> QED BY <1>4, <2>1, <3>1
  <2>2. CASE j # i
    <3>1. lots'[j] = lots[j]
      BY <1>2, <1>3, <2>2
    <3> QED BY <1>3, <2>2, <3>1
  <2> QED BY <2>1, <2>2
<1> QED BY <1>5

LEMMA ReadItemBalanced ==
  ASSUME TypeInv, BalanceInv, ReadItem
  PROVE  BalanceInv'
<1>1. /\ \A i \in Instruments : position[i] \in Int /\ SumQuantities(lots[i]) \in Int
      /\ position \in [Instruments -> Int] /\ lots \in [Instruments -> Lots]
      /\ instrument \in Instruments /\ clock + 1 \in Nat
  BY BalanceTypes
<1>2. NextItem
  BY DEF ReadItem, OpenLeg, CloseLeg, ForexTrade, Expiration, Assignment, Split
<1>3. stage = "idle" /\ due = 0 /\ follow = 0 /\ opening' = opening
  BY <1>2 DEF NextItem, BalanceInv
<1>4. \A j \in Instruments : position[j] = SumQuantities(lots[j])
  BY <1>1, <1>3 DEF BalanceInv, PositionsAgree
<1>5. \A i \in Instruments : opening'.position[i] = SumQuantities(opening'.lots[i])
  BY <1>3 DEF BalanceInv
\* A change of one instrument's lots by the quantity of the item.
<1>6. ASSUME NEW i \in Instruments, NEW q \in Int, Moves(i, q), UNCHANGED << stage, instrument, due, follow >>,
             \A j \in Instruments :
               SumQuantities(lots'[j]) = SumQuantities(lots[j]) + (IF j = i THEN q ELSE 0)
      PROVE  BalanceInv'
  <2>1. ASSUME NEW j \in Instruments PROVE position'[j] = SumQuantities(lots'[j])
    <3>1. position'[j] = position[j] + (IF j = i THEN q ELSE 0)
      BY <1>1, <1>6 DEF Moves
    <3> QED BY <1>1, <1>4, <1>6, <3>1
  <2>2. \A j \in Instruments : SumQuantities(lots'[j]) \in Int
    BY <1>1, <1>6
  <2> QED BY <1>3, <1>5, <1>6, <2>1, <2>2 DEF BalanceInv, PositionsAgree
\* A change that a loop will apply: nothing is applied yet.
<1>7. ASSUME NEW i \in Instruments, NEW q \in Int, NEW d \in Int, NEW f \in Int,
             NEW s \in {"close", "change"}, NEW c,
             Moves(i, q), Enter(s, i, d, c, f), lots' = lots,
             q = d + (IF s = "close" THEN f ELSE 0)
      PROVE  BalanceInv'
  <2>1. ASSUME NEW j \in Instruments
        PROVE  position'[j] = SumQuantities(lots'[j]) + (IF j = instrument' THEN due' ELSE 0)
                 + (IF j = instrument' /\ stage' = "close" THEN follow' ELSE 0)
    <3>1. position'[j] = position[j] + (IF j = i THEN q ELSE 0)
      BY <1>1, <1>7 DEF Moves
    <3>2. instrument' = i /\ due' = d /\ follow' = f /\ stage' = s
      BY <1>7 DEF Enter
    <3>3. position[j] = SumQuantities(lots[j]) /\ SumQuantities(lots[j]) \in Int /\ lots' = lots
      BY <1>1, <1>4, <1>7
    <3>4. CASE j = i
      BY <1>7, <3>1, <3>2, <3>3, <3>4
    <3>5. CASE j # i
      BY <3>1, <3>2, <3>3, <3>5
    <3> QED BY <3>4, <3>5
  <2>2. stage' # "idle" /\ stage' # "claim"
    BY <1>7 DEF Enter
  <2> QED BY <1>5, <2>1, <2>2 DEF BalanceInv, PositionsAgree
<1>8. ASSUME NEW i \in Traded, NEW q \in Signed, NEW c \in Campaigns, OpenLeg(i, q, c)
      PROVE  BalanceInv'
  <2>1. i \in Instruments /\ q \in Int \ {0} /\ q \in Int
    BY KindsOfInstrument
  <2>2. /\ AppendLot(i, q, c, clock + 1) /\ Moves(i, q)
        /\ UNCHANGED << stage, instrument, due, follow >>
    BY <1>8 DEF OpenLeg
  <2>3. \A j \in Instruments :
          SumQuantities(lots'[j]) = SumQuantities(lots[j]) + (IF j = i THEN q ELSE 0)
    BY <1>1, <2>1, <2>2, AppendLotAdds
  <2> QED BY <1>6, <2>1, <2>2, <2>3
<1>9. ASSUME NEW i \in Traded, NEW q \in Signed, NEW c \in Campaigns, CloseLeg(i, q, c)
      PROVE  BalanceInv'
  <2>1. i \in Instruments /\ q \in Int /\ 0 \in Int /\ q = q + 0
    BY KindsOfInstrument
  <2>2. Moves(i, q) /\ Enter("close", i, q, c, 0) /\ lots' = lots
    BY <1>9 DEF CloseLeg
  <2> QED BY <1>7, <2>1, <2>2
<1>10. ASSUME NEW p \in ForexPairs, NEW q \in Signed, NEW c \in Campaigns, ForexTrade(p, q, c)
       PROVE  BalanceInv'
  <2>1. p \in Instruments /\ q \in Int \ {0} /\ q \in Int
    BY KindsOfInstrument
  <2>2. fx[p] \in Int
    BY DEF TypeInv, TypeOK, PeriodOK
  <2> DEFINE closing == ForexClosing(p, q)
  <2>3. closing \in Int /\ q - closing \in Int /\ q = closing + (q - closing)
    BY <2>1, <2>2, ForexClosingPart
  <2>4. Moves(p, q) /\ \/ AppendLot(p, q, c, clock + 1) /\ UNCHANGED << stage, instrument, due, follow >>
                       \/ Enter("close", p, closing, c, q - closing) /\ lots' = lots
    BY <1>10 DEF ForexTrade
  <2> HIDE DEF closing
  <2>5. CASE AppendLot(p, q, c, clock + 1) /\ UNCHANGED << stage, instrument, due, follow >>
    <3>1. \A j \in Instruments :
            SumQuantities(lots'[j]) = SumQuantities(lots[j]) + (IF j = p THEN q ELSE 0)
      BY <1>1, <2>1, <2>5, AppendLotAdds
    <3> QED BY <1>6, <2>1, <2>4, <2>5, <3>1
  <2>6. CASE Enter("close", p, closing, c, q - closing) /\ lots' = lots
    BY <1>7, <2>1, <2>3, <2>4, <2>6
  <2> QED BY <2>4, <2>5, <2>6
<1>11. ASSUME NEW i \in Traded, NEW q \in Signed, Expiration(i, q) PROVE BalanceInv'
  <2>1. i \in Instruments /\ q \in Int /\ 0 \in Int /\ q = q + 0
    BY KindsOfInstrument
  <2>2. Moves(i, q) /\ Enter("change", i, q, NoCampaign, 0) /\ lots' = lots
    BY <1>11 DEF Expiration
  <2> QED BY <1>7, <2>1, <2>2
<1>12. ASSUME NEW o \in Options, NEW q \in Quantities, NEW delivers \in BOOLEAN,
              Assignment(o, q, delivers)
       PROVE  BalanceInv'
  <2> DEFINE shares == IF o \in Calls THEN -q * PerContract ELSE q * PerContract
             f == IF delivers THEN shares ELSE 0
  <2>1. o \in Instruments /\ q \in Nat /\ q \in Int /\ PerContract \in Nat /\ q = q + 0
    BY KindsOfInstrument, ReplayAssumption
  <2>2. f \in Int
    BY <2>1
  <2>3. Moves(o, q) /\ Enter("change", o, q, NoCampaign, f) /\ lots' = lots
    BY <1>12 DEF Assignment
  <2> HIDE DEF f
  <2> QED BY <1>7, <2>1, <2>2, <2>3
<1>13. ASSUME NEW old \in Options, NEW new \in Options, NEW ratio \in Nat \ {0},
              Split(old, new, ratio)
       PROVE  BalanceInv'
  <2>1. old \in Instruments /\ new \in Instruments /\ lots[old] \in Lots
    BY <1>1, KindsOfInstrument
  <2>2. /\ lots[new] = << >> /\ old # new
        /\ lots' = [i \in Instruments |-> IF i = new THEN Multiplied(lots[old], ratio)
                                           ELSE IF i = old THEN << >> ELSE lots[i]]
        /\ position' = [i \in Instruments |-> IF i = new THEN position[new] + position[old] * ratio
                                               ELSE IF i = old THEN 0 ELSE position[i]]
        /\ UNCHANGED << stage, instrument, due, follow >>
    BY <1>13 DEF Split, Splittable
  <2>3. position[new] = 0
    BY <1>4, <2>1, <2>2, SumOfNone
  <2>4. SumQuantities(Multiplied(lots[old], ratio)) = position[old] * ratio
    BY <1>4, <2>1, SumOfMultiplied
  <2>5. position[old] * ratio \in Int
    BY <1>1, <2>1
  <2>6. ASSUME NEW j \in Instruments
        PROVE  position'[j] = SumQuantities(lots'[j]) /\ SumQuantities(lots'[j]) \in Int
    <3>1. CASE j = new
      BY <2>1, <2>2, <2>3, <2>4, <2>5, <3>1
    <3>2. CASE j = old
      BY <2>1, <2>2, <3>2, SumOfNone
    <3>3. CASE j # new /\ j # old
      BY <1>1, <1>4, <2>2, <3>3
    <3> QED BY <3>1, <3>2, <3>3
  <2> QED BY <1>3, <1>5, <2>2, <2>6 DEF BalanceInv, PositionsAgree
<1>14. \A x \in Splits : x.old \in Options /\ x.new \in Options /\ x.ratio \in Nat \ {0}
  BY ReplayAssumption
<1> QED BY <1>8, <1>9, <1>10, <1>11, <1>12, <1>13, <1>14 DEF ReadItem

\* The lots one instrument has after it changed, the others as they were.
LEMMA OneSumChanges ==
  ASSUME NEW book \in [Instruments -> Lots], NEW i \in Instruments, NEW r \in Lots
  PROVE  \A j \in Instruments :
           SumQuantities([book EXCEPT ![i] = r][j])
             = IF j = i THEN SumQuantities(r) ELSE SumQuantities(book[j])
OBVIOUS

\* What the next iteration of _close takes goes from the quantity still to
\* apply into the lots, and is on the side of that quantity.
LEMMA CloseMoves ==
  ASSUME TypeInv, CloseNextLot
  PROVE  /\ \A j \in Instruments : SumQuantities(lots'[j]) \in Int
         /\ \A j \in Instruments \ {instrument} : SumQuantities(lots'[j]) = SumQuantities(lots[j])
         /\ SumQuantities(lots'[instrument]) + due' = SumQuantities(lots[instrument]) + due
         /\ due' \in Int /\ (due > 0 => due' >= 0) /\ (due < 0 => due' <= 0)
         /\ due # 0
<1> DEFINE s == lots[instrument]
           k == NextToClose(s, due)
           part == Taken(s[k], due)
           r == Reduced(s, k, part)
<1>1. /\ lots \in [Instruments -> Lots] /\ instrument \in Instruments /\ due \in Int
      /\ \A i \in Instruments : SumQuantities(lots[i]) \in Int
  BY BalanceTypes
<1>2. /\ due \in Int \ {0} /\ Opposite(s, due) # {}
      /\ lots' = [lots EXCEPT ![instrument] = r] /\ due' = due - part
  BY <1>1 DEF CloseNextLot
<1>3. s \in Lots
  BY <1>1
<1>4. k \in 1..Len(s) /\ Sign(s[k].quantity) # Sign(due)
  BY <1>2, <1>3, NextClosed
<1> HIDE DEF k
<1>5. /\ part \in Int
      /\ s[k].quantity + part # 0 => Sign(s[k].quantity + part) = Sign(s[k].quantity)
      /\ due > 0 => part <= due
      /\ due < 0 => part >= due
  <2>1. s[k] \in Lot
    BY <1>3, <1>4, LenNat
  <2>2. s[k].quantity \in Int \ {0}
    BY <2>1 DEF Lot
  <2>3. (due > 0 => part <= due) /\ (due < 0 => part >= due)
    BY <1>2, <2>2 DEF Taken, Sign, Smaller, Magnitude
  <2> QED BY <1>2, <1>4, <2>1, <2>3, TakenPart
<1> HIDE DEF part
<1>6. r \in Lots /\ SumQuantities(r) = SumQuantities(s) + part
  <2>1. r \in Lots
    BY <1>3, <1>4, <1>5, BalanceTypes, ReducedLots
  <2> QED BY <1>3, <1>4, <1>5, <2>1, SumOfReduced
<1> HIDE DEF r
<1>7. \A j \in Instruments :
        SumQuantities(lots'[j]) = IF j = instrument THEN SumQuantities(r) ELSE SumQuantities(lots[j])
  BY <1>1, <1>2, <1>6, OneSumChanges
<1>8. SumQuantities(s) \in Int /\ SumQuantities(r) \in Int
  BY <1>1, <1>5, <1>6
<1>9. SumQuantities(lots'[instrument]) = SumQuantities(s) + part
  BY <1>1, <1>6, <1>7
<1> HIDE DEF s
<1>10. SumQuantities(lots'[instrument]) + due' = SumQuantities(s) + due
  BY <1>1, <1>2, <1>5, <1>8, <1>9
<1>11. due' \in Int /\ (due > 0 => due' >= 0) /\ (due < 0 => due' <= 0)
  BY <1>1, <1>2, <1>5
<1> QED BY <1>1, <1>2, <1>7, <1>8, <1>10, <1>11 DEF s

\* Lots under their symbols add up to what was there and what the pair had.
LEMMA ReloadedSums ==
  ASSUME NEW book \in [Instruments -> Lots], NEW net \in [Instruments -> Int],
         \A i \in Instruments : net[i] = SumQuantities(book[i])
  PROVE  \A i \in Instruments :
           /\ CarriedPosition(net)[i] = SumQuantities(Reloaded(book)[i])
           /\ SumQuantities(Reloaded(book)[i]) \in Int
<1>1. ASSUME NEW i \in ForexPairs
      PROVE  CarriedPosition(net)[i] = 0 /\ Reloaded(book)[i] = << >>
  BY KindsOfInstrument DEF CarriedPosition, Reloaded
<1>2. ASSUME NEW i \in Instruments, i \notin ForexPairs, \E p \in ForexPairs : Namesake[p] = i
      PROVE  CarriedPosition(net)[i] = SumQuantities(Reloaded(book)[i])
  <2> DEFINE p == CHOOSE p \in ForexPairs : Namesake[p] = i
  <2>1. p \in ForexPairs
    BY <1>2
  <2>2. CarriedPosition(net)[i] = net[i] + net[p]
    BY <1>2 DEF CarriedPosition
  <2>3. Reloaded(book)[i] = book[i] \o book[p]
    BY <1>2 DEF Reloaded
  <2> HIDE DEF p
  <2>4. p \in Instruments /\ book[i] \in Lots /\ book[p] \in Lots
    BY <2>1, KindsOfInstrument
  <2>5. SumQuantities(book[i] \o book[p]) = SumQuantities(book[i]) + SumQuantities(book[p])
    BY <2>4, SumOfJoined
  <2> QED BY <2>2, <2>3, <2>4, <2>5
<1>3. ASSUME NEW i \in Instruments, i \notin ForexPairs, ~ \E p \in ForexPairs : Namesake[p] = i
      PROVE  CarriedPosition(net)[i] = SumQuantities(Reloaded(book)[i])
  BY <1>3 DEF CarriedPosition, Reloaded
<1>4. \A i \in Instruments : SumQuantities(Reloaded(book)[i]) \in Int
  <2>1. Reloaded(book) \in [Instruments -> Lots]
    BY ReloadedBook
  <2> HIDE DEF Reloaded
  <2> QED BY <2>1, QuantitiesOfLots
<1> QED BY <1>1, <1>2, <1>3, <1>4, SumOfNone

LEMMA NextBalanced == TypeInv /\ BalanceInv /\ [Next]_vars => BalanceInv'
<1> SUFFICES ASSUME TypeInv, BalanceInv, [Next]_vars PROVE BalanceInv'
  OBVIOUS
<1>1. /\ lots \in [Instruments -> Lots] /\ instrument \in Instruments /\ nextId \in LotIds
      /\ position \in [Instruments -> Int]
      /\ \A i \in Instruments : position[i] \in Int /\ SumQuantities(lots[i]) \in Int
      /\ due \in Int /\ follow \in Int /\ toClaim \in Nat /\ clock \in Nat
      /\ owner \in Campaigns \cup {NoCampaign}
  BY BalanceTypes
<1>2. \A i \in Instruments :
        position[i] = SumQuantities(lots[i]) + (IF i = instrument THEN due ELSE 0)
                        + (IF i = instrument /\ stage = "close" THEN follow ELSE 0)
  BY DEF BalanceInv, PositionsAgree
<1>3. /\ \A i \in Instruments : opening.position[i] = SumQuantities(opening.lots[i])
      /\ stage = "idle" => due = 0 /\ follow = 0
      /\ stage = "claim" => instrument \in Equities
  BY DEF BalanceInv
<1>4. CASE ReadItem
  BY <1>4, ReadItemBalanced
<1>5. CASE CloseNextLot
  <2>1. /\ \A j \in Instruments \ {instrument} : SumQuantities(lots'[j]) = SumQuantities(lots[j])
        /\ SumQuantities(lots'[instrument]) + due' = SumQuantities(lots[instrument]) + due
        /\ \A j \in Instruments : SumQuantities(lots'[j]) \in Int
        /\ due' \in Int
    BY <1>5, CloseMoves
  <2>2. /\ stage \in {"close", "change"}
        /\ UNCHANGED << opening, stage, instrument, follow, position >>
    BY <1>5 DEF CloseNextLot
  <2>3. ASSUME NEW i \in Instruments
        PROVE  position'[i] = SumQuantities(lots'[i]) + (IF i = instrument' THEN due' ELSE 0)
                 + (IF i = instrument' /\ stage' = "close" THEN follow' ELSE 0)
    <3>1. CASE i = instrument
      <4>1. position[i] = (SumQuantities(lots[instrument]) + due)
                            + (IF stage = "close" THEN follow ELSE 0)
        BY <1>2, <3>1
      <4> QED BY <1>1, <2>1, <2>2, <3>1, <4>1
    <3>2. CASE i # instrument
      BY <1>1, <1>2, <2>1, <2>2, <3>2
    <3> QED BY <3>1, <3>2
  <2> QED BY <1>3, <2>2, <2>3 DEF BalanceInv, PositionsAgree
<1>6. CASE AppendRest
  <2>1. /\ due \in Int \ {0} /\ due' = 0 /\ stage = "change"
        /\ AppendLot(instrument, due, owner, clock)
        /\ UNCHANGED << opening, stage, instrument, follow, position >>
    BY <1>1, <1>6 DEF AppendRest
  <2>2. \A j \in Instruments :
          SumQuantities(lots'[j]) = SumQuantities(lots[j]) + (IF j = instrument THEN due ELSE 0)
    BY <1>1, <2>1, AppendLotAdds
  <2>3. ASSUME NEW i \in Instruments
        PROVE  position'[i] = SumQuantities(lots'[i]) + (IF i = instrument' THEN due' ELSE 0)
                 + (IF i = instrument' /\ stage' = "close" THEN follow' ELSE 0)
    BY <1>1, <1>2, <2>1, <2>2
  <2> QED BY <1>3, <2>1, <2>3 DEF BalanceInv, PositionsAgree
<1>7. CASE Finish
  <2>1. /\ due = 0 /\ follow = 0 /\ due' = 0 /\ follow' = 0 /\ stage' = "idle"
        /\ UNCHANGED << lots, opening, position >>
    BY <1>7 DEF Finish, ItemDone
  <2>2. ASSUME NEW i \in Instruments
        PROVE  position'[i] = SumQuantities(lots'[i])
    BY <1>1, <1>2, <2>1
  <2> QED BY <1>1, <1>3, <2>1, <2>2 DEF BalanceInv, PositionsAgree
<1>8. ASSUME NEW c \in Campaigns, Reopen(c) PROVE BalanceInv'
  <2>1. /\ stage = "close" /\ due = 0 /\ follow \in Int \ {0}
        /\ AppendLot(instrument, follow, c, clock)
        /\ due' = 0 /\ follow' = 0 /\ stage' = "idle"
        /\ UNCHANGED << opening, position >>
    BY <1>1, <1>8 DEF Reopen, ItemDone
  <2>2. \A j \in Instruments :
          SumQuantities(lots'[j]) = SumQuantities(lots[j]) + (IF j = instrument THEN follow ELSE 0)
    BY <1>1, <2>1, AppendLotAdds
  <2>3. ASSUME NEW i \in Instruments
        PROVE  position'[i] = SumQuantities(lots'[i]) /\ SumQuantities(lots'[i]) \in Int
    BY <1>1, <1>2, <2>1, <2>2
  <2> QED BY <1>3, <2>1, <2>3 DEF BalanceInv, PositionsAgree
<1>9. CASE Deliver
  <2> DEFINE shares == Underlying[instrument]
  <2>1. /\ stage = "change" /\ due = 0 /\ follow # 0 /\ Moves(shares, follow)
        /\ instrument' = shares /\ due' = follow /\ follow' = 0 /\ stage' \in {"claim", "change"}
        /\ UNCHANGED << lots, opening >>
    BY <1>9 DEF Deliver, Enter
  <2>2. instrument \in Options
    BY <2>1 DEF TypeInv
  <2>3. shares \in Equities /\ shares \in Instruments
    BY <2>2, InstrumentAssumption, KindsOfInstrument
  <2> HIDE DEF shares
  <2>4. ASSUME NEW i \in Instruments
        PROVE  position'[i] = SumQuantities(lots'[i]) + (IF i = instrument' THEN due' ELSE 0)
                 + (IF i = instrument' /\ stage' = "close" THEN follow' ELSE 0)
    <3>1. position[i] = SumQuantities(lots[i])
      BY <1>1, <1>2, <2>1
    <3>2. position'[i] = position[i] + (IF i = shares THEN follow ELSE 0)
      BY <1>1, <2>1, <2>3 DEF Moves
    <3> QED BY <1>1, <2>1, <3>1, <3>2
  <2> QED BY <1>3, <2>1, <2>3, <2>4 DEF BalanceInv, PositionsAgree
<1>10. CASE ClaimNextLot
  <2> DEFINE s == lots[instrument]
             k == NextUnclaimed(s)
             r == Claimed(s, k, toClaim, owner, nextId)
  <2>1. /\ stage = "claim" /\ toClaim > 0 /\ Unclaimed(s) # {}
        /\ lots' = [lots EXCEPT ![instrument] = r]
        /\ UNCHANGED << opening, stage, instrument, due, follow, position >>
    BY <1>10 DEF ClaimNextLot
  <2>2. s \in Lots /\ owner \in Campaigns /\ toClaim \in Nat \ {0}
    BY <1>1, <2>1 DEF TypeInv
  <2>3. k \in 1..Len(s) /\ s[k].campaign = NoCampaign /\ s[k].quantity > 0
    BY <2>1, <2>2, NextBound
  <2> HIDE DEF k
  <2>4. r \in Lots
    BY <1>1, <2>2, <2>3, ClaimedLots
  <2>5. SumQuantities(r) = SumQuantities(s)
    BY <1>1, <2>2, <2>3, SumOfClaimed
  <2> HIDE DEF r
  <2>6. \A j \in Instruments :
          SumQuantities(lots'[j]) = IF j = instrument THEN SumQuantities(r) ELSE SumQuantities(lots[j])
    BY <1>1, <2>1, <2>4, OneSumChanges
  <2>7. \A j \in Instruments : SumQuantities(lots'[j]) = SumQuantities(lots[j])
    BY <2>5, <2>6
  <2> QED BY <1>2, <1>3, <2>1, <2>7 DEF BalanceInv, PositionsAgree
<1>11. CASE ClaimDone
  <2>1. /\ stage = "claim" /\ stage' = "change"
        /\ UNCHANGED << lots, opening, instrument, due, follow, position >>
    BY <1>11 DEF ClaimDone
  <2> QED BY <1>2, <1>3, <2>1 DEF BalanceInv, PositionsAgree
<1>12. CASE Abandon
  <2>1. /\ lots' = opening.lots /\ position' = opening.position /\ opening' = opening
        /\ due' = 0 /\ follow' = 0 /\ stage' = "idle"
    BY <1>12 DEF Abandon, ItemDone
  <2>2. \A i \in Instruments : SumQuantities(opening.lots[i]) \in Int
    BY BalanceTypes, QuantitiesOfLots
  <2>3. \A i \in Instruments : position'[i] = SumQuantities(lots'[i]) /\ SumQuantities(lots'[i]) \in Int
    BY <1>3, <2>1, <2>2
  <2> QED BY <1>3, <2>1, <2>3 DEF BalanceInv, PositionsAgree
<1>13. CASE EndMonth
  <2>1. /\ stage = "idle" /\ lots' = Reloaded(lots) /\ position' = CarriedPosition(position)
        /\ opening'.lots = Reloaded(lots) /\ opening'.position = CarriedPosition(position)
        /\ UNCHANGED << stage, instrument, due, follow >>
    BY <1>13 DEF EndMonth, BookOf
  <2>2. \A i \in Instruments : position[i] = SumQuantities(lots[i])
    BY <1>1, <1>2, <1>3, <2>1
  <2>3. \A i \in Instruments :
          /\ position'[i] = SumQuantities(lots'[i]) /\ SumQuantities(lots'[i]) \in Int
          /\ opening'.position[i] = SumQuantities(opening'.lots[i])
    BY <1>1, <2>1, <2>2, ReloadedSums
  <2> QED BY <1>3, <2>1, <2>3 DEF BalanceInv, PositionsAgree
<1>14. CASE UNCHANGED vars
  BY <1>2, <1>3, <1>14 DEF vars, BalanceInv, PositionsAgree
<1> QED BY <1>4, <1>5, <1>6, <1>7, <1>8, <1>9, <1>10, <1>11, <1>12, <1>13, <1>14 DEF Next

LEMMA InitBalanced == Init => BalanceInv
<1> SUFFICES ASSUME Init PROVE BalanceInv
  OBVIOUS
<1>1. PICK rows \in SUBSET SnapshotRows :
        /\ lots = [i \in Instruments |->
                    IF \E r \in rows : r.instrument = i
                    THEN LET row == CHOOSE r \in rows : r.instrument = i
                         IN << BuildLot(i, row.quantity, 0, NoCampaign) >>
                    ELSE << >>]
        /\ position = [i \in Instruments |->
                        IF \E r \in rows : r.instrument = i
                        THEN (CHOOSE r \in rows : r.instrument = i).quantity ELSE 0]
  BY DEF Init
<1>2. ASSUME NEW i \in Instruments
      PROVE  position[i] = SumQuantities(lots[i]) /\ SumQuantities(lots[i]) \in Int
  <2>1. CASE \E r \in rows : r.instrument = i
    <3> DEFINE row == CHOOSE r \in rows : r.instrument = i
               e == BuildLot(i, row.quantity, 0, NoCampaign)
    <3>1. lots[i] = << e >> /\ position[i] = row.quantity
      BY <2>1, <1>1
    <3>2. row \in SnapshotRows
      BY <2>1
    <3> HIDE DEF row
    <3>3. row.quantity \in Int \ {0} /\ i \in LotIds
      BY <3>2, ReplayAssumption, KindsOfInstrument
    <3>4. e \in Lot /\ e.quantity = row.quantity
      BY <3>3, NewLot
    <3> HIDE DEF e
    <3>5. << e >> = Append(<< >>, e) /\ << >> \in Lots
      BY DEF Lots
    <3>6. SumQuantities(<< e >>) = SumQuantities(<< >>) + e.quantity
      BY <3>4, <3>5, SumOfAppended
    <3> QED BY <3>1, <3>3, <3>4, <3>6, SumOfNone
  <2>2. CASE ~ \E r \in rows : r.instrument = i
    <3>1. lots[i] = << >> /\ position[i] = 0
      BY <2>2, <1>1
    <3> QED BY <3>1, SumOfNone
  <2> QED BY <2>1, <2>2
<1>3. /\ opening.lots = lots /\ opening.position = position
      /\ stage = "idle" /\ due = 0 /\ follow = 0
  BY DEF Init, BookOf
<1> QED BY <1>2, <1>3 DEF BalanceInv, PositionsAgree

(***************************************************************************)
(* The lots of every instrument add up to everything that was applied to   *)
(* it since the bootstrap, less what the loop under way has yet to apply:  *)
(* no close, split, carry, claim or abandoned attempt loses or invents a   *)
(* unit, for books, histories and quantities of any size.                  *)
(***************************************************************************)
THEOREM UnitsConserved == Spec => []PositionsAgree
<1>1. Init => TypeInv /\ BalanceInv
  BY InitTypeInv, InitBalanced
<1>2. TypeInv /\ BalanceInv /\ [Next]_vars => (TypeInv /\ BalanceInv)'
  BY NextTypeInv, NextBalanced
<1>3. BalanceInv => PositionsAgree
  BY DEF BalanceInv
<1> QED BY <1>1, <1>2, <1>3, PTL DEF Spec

-----------------------------------------------------------------------------
(* The resolver's running position and the lots of the pairs. *)

\* Without historical positions the resolver counts what is applied; the part
\* of an execution it closes is covered by lots of the other side.
ForexInv ==
  ~seeded =>
    /\ \A p \in ForexPairs : fx[p] = position[p]
    /\ stage = "close" /\ instrument \in ForexPairs =>
         /\ due > 0 => SumQuantities(lots[instrument]) + due <= 0
         /\ due < 0 => SumQuantities(lots[instrument]) + due >= 0

LEMMA ForexTypes ==
  ASSUME TypeInv
  PROVE  /\ fx \in [ForexPairs -> Int]
         /\ \A p \in ForexPairs : opening.lots[p] = << >> /\ p \in Instruments /\ p \notin Options
         /\ \A i \in Traded : i \notin ForexPairs
<1>1. fx \in [ForexPairs -> Int] /\ \A p \in ForexPairs : opening.lots[p] = << >>
  BY DEF TypeInv, TypeOK, PeriodOK
<1> QED BY <1>1, KindsOfInstrument, InstrumentAssumption, ReplayAssumption

\* A month, or another attempt at one, begins without lots of a pair.
LEMMA ForexStarts ==
  ASSUME TypeInv', BalanceInv', opening'.lots = lots', stage' = "idle",
         ForexStart(lots', position')
  PROVE  ForexInv'
<1>1. \A p \in ForexPairs : lots'[p] = << >> /\ p \in Instruments
  BY ForexTypes, KindsOfInstrument DEF TypeInv
<1>2. CarriedForex(lots') = [p \in ForexPairs |-> 0]
  BY <1>1 DEF CarriedForex
<1>3. ASSUME ~seeded' PROVE fx' = CarriedForex(lots')
  BY <1>3 DEF ForexStart
<1>4. ASSUME NEW p \in ForexPairs PROVE position'[p] = 0
  <2>1. due' = 0 /\ follow' = 0
    BY DEF BalanceInv
  <2>2. position'[p] = SumQuantities(lots'[p]) + (IF p = instrument' THEN due' ELSE 0)
          + (IF p = instrument' /\ stage' = "close" THEN follow' ELSE 0)
    BY <1>1 DEF BalanceInv, PositionsAgree
  <2> QED BY <1>1, <2>1, <2>2, SumOfNone
<1> QED BY <1>2, <1>3, <1>4 DEF ForexInv

LEMMA ReadItemForex ==
  ASSUME TypeInv, BalanceInv, ForexInv, ReadItem
  PROVE  ForexInv'
<1>1. /\ \A i \in Instruments : position[i] \in Int /\ SumQuantities(lots[i]) \in Int
      /\ position \in [Instruments -> Int] /\ lots \in [Instruments -> Lots]
      /\ instrument \in Instruments
  BY BalanceTypes
<1>2. /\ fx \in [ForexPairs -> Int]
      /\ \A p \in ForexPairs : p \in Instruments /\ p \notin Options
      /\ \A i \in Traded : i \notin ForexPairs
  BY ForexTypes
<1>3. NextItem
  BY DEF ReadItem, OpenLeg, CloseLeg, ForexTrade, Expiration, Assignment, Split
<1>4. stage = "idle" /\ due = 0 /\ follow = 0 /\ seeded' = seeded
  BY <1>3 DEF NextItem, BalanceInv
<1>5. \A j \in Instruments : position[j] = SumQuantities(lots[j])
  BY <1>1, <1>4 DEF BalanceInv, PositionsAgree
\* An item of another instrument leaves the pairs alone.
<1>6. ASSUME NEW i \in Instruments \ ForexPairs, NEW q \in Int, Moves(i, q), fx' = fx,
             instrument' \notin ForexPairs \/ stage' # "close"
      PROVE  ForexInv'
  <2>1. \A p \in ForexPairs : position'[p] = position[p]
    BY <1>1, <1>2, <1>6 DEF Moves
  <2> QED BY <1>4, <1>6, <2>1 DEF ForexInv
<1>7. ASSUME NEW i \in Traded, NEW q \in Signed, NEW c \in Campaigns,
             OpenLeg(i, q, c) \/ CloseLeg(i, q, c)
      PROVE  ForexInv'
  <2>1. i \in Instruments \ ForexPairs /\ q \in Int
    BY <1>2, KindsOfInstrument
  <2>2. Moves(i, q) /\ fx' = fx /\ (stage' = stage \/ instrument' = i)
    BY <1>7 DEF OpenLeg, CloseLeg, Enter
  <2> QED BY <1>4, <1>6, <2>1, <2>2
<1>8. ASSUME NEW p \in ForexPairs, NEW q \in Signed, NEW c \in Campaigns, ForexTrade(p, q, c)
      PROVE  ForexInv'
  <2> DEFINE closing == ForexClosing(p, q)
  <2>0. SUFFICES ASSUME ~seeded PROVE ForexInv'
    BY <1>4 DEF ForexInv
  <2>1. p \in Instruments /\ q \in Int \ {0} /\ fx[p] \in Int
    BY <1>2, KindsOfInstrument
  <2>2. /\ fx' = [fx EXCEPT ![p] = fx[p] + q] /\ Moves(p, q)
        /\ \/ UNCHANGED << stage, instrument >>
           \/ closing # 0 /\ Enter("close", p, closing, c, q - closing) /\ lots' = lots
    BY <1>8 DEF ForexTrade
  <2>3. \A r \in ForexPairs : fx[r] = position[r]
    BY <2>0 DEF ForexInv
  <2>4. \A r \in ForexPairs : fx'[r] = position'[r]
    BY <1>1, <1>2, <2>2, <2>3 DEF Moves
  <2>5. closing \in Int /\ (closing > 0 => fx[p] + closing <= 0) /\ (closing < 0 => fx[p] + closing >= 0)
    BY <2>1 DEF ForexClosing, Sign, Smaller, Magnitude
  <2>6. fx[p] = SumQuantities(lots[p])
    BY <1>5, <2>1, <2>3
  <2> HIDE DEF closing
  <2>7. CASE UNCHANGED << stage, instrument >>
    BY <1>4, <2>4, <2>7 DEF ForexInv
  <2>8. CASE closing # 0 /\ Enter("close", p, closing, c, q - closing) /\ lots' = lots
    <3>1. instrument' = p /\ due' = closing /\ lots'[p] = lots[p]
      BY <2>8 DEF Enter
    <3>2. /\ due' > 0 => SumQuantities(lots'[instrument']) + due' <= 0
          /\ due' < 0 => SumQuantities(lots'[instrument']) + due' >= 0
      BY <2>5, <2>6, <3>1
    <3> QED BY <2>4, <3>2 DEF ForexInv
  <2> QED BY <2>2, <2>7, <2>8
<1>9. ASSUME NEW i \in Traded, NEW q \in Signed, Expiration(i, q) PROVE ForexInv'
  <2>1. i \in Instruments \ ForexPairs /\ q \in Int
    BY <1>2, KindsOfInstrument
  <2>2. Moves(i, q) /\ fx' = fx /\ instrument' = i
    BY <1>9 DEF Expiration, Enter
  <2> QED BY <1>6, <2>1, <2>2
<1>10. ASSUME NEW o \in Options, NEW q \in Quantities, NEW delivers \in BOOLEAN,
              Assignment(o, q, delivers)
       PROVE  ForexInv'
  <2>1. o \in Instruments \ ForexPairs /\ q \in Int
    BY <1>2, KindsOfInstrument
  <2>2. Moves(o, q) /\ fx' = fx /\ instrument' = o
    BY <1>10 DEF Assignment, Enter
  <2> QED BY <1>6, <2>1, <2>2
<1>11. ASSUME NEW old \in Options, NEW new \in Options, NEW ratio \in Nat \ {0},
              Split(old, new, ratio)
       PROVE  ForexInv'
  <2>1. /\ position' = [i \in Instruments |-> IF i = new THEN position[new] + position[old] * ratio
                                               ELSE IF i = old THEN 0 ELSE position[i]]
        /\ UNCHANGED << stage, fx >>
    BY <1>11 DEF Split
  <2>2. \A p \in ForexPairs : position'[p] = position[p]
    BY <1>2, <2>1
  <2> QED BY <1>4, <2>1, <2>2 DEF ForexInv
<1>12. \A x \in Splits : x.old \in Options /\ x.new \in Options /\ x.ratio \in Nat \ {0}
  BY ReplayAssumption
<1> QED BY <1>7, <1>8, <1>9, <1>10, <1>11, <1>12 DEF ReadItem

LEMMA NextForex ==
  TypeInv /\ BalanceInv /\ ForexInv /\ [Next]_vars /\ TypeInv' /\ BalanceInv' => ForexInv'
<1> SUFFICES ASSUME TypeInv, BalanceInv, ForexInv, [Next]_vars, TypeInv', BalanceInv'
             PROVE  ForexInv'
  OBVIOUS
<1>1. /\ lots \in [Instruments -> Lots] /\ instrument \in Instruments
      /\ position \in [Instruments -> Int]
      /\ \A i \in Instruments : position[i] \in Int /\ SumQuantities(lots[i]) \in Int
      /\ due \in Int /\ follow \in Int
  BY BalanceTypes
<1>2. \A p \in ForexPairs : p \in Instruments /\ p \notin Options
  BY ForexTypes
<1>3. CASE ReadItem
  BY <1>3, ReadItemForex
<1>4. CASE CloseNextLot
  <2>1. /\ SumQuantities(lots'[instrument]) + due' = SumQuantities(lots[instrument]) + due
        /\ due' \in Int /\ (due > 0 => due' >= 0) /\ (due < 0 => due' <= 0) /\ due # 0
    BY <1>4, CloseMoves
  <2>2. UNCHANGED << stage, instrument, position, fx, seeded >>
    BY <1>4 DEF CloseNextLot
  <2>3. ASSUME ~seeded, stage = "close", instrument \in ForexPairs
        PROVE  /\ due' > 0 => SumQuantities(lots'[instrument]) + due' <= 0
               /\ due' < 0 => SumQuantities(lots'[instrument]) + due' >= 0
    <3>1. /\ due > 0 => SumQuantities(lots[instrument]) + due <= 0
          /\ due < 0 => SumQuantities(lots[instrument]) + due >= 0
      BY <2>3 DEF ForexInv
    <3>2. (due' > 0 => due > 0) /\ (due' < 0 => due < 0)
      BY <1>1, <2>1
    <3> QED BY <2>1, <3>1, <3>2
  <2> QED BY <2>2, <2>3 DEF ForexInv
<1>5. CASE AppendRest
  BY <1>5 DEF AppendRest, ForexInv
<1>6. CASE Finish \/ \E c \in Campaigns : Reopen(c)
  <2>1. stage' = "idle" /\ UNCHANGED << position, fx, seeded >>
    BY <1>6 DEF Finish, Reopen, ItemDone
  <2> QED BY <2>1 DEF ForexInv
<1>7. CASE Deliver
  <2>1. /\ Moves(Underlying[instrument], follow) /\ stage' \in {"claim", "change"}
        /\ UNCHANGED << fx, seeded >> /\ stage = "change" /\ follow # 0
    BY <1>7 DEF Deliver, Enter
  <2>2. Underlying[instrument] \in Equities
    BY <2>1, InstrumentAssumption DEF TypeInv
  <2>3. \A p \in ForexPairs : position'[p] = position[p]
    BY <1>1, <1>2, <2>1, <2>2, InstrumentAssumption DEF Moves
  <2> QED BY <2>1, <2>3 DEF ForexInv
<1>8. CASE ClaimNextLot
  BY <1>8 DEF ClaimNextLot, ForexInv
<1>9. CASE ClaimDone
  BY <1>9 DEF ClaimDone, ForexInv
<1>10. CASE Abandon
  <2>1. /\ opening'.lots = lots' /\ stage' = "idle" /\ ForexStart(lots', position')
    BY <1>10 DEF Abandon, ItemDone
  <2> QED BY <2>1, ForexStarts
<1>11. CASE EndMonth
  <2>1. /\ opening'.lots = lots' /\ stage' = "idle" /\ ForexStart(lots', position')
    BY <1>11 DEF EndMonth, BookOf
  <2> QED BY <2>1, ForexStarts
<1>12. CASE UNCHANGED vars
  BY <1>12 DEF vars, ForexInv
<1> QED BY <1>3, <1>4, <1>5, <1>6, <1>7, <1>8, <1>9, <1>10, <1>11, <1>12 DEF Next

LEMMA InitForex == Init /\ TypeInv /\ BalanceInv => ForexInv
<1> SUFFICES ASSUME Init, TypeInv, BalanceInv PROVE ForexInv
  OBVIOUS
<1>1. /\ opening.lots = lots /\ stage = "idle" /\ due = 0 /\ follow = 0
      /\ fx = [p \in ForexPairs |-> 0]
  BY DEF Init, BookOf
<1>2. ASSUME NEW p \in ForexPairs PROVE position[p] = 0
  <2>1. lots[p] = << >> /\ p \in Instruments
    BY <1>1, ForexTypes
  <2> QED BY <1>1, <2>1, SumOfNone DEF BalanceInv, PositionsAgree
<1> QED BY <1>1, <1>2 DEF ForexInv

(***************************************************************************)
(* The closing part of a forex execution always finds lots to close while  *)
(* the resolver started from the lots alone: its running position and the  *)
(* lot book, two counts kept by two classes, cannot drift apart, whatever  *)
(* the pairs, the quantities and the executions through zero.              *)
(***************************************************************************)
THEOREM ForexCloses == Spec => []ForexClosesFindTheirLots
<1>1. Init => TypeInv /\ BalanceInv /\ ForexInv
  BY InitTypeInv, InitBalanced, InitForex
<1>2. /\ TypeInv /\ BalanceInv /\ ForexInv /\ [Next]_vars
      => (TypeInv /\ BalanceInv /\ ForexInv)'
  BY NextTypeInv, NextBalanced, NextForex
<1>3. ASSUME TypeInv, BalanceInv, ForexInv PROVE ForexClosesFindTheirLots
  <2> SUFFICES ASSUME Insufficient, ~seeded, instrument \in ForexPairs PROVE FALSE
    BY DEF ForexClosesFindTheirLots
  <2>1. /\ lots[instrument] \in Lots /\ SumQuantities(lots[instrument]) \in Int /\ due \in Int
    BY <1>3, BalanceTypes
  <2>2. CASE stage = "claim"
    BY <1>3, <2>2, InstrumentAssumption DEF BalanceInv
  <2>3. CASE stage = "close" /\ due # 0 /\ Opposite(lots[instrument], due) = {}
    <3>1. /\ due > 0 => SumQuantities(lots[instrument]) >= 0
          /\ due < 0 => SumQuantities(lots[instrument]) <= 0
      BY <2>1, <2>3, SumOfOneSide
    <3>2. /\ due > 0 => SumQuantities(lots[instrument]) + due <= 0
          /\ due < 0 => SumQuantities(lots[instrument]) + due >= 0
      BY <1>3, <2>3 DEF ForexInv
    <3> QED BY <2>1, <2>3, <3>1, <3>2
  <2> QED BY <2>2, <2>3 DEF Insufficient
<1> QED BY <1>1, <1>2, <1>3, PTL DEF Spec
=============================================================================
