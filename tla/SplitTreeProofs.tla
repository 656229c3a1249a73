---------------------------- MODULE SplitTreeProofs ----------------------------
(***************************************************************************)
(* One tab, for trees of any shape and size: the operations keep the tree  *)
(* a tree and are those the hierarchy model takes them for, the layout     *)
(* tiles the view and honours the minimum sizes, a resize never shrinks    *)
(* the resized pane, a dragged divider follows the pointer, and the focus  *)
(* commands lead from every pane to every other one.                       *)
(*                                                                         *)
(* What the code says by recursion on the tree goes by induction on the    *)
(* length of ways here: Downward, from the root to the panes, for the      *)
(* frames, and Upward, from the panes to the root, for minimum sizes and   *)
(* the order of the panes.  That the recursive functions exist at all is   *)
(* DownwardDefinition and UpwardDefinition.                                *)
(***************************************************************************)
EXTENDS SplitTree, SequenceTheorems, WellFoundedInduction, TLAPS

--------------------------------------------------------------------------------
(* Numbers. *)

LEMMA Least ==
  ASSUME NEW T \in SUBSET Nat, T # {}
  PROVE  \E x \in T : \A y \in T : x <= y
<1> DEFINE R == OpToRel(<, Nat)
<1>1. IsWellFoundedOn(R, Nat)
  BY NatLessThanWellFounded
<1>2. \A x, y \in Nat : x < y => <<x, y>> \in R
  BY DEF OpToRel
<1> HIDE DEF R
<1>3. PICK x \in T : \A y \in T : ~ (<<y, x>> \in R)
  BY <1>1, WFMin
<1>4. ASSUME NEW y \in T PROVE x <= y
  <2>1. x \in Nat /\ y \in Nat /\ ~ (y < x)
    BY <1>2, <1>3
  <2>2. QED
    BY <2>1
<1>5. QED
  BY <1>4

LEMMA Induction ==
  ASSUME NEW S \in SUBSET Nat, 0 \in S, \A n \in S : n + 1 \in S
  PROVE  S = Nat
<1>1. SUFFICES ASSUME Nat \ S # {} PROVE FALSE
  OBVIOUS
<1>2. PICK x \in Nat \ S : \A y \in Nat \ S : x <= y
  BY <1>1, Least
<1>3. x # 0 /\ x - 1 \in Nat
  BY <1>2
<1>4. x - 1 \in S
  BY <1>2, <1>3
<1>5. QED
  BY <1>2, <1>3, <1>4

LEMMA MaxOfTwo ==
  ASSUME NEW a \in Int, NEW b \in Int
  PROVE  Max({a, b}) = IF a >= b THEN a ELSE b
  BY DEF Max

LEMMA MinOfTwo ==
  ASSUME NEW a \in Int, NEW b \in Int
  PROVE  Min({a, b}) = IF a <= b THEN a ELSE b
  BY DEF Min

LEMMA BoundedValue ==
  ASSUME NEW x \in Int, NEW low \in Int, NEW high \in Int
  PROVE  Bounded(x, low, high) = IF x <= high THEN IF low >= x THEN low ELSE x
                                 ELSE IF low >= high THEN low ELSE high
<1>1. Min({x, high}) = (IF x <= high THEN x ELSE high) /\ Min({x, high}) \in Int
  BY MinOfTwo
<1>2. QED
  BY <1>1, MaxOfTwo DEF Bounded

LEMMA TimesMonotonic ==
  ASSUME NEW m \in Nat, NEW j \in Int, NEW k \in Int, j <= k
  PROVE  m * j <= m * k
<1>1. k - j \in Nat
  OBVIOUS
<1>2. m * (k - j) >= 0
  BY <1>1
<1>3. m * (k - j) = m * k - m * j
  OBVIOUS
<1>4. QED
  BY <1>2, <1>3

LEMMA Quotient ==
  ASSUME NEW n \in Int, NEW m \in Nat \ {0}, NEW k \in Int
  PROVE  n \div m \in Int /\ (k <= n \div m <=> m * k <= n)
<1> DEFINE q == n \div m
<1>1. q \in Int /\ m * q <= n /\ n < m * q + m
  OBVIOUS
<1> HIDE DEF q
<1>2. ASSUME k <= q PROVE m * k <= n
  <2>1. m * k <= m * q
    BY <1>1, <1>2, TimesMonotonic
  <2>2. QED
    BY <1>1, <2>1
<1>3. ASSUME ~ (k <= q) PROVE ~ (m * k <= n)
  <2>1. q + 1 \in Int /\ q + 1 <= k
    BY <1>1, <1>3
  <2>2. m * (q + 1) <= m * k
    BY <1>1, <2>1, TimesMonotonic
  <2>3. m * (q + 1) = m * q + m
    BY <1>1
  <2>4. m * q \in Int /\ m * k \in Int
    BY <1>1
  <2>5. QED
    BY <1>1, <2>2, <2>3, <2>4
<1>4. QED
  BY <1>1, <1>2, <1>3 DEF q

LEMMA RoundedAtLeast ==
  ASSUME NEW a \in Int, NEW b \in Nat \ {0}, NEW k \in Int
  PROVE  Rounded(a, b) \in Int /\ (k <= Rounded(a, b) <=> 2 * (b * k) <= 2 * a + b)
<1>1. 2 * a + b \in Int /\ 2 * b \in Nat \ {0}
  OBVIOUS
<1>2. /\ (2 * a + b) \div (2 * b) \in Int
      /\ k <= (2 * a + b) \div (2 * b) <=> (2 * b) * k <= 2 * a + b
  BY <1>1, Quotient
<1>3. (2 * b) * k = 2 * (b * k)
  OBVIOUS
<1>4. QED
  BY <1>2, <1>3 DEF Rounded

LEMMA RoundedGrows ==
  ASSUME NEW a \in Int, NEW c \in Int, NEW b \in Nat \ {0}, NEW d \in Nat,
         a <= c, c <= a + b * d
  PROVE  Rounded(a, b) <= Rounded(c, b) /\ Rounded(c, b) <= Rounded(a, b) + d
<1> DEFINE p == Rounded(a, b)
           q == Rounded(c, b)
<1>1. p \in Int /\ q \in Int
  BY RoundedAtLeast
<1>2. 2 * (b * p) <= 2 * a + b /\ 2 * (b * q) <= 2 * c + b
  BY <1>1, RoundedAtLeast
<1>3. p <= q
  <2>1. 2 * (b * p) <= 2 * c + b
    <3>1. b * p \in Int
      BY <1>1
    <3> HIDE DEF p, q
    <3>2. QED
      BY <1>2, <3>1
  <2>2. QED
    BY <1>1, <2>1, RoundedAtLeast
<1>4. q - d <= p
  <2>1. q - d \in Int /\ b * q \in Int /\ b * d \in Int
    BY <1>1
  <2>2. b * (q - d) = b * q - b * d
    BY <1>1
  <2>3. 2 * (b * (q - d)) <= 2 * a + b
    <3> HIDE DEF p, q
    <3>1. QED
      BY <1>2, <2>1, <2>2
  <2>4. QED
    BY <2>1, <2>3, RoundedAtLeast
<1> HIDE DEF p, q
<1>5. p <= q /\ q <= p + d
  BY <1>1, <1>3, <1>4
<1>6. QED
  BY <1>5 DEF p, q

LEMMA RoundedMonotonic ==
  ASSUME NEW a \in Int, NEW c \in Int, NEW b \in Nat \ {0}, a <= c
  PROVE  Rounded(a, b) <= Rounded(c, b)
<1> DEFINE p == Rounded(a, b)
<1>1. p \in Int /\ p <= p
  BY RoundedAtLeast
<1>2. 2 * (b * p) <= 2 * a + b
  BY <1>1, RoundedAtLeast
<1>3. b * p \in Int
  BY <1>1
<1> HIDE DEF p
<1>4. 2 * (b * p) <= 2 * c + b
  BY <1>2, <1>3
<1>5. p <= Rounded(c, b)
  BY <1>1, <1>4, RoundedAtLeast
<1>6. QED
  BY <1>5 DEF p

LEMMA RoundedIs ==
  ASSUME NEW a \in Int, NEW b \in Nat \ {0}, NEW k \in Int,
         2 * (b * k) <= 2 * a + b, 2 * a + b < 2 * (b * k) + 2 * b
  PROVE  Rounded(a, b) = k
<1>1. k <= Rounded(a, b) /\ Rounded(a, b) \in Int
  BY RoundedAtLeast
<1>2. b * (k + 1) = b * k + b /\ b * k \in Int
  OBVIOUS
<1>3. ~ (2 * (b * (k + 1)) <= 2 * a + b)
  BY <1>2
<1>4. ~ (k + 1 <= Rounded(a, b))
  BY <1>3, RoundedAtLeast
<1>5. QED
  BY <1>1, <1>4

LEMMA RoundedReduced ==
  ASSUME NEW a \in Int, NEW b \in Nat \ {0}, NEW m \in Nat \ {0}
  PROVE  Rounded(a * m, b * m) = Rounded(a, b)
<1> DEFINE k == Rounded(a, b)
<1>1. k \in Int /\ k <= k /\ ~ (k + 1 <= k) /\ k + 1 \in Int
  BY RoundedAtLeast
<1>2. 2 * (b * k) <= 2 * a + b
  BY <1>1, RoundedAtLeast
<1>3. ~ (2 * (b * (k + 1)) <= 2 * a + b)
  BY <1>1, RoundedAtLeast
<1> HIDE DEF k
<1> DEFINE x == 2 * (b * k)
           y == 2 * a + b
           z == 2 * (b * (k + 1))
<1>4. x \in Int /\ y \in Int /\ z \in Int /\ x <= y /\ y + 1 <= z
  BY <1>1, <1>2, <1>3
<1>5. m * x = 2 * ((b * m) * k) /\ m * z = 2 * ((b * m) * k) + 2 * (b * m)
      /\ m * y = 2 * (a * m) + b * m /\ m * (y + 1) = m * y + m
  BY <1>1
<1>6. m * x \in Int /\ m * y \in Int /\ m * z \in Int
  BY <1>4
<1> HIDE DEF x, y, z
<1>7. m * x <= m * y /\ m * (y + 1) <= m * z
  BY <1>4, TimesMonotonic
<1>8. a * m \in Int /\ b * m \in Nat \ {0}
  OBVIOUS
<1>9. 2 * ((b * m) * k) <= 2 * (a * m) + b * m
  BY <1>5, <1>7
<1>10. 2 * (a * m) + b * m < 2 * ((b * m) * k) + 2 * (b * m)
  BY <1>5, <1>6, <1>7
<1>11. Rounded(a * m, b * m) = k
  BY <1>1, <1>8, <1>9, <1>10, RoundedIs
<1>12. QED
  BY <1>11 DEF k

\* A share of a length grows with the length, and no faster.
LEMMA ShareGrows ==
  ASSUME NEW u \in Nat, NEW v \in Nat, u <= v, NEW b \in Nat \ {0}, NEW r \in 0 .. b
  PROVE  Rounded(u * r, b) <= Rounded(v * r, b)
         /\ Rounded(v * r, b) <= Rounded(u * r, b) + (v - u)
<1>1. r \in Nat /\ v - u \in Nat /\ u * r \in Int /\ v * r \in Int
  OBVIOUS
<1>2. v * r = u * r + (v - u) * r
  BY <1>1
<1>3. 0 <= (v - u) * r /\ (v - u) * r <= b * (v - u)
  <2>1. (v - u) * r <= (v - u) * b
    BY <1>1, TimesMonotonic
  <2>2. (v - u) * b = b * (v - u)
    BY <1>1
  <2>3. QED
    BY <1>1, <2>1, <2>2
<1>4. u * r <= v * r /\ v * r <= u * r + b * (v - u)
  <2>1. (v - u) * r \in Int /\ b * (v - u) \in Int
    BY <1>1
  <2>2. QED
    BY <1>1, <1>2, <1>3, <2>1
<1>5. QED
  BY <1>1, <1>4, RoundedGrows

--------------------------------------------------------------------------------
(* Ways. *)

LEMMA Extended ==
  ASSUME NEW w \in Seq(Halves), NEW half \in Halves
  PROVE  /\ Append(w, half) \in Seq(Halves) /\ Append(w, half) # << >>
         /\ Len(Append(w, half)) = Len(w) + 1
         /\ Front(Append(w, half)) = w /\ Last(Append(w, half)) = half
<1> DEFINE v == Append(w, half)
           f == SubSeq(v, 1, Len(v) - 1)
<1>1. /\ v \in Seq(Halves) /\ v # << >> /\ Len(v) = Len(w) + 1
      /\ \A i \in 1 .. Len(w) : v[i] = w[i]
      /\ v[Len(w) + 1] = half /\ Len(w) \in Nat
  BY AppendProperties, LenProperties
<1> HIDE DEF v
<1>2. \A i \in 1 .. Len(w) : v[i] \in Halves
  BY <1>1, ElementOfSeq
<1>3. /\ f \in Seq(Halves) /\ Len(f) = Len(w)
      /\ \A i \in 1 .. Len(w) : f[i] = v[i]
  BY <1>1, <1>2, SubSeqProperties
<1> HIDE DEF f
<1>4. f = w
  BY <1>1, <1>3, SeqEqual
<1>5. QED
  BY <1>1, <1>4 DEF v, f, Front, Last

LEMMA Shortened ==
  ASSUME NEW w \in Seq(Halves), w # << >>
  PROVE  /\ Front(w) \in Seq(Halves) /\ Last(w) \in Halves
         /\ w = Append(Front(w), Last(w)) /\ Len(w) = Len(Front(w)) + 1
         /\ Len(w) \in Nat /\ Len(Front(w)) \in Nat
<1>1. PICK s \in Seq(Halves), h \in Halves : w = Append(s, h)
  BY SequenceEmptyOrAppend
<1>2. QED
  BY <1>1, Extended, LenProperties

Ways == Seq(Halves)

LEMMA PrefixOfConcat ==
  ASSUME NEW a \in Ways, NEW r \in Ways
  PROVE  /\ a \o r \in Ways /\ IsPrefix(a, a \o r)
         /\ SubSeq(a \o r, Len(a) + 1, Len(a \o r)) = r
<1>1. /\ a \o r \in Ways /\ Len(a \o r) = Len(a) + Len(r)
      /\ Len(a) \in Nat /\ Len(r) \in Nat
  BY ConcatProperties, LenProperties DEF Ways
<1>2. SubSeq(a \o r, 1, Len(a)) = SubSeq(a, 1, Len(a))
  <2>1. CASE Len(a) = 0
    BY <2>1, SubSeqEmpty
  <2>2. CASE Len(a) # 0
    <3>1. 1 \in 1 .. Len(a) /\ Len(a) \in 1 .. Len(a)
      BY <1>1, <2>2
    <3>2. QED
      BY <3>1, SubSeqOfConcat1 DEF Ways
  <2>3. QED
    BY <2>1, <2>2
<1>3. SubSeq(a \o r, Len(a) + 1, Len(a \o r)) = r
  <2>1. CASE Len(r) = 0
    <3>1. r = << >>
      BY <2>1, EmptySeq DEF Ways
    <3>2. SubSeq(a \o r, Len(a) + 1, Len(a \o r)) = << >>
      BY <1>1, <2>1, SubSeqEmpty
    <3>3. QED
      BY <3>1, <3>2
  <2>2. CASE Len(r) # 0
    <3>1. /\ Len(a) + 1 \in Len(a) + 1 .. Len(a) + Len(r)
          /\ Len(a) + Len(r) \in Len(a) + 1 .. Len(a) + Len(r)
          /\ Len(a) + 1 - Len(a) = 1 /\ Len(a) + Len(r) - Len(a) = Len(r)
      BY <1>1, <2>2
    <3>2. SubSeq(a \o r, Len(a) + 1, Len(a) + Len(r)) = SubSeq(r, 1, Len(r))
      BY <3>1, SubSeqOfConcat2 DEF Ways
    <3>3. QED
      BY <1>1, <3>2, SubSeqFull DEF Ways
  <2>3. QED
    BY <2>1, <2>2
<1>4. QED
  BY <1>1, <1>2, <1>3 DEF IsPrefix

LEMMA PrefixRest ==
  ASSUME NEW a \in Ways, NEW b \in Ways, IsPrefix(a, b)
  PROVE  \E r \in Ways : b = a \o r
<1> DEFINE r == SubSeq(b, Len(a) + 1, Len(b))
<1>1. Len(a) \in Nat /\ Len(b) \in Nat /\ Len(a) <= Len(b)
  BY LenProperties DEF IsPrefix, Ways
<1>2. SubSeq(b, 1, Len(a)) = a
  BY SubSeqFull DEF IsPrefix, Ways
<1>3. SubSeq(b, 1, Len(a)) \o r = SubSeq(b, 1, Len(b))
  <2>1. 1 \in 1 .. Len(b) + 1 /\ Len(a) \in 1 - 1 .. Len(b) /\ Len(b) \in Len(a) .. Len(b)
    BY <1>1
  <2>2. QED
    BY <2>1, ConcatAdjacentSubSeq DEF Ways
<1>4. b = a \o r
  BY <1>2, <1>3, SubSeqFull DEF Ways
<1>5. r \in Ways
  <2>1. \A i \in Len(a) + 1 .. Len(b) : b[i] \in Halves
    BY <1>1, ElementOfSeq DEF Ways
  <2>2. QED
    BY <1>1, <2>1, SubSeqProperties DEF Ways
<1>6. QED
  BY <1>4, <1>5

LEMMA ConcatAppend ==
  ASSUME NEW a \in Ways, NEW r \in Ways, NEW h \in Halves
  PROVE  a \o Append(r, h) = Append(a \o r, h) /\ Append(r, h) \in Ways
<1>1. Append(r, h) = r \o <<h>> /\ Append(r, h) \in Ways /\ <<h>> \in Ways
  BY AppendIsConcat, AppendProperties DEF Ways
<1>2. a \o (r \o <<h>>) = (a \o r) \o <<h>>
  BY <1>1, ConcatAssociative DEF Ways
<1>3. Append(a \o r, h) = (a \o r) \o <<h>>
  BY ConcatProperties, AppendIsConcat DEF Ways
<1>4. QED
  BY <1>1, <1>2, <1>3

LEMMA PrefixOfAppend ==
  ASSUME NEW a \in Ways, NEW b \in Ways, NEW h \in Halves
  PROVE  IsPrefix(a, Append(b, h)) <=> IsPrefix(a, b) \/ a = Append(b, h)
<1>1. Append(b, h) \in Ways /\ << >> \in Ways
  BY AppendProperties, EmptySeq DEF Ways
<1>2. ASSUME IsPrefix(a, Append(b, h)), a # Append(b, h) PROVE IsPrefix(a, b)
  <2>1. PICK r \in Ways : Append(b, h) = a \o r
    BY <1>1, <1>2, PrefixRest
  <2>2. r # << >>
    BY <1>2, <2>1, ConcatEmptySeq DEF Ways
  <2>3. PICK s \in Ways, k \in Halves : r = Append(s, k)
    BY <2>2, SequenceEmptyOrAppend DEF Ways
  <2>4. Append(b, h) = Append(a \o s, k) /\ a \o s \in Ways
    <3>1. a \o Append(s, k) = Append(a \o s, k)
      BY ConcatAppend
    <3>2. a \o s \in Ways
      BY PrefixOfConcat
    <3>3. QED
      BY <2>1, <2>3, <3>1, <3>2
  <2>5. \A c \in Ways : Append(b, h) = Append(c, k) => b = c
    BY AppendInjective DEF Ways
  <2>6. b = a \o s
    BY <2>4, <2>5
  <2>7. QED
    BY <2>6, PrefixOfConcat
<1>3. ASSUME IsPrefix(a, b) PROVE IsPrefix(a, Append(b, h))
  <2>1. PICK r \in Ways : b = a \o r
    BY <1>3, PrefixRest
  <2>2. Append(b, h) = a \o Append(r, h) /\ Append(r, h) \in Ways
    BY <2>1, ConcatAppend
  <2>3. QED
    BY <2>2, PrefixOfConcat
<1>4. ASSUME a = Append(b, h) PROVE IsPrefix(a, Append(b, h))
  BY <1>1, <1>4, ConcatEmptySeq, PrefixOfConcat DEF Ways
<1>5. QED
  BY <1>2, <1>3, <1>4

LEMMA PrefixFacts ==
  ASSUME NEW a \in Ways, NEW b \in Ways
  PROVE  /\ IsPrefix(a, a) /\ IsPrefix(<< >>, a)
         /\ IsPrefix(a, << >>) => a = << >>
         /\ IsPrefix(a, b) => Len(a) <= Len(b)
         /\ \A c \in Ways : IsPrefix(a, b) /\ IsPrefix(b, c) => IsPrefix(a, c)
         /\ \A c \in Ways : IsPrefix(a, c) /\ IsPrefix(b, c) /\ Len(a) = Len(b) => a = b
<1>1. << >> \in Ways /\ a \o << >> = a /\ << >> \o a = a
  BY EmptySeq, ConcatEmptySeq DEF Ways
<1>2. IsPrefix(a, a) /\ IsPrefix(<< >>, a)
  BY <1>1, PrefixOfConcat
<1>3. ASSUME IsPrefix(a, << >>) PROVE a = << >>
  <2>1. PICK r \in Ways : << >> = a \o r
    BY <1>1, <1>3, PrefixRest
  <2>2. QED
    BY <2>1, ConcatEqualIffEmpty DEF Ways
<1>4. ASSUME NEW c \in Ways, IsPrefix(a, b), IsPrefix(b, c) PROVE IsPrefix(a, c)
  <2>1. PICK r \in Ways : b = a \o r
    BY <1>4, PrefixRest
  <2>2. PICK s \in Ways : c = b \o s
    BY <1>4, PrefixRest
  <2>3. c = a \o (r \o s) /\ r \o s \in Ways
    BY <2>1, <2>2, ConcatAssociative, ConcatProperties DEF Ways
  <2>4. QED
    BY <2>3, PrefixOfConcat
<1>5. ASSUME NEW c \in Ways, IsPrefix(a, c), IsPrefix(b, c), Len(a) = Len(b) PROVE a = b
  BY <1>5, SubSeqFull DEF IsPrefix, Ways
<1>6. IsPrefix(a, b) => Len(a) <= Len(b)
  BY DEF IsPrefix
<1>7. QED
  BY <1>2, <1>3, <1>4, <1>5, <1>6

\* What is below a way but not at it is below one of the ways on from it.
LEMMA PrefixOfHalves ==
  ASSUME NEW w \in Ways, NEW v \in Ways
  PROVE  /\ IsPrefix(w, v) <=> v = w \/ IsPrefix(First(w), v) \/ IsPrefix(Second(w), v)
         /\ ~ (IsPrefix(First(w), v) /\ IsPrefix(Second(w), v))
         /\ ~ IsPrefix(First(w), w) /\ ~ IsPrefix(Second(w), w) /\ First(w) # Second(w)
<1>1. /\ First(w) \in Ways /\ Second(w) \in Ways /\ First(w) # Second(w)
      /\ Len(First(w)) = Len(w) + 1 /\ Len(Second(w)) = Len(w) + 1 /\ Len(w) \in Nat
      /\ IsPrefix(w, First(w)) /\ IsPrefix(w, Second(w))
  <2>1. First(w) # Second(w)
    BY AppendInjective DEF First, Second, Halves, Ways
  <2>2. QED
    BY <2>1, Extended, LenProperties, PrefixFacts, PrefixOfAppend
       DEF First, Second, Halves, Ways
<1>2. ASSUME IsPrefix(w, v), v # w PROVE IsPrefix(First(w), v) \/ IsPrefix(Second(w), v)
  <2>1. PICK r \in Ways : v = w \o r
    BY <1>2, PrefixRest
  <2>2. r # << >>
    BY <1>2, <2>1, ConcatEmptySeq DEF Ways
  <2>3. \E h \in Halves, one \in Ways, u \in Ways : one = <<h>> /\ r = one \o u
    <3>1. Len(r) \in Nat /\ 1 \in 1 .. Len(r) /\ Len(r) \in 1 .. Len(r)
      BY <2>2, EmptySeq DEF Ways
    <3>2. SubSeq(r, 1, Len(r)) = <<r[1]>> \o SubSeq(r, 1 + 1, Len(r))
      BY <3>1, SubSeqRecursiveFirst DEF Ways
    <3>3. r[1] \in Halves /\ \A i \in 2 .. Len(r) : r[i] \in Halves
      BY <3>1, ElementOfSeq DEF Ways
    <3>4. SubSeq(r, 2, Len(r)) \in Ways /\ <<r[1]>> \in Ways
      BY <3>1, <3>3, SubSeqProperties DEF Ways
    <3>5. r = <<r[1]>> \o SubSeq(r, 2, Len(r))
      BY <3>2, SubSeqFull DEF Ways
    <3>6. QED
      BY <3>3, <3>4, <3>5
  <2>4. PICK h \in Halves, one \in Ways, u \in Ways : one = <<h>> /\ r = one \o u
    BY <2>3
  <2>5. v = (w \o one) \o u
    BY <2>1, <2>4, ConcatAssociative DEF Ways
  <2>6. Append(w, h) = w \o one /\ Append(w, h) \in Ways
    BY <2>4, AppendIsConcat, AppendProperties DEF Ways
  <2>7. IsPrefix(Append(w, h), v)
    BY <2>5, <2>6, <2>4, PrefixOfConcat
  <2>8. QED
    BY <2>7 DEF First, Second, Halves
<1>3. IsPrefix(First(w), v) \/ IsPrefix(Second(w), v) => IsPrefix(w, v)
  BY <1>1, PrefixFacts
<1>4. ~ (IsPrefix(First(w), v) /\ IsPrefix(Second(w), v))
  BY <1>1, PrefixFacts
<1>5. ~ IsPrefix(First(w), w) /\ ~ IsPrefix(Second(w), w)
  BY <1>1, PrefixFacts
<1>6. IsPrefix(w, w)
  BY PrefixFacts
<1>7. QED
  BY <1>1, <1>2, <1>3, <1>4, <1>5, <1>6

\* The halves of a split, and the split of a half.
LEMMA TreeSteps ==
  ASSUME NEW t, IsTree(t), NEW w \in DOMAIN t
  PROVE  /\ w \in Seq(Halves) /\ Len(w) \in Nat
         /\ w # << >> => /\ Front(w) \in Splits(t) /\ Last(w) \in Halves
                         /\ w = Append(Front(w), Last(w))
                         /\ Len(Front(w)) \in Nat /\ Len(w) = Len(Front(w)) + 1
         /\ w \in Splits(t) => /\ First(w) \in DOMAIN t /\ Second(w) \in DOMAIN t
                               /\ Len(First(w)) = Len(w) + 1 /\ Len(Second(w)) = Len(w) + 1
<1>1. w \in Seq(Halves) /\ Len(w) \in Nat
  BY LenProperties DEF IsTree
<1>2. w # << >> => /\ Front(w) \in Splits(t) /\ Last(w) \in Halves
                   /\ w = Append(Front(w), Last(w))
                   /\ Len(Front(w)) \in Nat /\ Len(w) = Len(Front(w)) + 1
  BY <1>1, Shortened DEF IsTree
<1>3. w \in Splits(t) => /\ First(w) \in DOMAIN t /\ Second(w) \in DOMAIN t
  BY DEF IsTree
<1>4. Len(First(w)) = Len(w) + 1 /\ Len(Second(w)) = Len(w) + 1
  BY <1>1, Extended DEF First, Second, Halves
<1>5. QED
  BY <1>1, <1>2, <1>3, <1>4

LEMMA TreeNodes ==
  ASSUME NEW t, IsTree(t), NEW w \in DOMAIN t
  PROVE  /\ w \in Leaves(t) <=> t[w].kind = "pane"
         /\ w \in Splits(t) <=> t[w].kind # "pane"
         /\ w \in Leaves(t) => t[w].id \in Panes /\ t[w] = Leaf(t[w].id)
         /\ w \in Splits(t) => t[w].axis \in Axes /\ t[w].ratio \in 0 .. Scale
<1>1. t[w] \in Nodes
  BY DEF IsTree
<1>2. CASE \E p \in Panes : t[w] = Leaf(p)
  BY <1>2 DEF Leaf, Leaves, Splits
<1>3. CASE t[w] \in [kind : {"split"}, axis : Axes, ratio : 0 .. Scale]
  BY <1>3 DEF Leaf, Leaves, Splits
<1>4. QED
  BY <1>1, <1>2, <1>3 DEF Nodes

\* What holds of the root and goes from a split to its halves holds of every node.
LEMMA Downward ==
  ASSUME NEW t, IsTree(t), NEW S, << >> \in S,
         \A w \in Splits(t) : w \in S => First(w) \in S /\ Second(w) \in S
  PROVE  DOMAIN t \subseteq S
<1> DEFINE N == {n \in Nat : \A w \in DOMAIN t : Len(w) = n => w \in S}
<1>1. 0 \in N
  BY TreeSteps DEF IsTree
<1>2. ASSUME NEW n \in N PROVE n + 1 \in N
  <2>1. ASSUME NEW w \in DOMAIN t, Len(w) = n + 1 PROVE w \in S
    <3>1. w # << >>
      BY <2>1, EmptySeq
    <3>2. /\ Front(w) \in Splits(t) /\ Last(w) \in Halves
          /\ w = Append(Front(w), Last(w)) /\ Len(Front(w)) = n
      BY <2>1, <3>1, TreeSteps
    <3>3. Front(w) \in S
      BY <3>2 DEF Splits
    <3>4. QED
      BY <3>2, <3>3 DEF First, Second, Halves
  <2>2. QED
    BY <2>1
<1>3. N = Nat
  BY <1>1, <1>2, Induction
<1>4. QED
  BY <1>3, TreeSteps

\* A tree is only so deep.
Shallow(t) == \E n \in Nat : \A w \in DOMAIN t : Len(w) <= n

\* What holds of the panes and goes from its halves to a split holds of every node.
LEMMA Upward ==
  ASSUME NEW t, IsTree(t), Shallow(t), NEW S, Leaves(t) \subseteq S,
         \A w \in Splits(t) : First(w) \in S /\ Second(w) \in S => w \in S
  PROVE  DOMAIN t \subseteq S
<1>1. PICK n \in Nat : \A w \in DOMAIN t : Len(w) <= n
  BY DEF Shallow
<1> DEFINE N == {k \in Nat : \A w \in DOMAIN t : Len(w) + k > n => w \in S}
<1>2. 0 \in N
  BY <1>1, TreeSteps
<1>3. ASSUME NEW k \in N PROVE k + 1 \in N
  <2>1. ASSUME NEW w \in DOMAIN t, Len(w) + (k + 1) > n PROVE w \in S
    <3>1. CASE w \in Splits(t)
      <4>1. /\ First(w) \in DOMAIN t /\ Second(w) \in DOMAIN t
            /\ Len(First(w)) + k > n /\ Len(Second(w)) + k > n
        BY <2>1, <3>1, TreeSteps
      <4>2. First(w) \in S /\ Second(w) \in S
        BY <4>1
      <4>3. QED
        BY <3>1, <4>2
    <3>2. CASE w \notin Splits(t)
      BY <3>2 DEF Leaves
    <3>3. QED
      BY <3>1, <3>2
  <2>2. QED
    BY <2>1
<1>4. N = Nat
  BY <1>2, <1>3, Induction
<1>5. n + 1 \in N
  BY <1>4
<1>6. QED
  BY <1>5, TreeSteps

\* g computes for every split from what it has for the halves.
Joined(t, base, join, g, w) ==
  IF t[w].kind = "pane" THEN base[w] ELSE join[<<w, g[First(w)], g[Second(w)]>>]

JoinedAll(t, base, join, g) == \A w \in DOMAIN t : g[w] = Joined(t, base, join, g, w)

\* A recursive definition from the panes up defines a function.
LEMMA UpwardDefinition ==
  ASSUME NEW t, IsTree(t), Shallow(t), NEW V, NEW base \in [DOMAIN t -> V],
         NEW join \in [(DOMAIN t) \X V \X V -> V]
  PROVE  \E g \in [DOMAIN t -> V] : JoinedAll(t, base, join, g)
<1>1. PICK n \in Nat : \A w \in DOMAIN t : Len(w) <= n
  BY DEF Shallow
<1> DEFINE Good(g, k) ==
             \A w \in DOMAIN t : Len(w) + k > n => g[w] = Joined(t, base, join, g, w)
           N == {k \in Nat : \E g \in [DOMAIN t -> V] : Good(g, k)}
<1>2. 0 \in N
  <2>1. Good(base, 0)
    BY <1>1, TreeSteps
  <2>2. QED
    BY <2>1
<1>3. ASSUME NEW k \in N PROVE k + 1 \in N
  <2>1. PICK g \in [DOMAIN t -> V] : Good(g, k)
    BY <1>3
  <2> DEFINE f == [w \in DOMAIN t |-> Joined(t, base, join, g, w)]
  <2>2. ASSUME NEW w \in DOMAIN t
        PROVE  /\ t[w].kind = "pane" \/ w \in Splits(t)
               /\ Joined(t, base, join, g, w) \in V
    <3>1. t[w].kind = "pane" \/ t[w].kind = "split"
      BY DEF IsTree, Nodes, Leaf
    <3>2. CASE t[w].kind = "pane"
      BY <3>2 DEF Joined
    <3>3. CASE w \in Splits(t) /\ t[w].kind # "pane"
      <4>1. g[First(w)] \in V /\ g[Second(w)] \in V
        BY <3>3, TreeSteps
      <4>2. <<w, g[First(w)], g[Second(w)]>> \in (DOMAIN t) \X V \X V
        BY <4>1
      <4>3. join[<<w, g[First(w)], g[Second(w)]>>] \in V
        BY <4>2
      <4>4. QED
        BY <3>3, <4>3 DEF Joined
    <3>4. QED
      BY <3>1, <3>2, <3>3 DEF Splits
  <2>3. f \in [DOMAIN t -> V]
    BY <2>2
  <2>4. ASSUME NEW w \in DOMAIN t, Len(w) + (k + 1) > n
        PROVE  f[w] = Joined(t, base, join, f, w)
    <3>1. CASE t[w].kind = "pane"
      BY <3>1 DEF Joined
    <3>2. CASE w \in Splits(t)
      <4>1. /\ First(w) \in DOMAIN t /\ Second(w) \in DOMAIN t
            /\ Len(First(w)) + k > n /\ Len(Second(w)) + k > n
        BY <2>4, <3>2, TreeSteps
      <4>2. f[First(w)] = g[First(w)] /\ f[Second(w)] = g[Second(w)]
        BY <2>1, <4>1
      <4>3. f[w] = Joined(t, base, join, g, w)
        OBVIOUS
      <4> HIDE DEF f
      <4>4. QED
        BY <4>2, <4>3 DEF Joined
    <3>3. QED
      BY <2>2, <3>1, <3>2
  <2>5. Good(f, k + 1)
    BY <2>4
  <2> HIDE DEF f, Good
  <2>6. QED
    BY <2>3, <2>5
<1>4. n + 1 \in N
  <2> HIDE DEF Good
  <2>1. N = Nat
    BY <1>2, <1>3, Induction
  <2> HIDE DEF N
  <2>2. QED
    BY <2>1
<1>5. PICK g \in [DOMAIN t -> V] : Good(g, n + 1)
  BY <1>4
<1>6. ASSUME NEW w \in DOMAIN t PROVE g[w] = Joined(t, base, join, g, w)
  BY <1>5, TreeSteps
<1>7. QED
  BY <1>6 DEF JoinedAll

\* g computes for every node from what it has for the split the node is a half of.
Descended(start, step, g, w) == IF w = << >> THEN start ELSE step[<<w, g[Front(w)]>>]

DescendedAll(t, start, step, g) == \A w \in DOMAIN t : g[w] = Descended(start, step, g, w)

\* A recursive definition from the root down defines a function.
LEMMA DownwardDefinition ==
  ASSUME NEW t, IsTree(t), Shallow(t), NEW V, NEW start \in V,
         NEW step \in [(DOMAIN t) \X V -> V]
  PROVE  \E g \in [DOMAIN t -> V] : DescendedAll(t, start, step, g)
<1>1. PICK n \in Nat : \A w \in DOMAIN t : Len(w) <= n
  BY DEF Shallow
<1> DEFINE Good(g, k) ==
             \A w \in DOMAIN t : Len(w) < k => g[w] = Descended(start, step, g, w)
           N == {k \in Nat : \E g \in [DOMAIN t -> V] : Good(g, k)}
<1>2. 0 \in N
  <2>1. Good([w \in DOMAIN t |-> start], 0)
    BY TreeSteps
  <2>2. [w \in DOMAIN t |-> start] \in [DOMAIN t -> V]
    OBVIOUS
  <2> HIDE DEF Good
  <2>3. QED
    BY <2>1, <2>2
<1>3. ASSUME NEW k \in N PROVE k + 1 \in N
  <2>1. PICK g \in [DOMAIN t -> V] : Good(g, k)
    BY <1>3
  <2> DEFINE f == [w \in DOMAIN t |-> Descended(start, step, g, w)]
  <2>2. ASSUME NEW w \in DOMAIN t PROVE Descended(start, step, g, w) \in V
    <3>1. CASE w # << >>
      <4>1. g[Front(w)] \in V
        BY <3>1, TreeSteps DEF Splits
      <4>2. <<w, g[Front(w)]>> \in (DOMAIN t) \X V
        BY <4>1
      <4>3. step[<<w, g[Front(w)]>>] \in V
        BY <4>2
      <4>4. QED
        BY <3>1, <4>3 DEF Descended
    <3>2. QED
      BY <3>1 DEF Descended
  <2>3. f \in [DOMAIN t -> V]
    BY <2>2
  <2>4. ASSUME NEW w \in DOMAIN t, Len(w) < k + 1
        PROVE  f[w] = Descended(start, step, f, w)
    <3>1. f[w] = Descended(start, step, g, w)
      OBVIOUS
    <3>2. CASE w # << >>
      <4>1. Front(w) \in DOMAIN t /\ Len(Front(w)) < k
        BY <2>4, <3>2, TreeSteps DEF Splits
      <4>2. f[Front(w)] = g[Front(w)]
        BY <2>1, <4>1
      <4> HIDE DEF f
      <4>3. QED
        BY <3>1, <4>2 DEF Descended
    <3> HIDE DEF f
    <3>3. QED
      BY <3>1, <3>2 DEF Descended
  <2>5. Good(f, k + 1)
    BY <2>4
  <2> HIDE DEF f, Good
  <2>6. QED
    BY <2>3, <2>5
<1>4. n + 1 \in N
  <2> HIDE DEF Good
  <2>1. N = Nat
    BY <1>2, <1>3, Induction
  <2> HIDE DEF N
  <2>2. QED
    BY <2>1
<1>5. PICK g \in [DOMAIN t -> V] : Good(g, n + 1)
  BY <1>4
<1>6. ASSUME NEW w \in DOMAIN t PROVE g[w] = Descended(start, step, g, w)
  BY <1>1, <1>5, TreeSteps
<1>7. QED
  BY <1>6 DEF DescendedAll

--------------------------------------------------------------------------------
(* Minimum sizes. *)

Smallest(axis) == IF axis = "leftRight" THEN MinWidth ELSE MinHeight

\* What a node needs along an axis.
LEMMA MinimumOf ==
  ASSUME NEW t, IsTree(t), Shallow(t), NEW axis \in Axes, NEW w \in DOMAIN t
  PROVE  /\ MinimumAlong(t, w, axis) \in Nat
         /\ w \in Leaves(t) => MinimumAlong(t, w, axis) = Smallest(axis)
         /\ w \in Splits(t) =>
              LET first  == MinimumAlong(t, First(w), axis)
                  second == MinimumAlong(t, Second(w), axis)
              IN  /\ first \in Nat /\ second \in Nat
                  /\ MinimumAlong(t, w, axis) =
                       IF t[w].axis = axis THEN first + Gap + second
                       ELSE IF first >= second THEN first ELSE second
<1> DEFINE body(m, v) ==
             IF t[v].kind = "pane" THEN IF axis = "leftRight" THEN MinWidth ELSE MinHeight
             ELSE LET first  == m[First(v)]
                      second == m[Second(v)]
                  IN  IF t[v].axis = axis THEN first + Gap + second ELSE Max({first, second})
           fixed(m) == m = [v \in DOMAIN t |-> body(m, v)]
           minimum == CHOOSE m : fixed(m)
<1>1. \A v \in DOMAIN t : MinimumAlong(t, v, axis) = minimum[v]
  BY DEF MinimumAlong
<1>2. \E m : fixed(m)
  <2> DEFINE base == [v \in DOMAIN t |-> Smallest(axis)]
             join == [x \in (DOMAIN t) \X Nat \X Nat |->
                        IF t[x[1]].axis = axis THEN x[2] + Gap + x[3] ELSE Max({x[2], x[3]})]
  <2>1. base \in [DOMAIN t -> Nat]
    BY SizesAssumption DEF Smallest
  <2>2. ASSUME NEW x \in (DOMAIN t) \X Nat \X Nat
        PROVE  (IF t[x[1]].axis = axis THEN x[2] + Gap + x[3] ELSE Max({x[2], x[3]})) \in Nat
    <3>1. x[2] \in Nat /\ x[3] \in Nat
      OBVIOUS
    <3>2. Max({x[2], x[3]}) \in Nat /\ x[2] + Gap + x[3] \in Nat
      BY <3>1, MaxOfTwo, SizesAssumption
    <3>3. QED
      BY <3>2
  <2>3. join \in [(DOMAIN t) \X Nat \X Nat -> Nat]
    BY <2>2
  <2> HIDE DEF base, join
  <2>4. PICK m \in [DOMAIN t -> Nat] : JoinedAll(t, base, join, m)
    BY <2>1, <2>3, UpwardDefinition
  <2>5. ASSUME NEW v \in DOMAIN t PROVE Joined(t, base, join, m, v) = body(m, v)
    <3>1. CASE t[v].kind = "pane"
      BY <3>1 DEF Joined, base, Smallest
    <3>2. CASE t[v].kind # "pane"
      <4>1. First(v) \in DOMAIN t /\ Second(v) \in DOMAIN t
        BY <3>2, TreeNodes, TreeSteps
      <4>2. <<v, m[First(v)], m[Second(v)]>> \in (DOMAIN t) \X Nat \X Nat
        BY <4>1
      <4>3. QED
        BY <3>2, <4>2 DEF Joined, join
    <3>3. QED
      BY <3>1, <3>2
  <2>6. \A v \in DOMAIN t : m[v] = body(m, v)
    BY <2>4, <2>5 DEF JoinedAll
  <2>7. QED
    BY <2>6
<1>3. fixed(minimum)
  BY <1>2
<1> HIDE DEF minimum
<1>4. ASSUME NEW v \in DOMAIN t PROVE minimum[v] = body(minimum, v)
  BY <1>3
<1>5. ASSUME NEW v \in Leaves(t) PROVE minimum[v] = Smallest(axis) /\ minimum[v] \in Nat
  <2>1. v \in DOMAIN t /\ t[v].kind = "pane"
    BY TreeNodes DEF Leaves
  <2>2. QED
    BY <1>4, <2>1, SizesAssumption DEF Smallest
<1>6. ASSUME NEW v \in Splits(t), minimum[First(v)] \in Nat, minimum[Second(v)] \in Nat
      PROVE  /\ minimum[v] = IF t[v].axis = axis THEN minimum[First(v)] + Gap + minimum[Second(v)]
                             ELSE IF minimum[First(v)] >= minimum[Second(v)]
                             THEN minimum[First(v)] ELSE minimum[Second(v)]
             /\ minimum[v] \in Nat
  <2>1. v \in DOMAIN t /\ t[v].kind # "pane"
    BY DEF Splits
  <2>2. minimum[v] = IF t[v].axis = axis THEN minimum[First(v)] + Gap + minimum[Second(v)]
                     ELSE Max({minimum[First(v)], minimum[Second(v)]})
    BY <1>4, <2>1
  <2>3. QED
    BY <1>6, <2>2, MaxOfTwo, SizesAssumption
<1> DEFINE S == {v \in DOMAIN t : minimum[v] \in Nat}
<1>7. DOMAIN t \subseteq S
  <2>1. Leaves(t) \subseteq S
    BY <1>5 DEF Leaves
  <2>2. ASSUME NEW v \in Splits(t), First(v) \in S, Second(v) \in S PROVE v \in S
    BY <1>6, <2>2 DEF Splits
  <2> HIDE DEF S
  <2>3. QED
    BY <2>1, <2>2, Upward
<1>8. w \in Splits(t) => First(w) \in DOMAIN t /\ Second(w) \in DOMAIN t
  BY TreeSteps
<1> HIDE DEF body, fixed
<1>9. QED
  BY <1>1, <1>5, <1>6, <1>7, <1>8

\* The minimum of a pane, and so of every node, is at least a pixel.
LEMMA MinimumPositive ==
  ASSUME NEW t, IsTree(t), Shallow(t), NEW axis \in Axes, NEW w \in DOMAIN t
  PROVE  MinimumAlong(t, w, axis) \in Nat \ {0}
<1> DEFINE S == {v \in DOMAIN t : MinimumAlong(t, v, axis) \in Nat \ {0}}
<1>1. Leaves(t) \subseteq S
  <2>1. ASSUME NEW v \in Leaves(t)
        PROVE  v \in DOMAIN t /\ MinimumAlong(t, v, axis) = Smallest(axis)
    BY MinimumOf DEF Leaves
  <2>2. Smallest(axis) \in Nat \ {0}
    BY SizesAssumption DEF Smallest
  <2>3. QED
    BY <2>1, <2>2
<1>2. ASSUME NEW v \in Splits(t), First(v) \in S, Second(v) \in S PROVE v \in S
  <2> DEFINE m      == MinimumAlong(t, v, axis)
             first  == MinimumAlong(t, First(v), axis)
             second == MinimumAlong(t, Second(v), axis)
  <2>1. v \in DOMAIN t /\ first \in Nat \ {0} /\ second \in Nat \ {0}
    BY <1>2 DEF Splits
  <2>2. m = IF t[v].axis = axis THEN first + Gap + second
            ELSE IF first >= second THEN first ELSE second
    BY <1>2, <2>1, MinimumOf
  <2>3. m \in Nat \ {0}
    <3> HIDE DEF m, first, second
    <3>1. QED
      BY <2>1, <2>2, SizesAssumption
  <2>4. QED
    BY <2>1, <2>3
<1> HIDE DEF S
<1>3. DOMAIN t \subseteq S
  BY <1>1, <1>2, Upward
<1>4. QED
  BY <1>3 DEF S

\* The minimums of the two halves along the axis of their split.
LEMMA HalfMinimums ==
  ASSUME NEW t, IsTree(t), Shallow(t), NEW w \in Splits(t)
  PROVE  FirstMinimum(t, w) \in Nat \ {0} /\ SecondMinimum(t, w) \in Nat \ {0}
<1>1. w \in DOMAIN t /\ t[w].axis \in Axes /\ First(w) \in DOMAIN t /\ Second(w) \in DOMAIN t
  BY TreeNodes, TreeSteps DEF Splits
<1>2. QED
  BY <1>1, MinimumPositive DEF FirstMinimum, SecondMinimum

--------------------------------------------------------------------------------
(* The shares of the two halves of a length. *)

\* What the first half of a split gets of u pixels.
Share(u, r, f, s) ==
  IF u >= f + s THEN Bounded(Rounded(u * r, Scale), f, u - s)
  ELSE IF u >= 2 THEN Bounded(Rounded(u * f, f + s), 1, u - 1)
  ELSE u

\* The first half gets enough if there is enough, and not too much if there is not.
LEMMA ShareBounds ==
  ASSUME NEW u \in Nat, NEW r \in 0 .. Scale, NEW f \in Nat \ {0}, NEW s \in Nat \ {0}
  PROVE  /\ Share(u, r, f, s) \in 0 .. u
         /\ u >= 2 \/ u >= f + s => Share(u, r, f, s) \in 1 .. u - 1
         /\ u >= f + s => Share(u, r, f, s) >= f /\ u - Share(u, r, f, s) >= s
         /\ u <= f + s => Share(u, r, f, s) <= f /\ u - Share(u, r, f, s) <= s
<1> DEFINE l == Share(u, r, f, s)
           p == Rounded(u * r, Scale)
           q == Rounded(u * f, f + s)
<1>1. /\ l = IF u >= f + s THEN Bounded(p, f, u - s)
             ELSE IF u >= 2 THEN Bounded(q, 1, u - 1) ELSE u
      /\ p \in Int /\ q \in Int
  <2>1. Scale \in Nat \ {0} /\ f + s \in Nat \ {0} /\ u * r \in Int /\ u * f \in Int
    BY RatioAssumption
  <2>2. p \in Int
    BY <2>1, RoundedAtLeast
  <2>3. q \in Int
    BY <2>1, RoundedAtLeast
  <2>4. QED
    BY <2>2, <2>3 DEF Share
<1>2. u <= f + s => q <= f /\ u - q <= s
  <2>1. SUFFICES ASSUME u <= f + s PROVE q <= f /\ u - q <= s
    OBVIOUS
  <2>2. f + s \in Nat \ {0} /\ f \in 0 .. f + s
    OBVIOUS
  <2>3. Rounded((f + s) * f, f + s) = f
    <3> DEFINE n == f + s
    <3>1. n \in Nat \ {0} /\ n * f \in Int
      OBVIOUS
    <3> HIDE DEF n
    <3>2. f <= Rounded(n * f, n)
      <4>1. 2 * (n * f) <= 2 * (n * f) + n
        BY <3>1
      <4>2. QED
        BY <3>1, <4>1, RoundedAtLeast
    <3>3. ~ (f + 1 <= Rounded(n * f, n))
      <4>1. n * (f + 1) = n * f + n
        BY <3>1
      <4>2. ~ (2 * (n * (f + 1)) <= 2 * (n * f) + n)
        BY <3>1, <4>1
      <4>3. QED
        BY <3>1, <4>2, RoundedAtLeast
    <3>4. Rounded(n * f, n) \in Int
      BY <3>1, RoundedAtLeast
    <3>5. QED
      BY <3>2, <3>3, <3>4 DEF n
  <2>4. q <= Rounded((f + s) * f, f + s) /\ Rounded((f + s) * f, f + s) <= q + (f + s - u)
    <3> DEFINE n == f + s
    <3>1. n \in Nat \ {0} /\ n \in Nat /\ f \in 0 .. n /\ u <= n
      BY <2>1, <2>2
    <3> HIDE DEF n
    <3>2. Rounded(u * f, n) <= Rounded(n * f, n)
            /\ Rounded(n * f, n) <= Rounded(u * f, n) + (n - u)
      BY <3>1, ShareGrows
    <3>3. QED
      BY <3>2 DEF n
  <2> HIDE DEF q
  <2>5. QED
    BY <1>1, <2>1, <2>3, <2>4
<1> HIDE DEF l, p, q
<1>3. CASE u >= f + s
  <2>1. l = Bounded(p, f, u - s)
    BY <1>1, <1>3
  <2>2. l \in Int /\ l >= f /\ l <= u - s
    BY <1>1, <1>3, <2>1, BoundedValue
  <2>3. QED
    BY <1>3, <2>2 DEF l
<1>4. CASE ~ (u >= f + s) /\ u >= 2
  <2>1. l = Bounded(q, 1, u - 1)
    BY <1>1, <1>4
  <2>2. l = IF q <= u - 1 THEN IF 1 >= q THEN 1 ELSE q ELSE u - 1
    BY <1>1, <1>4, <2>1, BoundedValue
  <2>3. l \in Int /\ l >= 1 /\ l <= u - 1 /\ l <= f /\ u - l <= s
    BY <1>1, <1>2, <1>4, <2>2
  <2>4. QED
    BY <1>4, <2>3 DEF l
<1>5. CASE ~ (u >= f + s) /\ ~ (u >= 2)
  BY <1>1, <1>5 DEF l
<1>6. QED
  BY <1>3, <1>4, <1>5

\* A greater ratio takes nothing from the first half.
LEMMA ShareFollowsRatio ==
  ASSUME NEW u \in Nat, NEW r \in 0 .. Scale, NEW q \in 0 .. Scale, r <= q,
         NEW f \in Nat \ {0}, NEW s \in Nat \ {0}
  PROVE  Share(u, r, f, s) <= Share(u, q, f, s)
<1>1. CASE u >= f + s
  <2> DEFINE a == Rounded(u * r, Scale)
             b == Rounded(u * q, Scale)
  <2>1. Scale \in Nat \ {0} /\ r \in Int /\ q \in Int /\ u * r \in Int /\ u * q \in Int
    BY RatioAssumption
  <2>2. u * r <= u * q
    BY <2>1, TimesMonotonic
  <2>3. q - r \in Nat /\ u * q <= u * r + Scale * u
    <3>1. u * q <= u * Scale /\ u * Scale = Scale * u /\ u * r >= 0
      BY <2>1, TimesMonotonic
    <3>2. QED
      BY <2>1, <3>1
  <2>4. a <= b
    BY <2>1, <2>2, <2>3, RoundedGrows
  <2>5. a \in Int /\ b \in Int
    BY <2>1, RoundedAtLeast
  <2>6. Share(u, r, f, s) = Bounded(a, f, u - s) /\ Share(u, q, f, s) = Bounded(b, f, u - s)
    BY <1>1 DEF Share
  <2> HIDE DEF a, b
  <2>7. QED
    BY <1>1, <2>4, <2>5, <2>6, BoundedValue
<1>2. CASE ~ (u >= f + s)
  <2>1. Share(u, r, f, s) = Share(u, q, f, s)
    BY <1>2 DEF Share
  <2>2. Share(u, r, f, s) \in Int
    BY ShareBounds
  <2>3. QED
    BY <2>1, <2>2
<1>3. QED
  BY <1>1, <1>2

\* Of more pixels neither half gets fewer.
LEMMA SharesGrow ==
  ASSUME NEW u \in Nat, NEW v \in Nat, u <= v, NEW r \in 0 .. Scale,
         NEW f \in Nat \ {0}, NEW s \in Nat \ {0}
  PROVE  /\ Share(u, r, f, s) <= Share(v, r, f, s)
         /\ u - Share(u, r, f, s) <= v - Share(v, r, f, s)
<1> DEFINE l == Share(u, r, f, s)
           m == Share(v, r, f, s)
<1>1. /\ l \in Int /\ m \in Int
      /\ l <= u /\ m <= v /\ m >= 0
      /\ v >= 2 \/ v >= f + s => m >= 1 /\ v - m >= 1
      /\ v >= f + s => m >= f /\ v - m >= s
      /\ u <= f + s => l <= f /\ u - l <= s
  BY ShareBounds
<1>2. CASE u >= f + s
  <2> DEFINE a == Rounded(u * r, Scale)
             b == Rounded(v * r, Scale)
  <2>1. v >= f + s /\ Scale \in Nat \ {0} /\ u * r \in Int /\ v * r \in Int
    BY <1>2, RatioAssumption
  <2>2. a \in Int /\ b \in Int /\ a <= b /\ b <= a + (v - u)
    BY <2>1, RoundedAtLeast, ShareGrows
  <2>3. l = Bounded(a, f, u - s) /\ m = Bounded(b, f, v - s)
    BY <1>2, <2>1 DEF Share
  <2> HIDE DEF a, b, l, m
  <2>4. l <= m /\ u - l <= v - m
    BY <1>2, <2>1, <2>2, <2>3, BoundedValue
  <2>5. QED
    BY <2>4 DEF l, m
<1>3. CASE ~ (v >= f + s) /\ u >= 2
  <2> DEFINE a == Rounded(u * f, f + s)
             b == Rounded(v * f, f + s)
  <2>1. ~ (u >= f + s) /\ v >= 2 /\ f + s \in Nat \ {0} /\ f \in 0 .. f + s
        /\ u * f \in Int /\ v * f \in Int
    BY <1>3
  <2>2. a \in Int /\ b \in Int /\ a <= b /\ b <= a + (v - u)
    BY <2>1, RoundedAtLeast, ShareGrows
  <2>3. l = Bounded(a, 1, u - 1) /\ m = Bounded(b, 1, v - 1)
    BY <1>3, <2>1 DEF Share
  <2> HIDE DEF a, b, l, m
  <2>4. l <= m /\ u - l <= v - m
    BY <1>3, <2>1, <2>2, <2>3, BoundedValue
  <2>5. QED
    BY <2>4 DEF l, m
<1>4. CASE ~ (u >= f + s) /\ v >= f + s
  <2> HIDE DEF l, m
  <2>1. l <= m /\ u - l <= v - m
    BY <1>1, <1>4
  <2>2. QED
    BY <2>1 DEF l, m
<1>5. CASE ~ (v >= f + s) /\ ~ (u >= 2)
  <2>1. ~ (u >= f + s) /\ l = u
    BY <1>5 DEF Share
  <2>2. v >= 2 \/ m = v
    BY <1>5 DEF Share
  <2> HIDE DEF l, m
  <2>3. l <= m /\ u - l <= v - m
    BY <1>1, <1>5, <2>1, <2>2
  <2>4. QED
    BY <2>3 DEF l, m
<1>6. QED
  BY <1>2, <1>3, <1>4, <1>5

--------------------------------------------------------------------------------
(* One split. *)

Boxes == [x : Int, y : Int, w : Nat, h : Nat]

LEMMA BoxParts ==
  ASSUME NEW rect \in Boxes
  PROVE  /\ rect.x \in Int /\ rect.y \in Int /\ rect.w \in Nat /\ rect.h \in Nat
         /\ \A axis : Along(axis, rect) \in Nat /\ Start(axis, rect) \in Int
  BY DEF Boxes, Along, Start

LEMMA LengthIsShare ==
  ASSUME NEW t, IsTree(t), Shallow(t), NEW w \in Splits(t), NEW rect \in Boxes
  PROVE  FirstLength(t, w, rect) =
           Share(Usable(t[w], rect), t[w].ratio, FirstMinimum(t, w), SecondMinimum(t, w))
<1>1. FirstMinimum(t, w) \in Nat \ {0} /\ SecondMinimum(t, w) \in Nat \ {0}
  BY HalfMinimums
<1>2. \A f, s \in Nat \ {0} : Max({f + s, 1}) = f + s
  BY MaxOfTwo
<1>3. Max({FirstMinimum(t, w) + SecondMinimum(t, w), 1})
        = FirstMinimum(t, w) + SecondMinimum(t, w)
  BY <1>1, <1>2
<1>4. QED
  BY <1>3 DEF FirstLength, Share

\* The first half gets no more than there is, and what both halves need if there is room.
LEMMA LengthsOf ==
  ASSUME NEW t, IsTree(t), Shallow(t), NEW w \in Splits(t), NEW rect \in Boxes
  PROVE  LET along  == Along(t[w].axis, rect)
             usable == Usable(t[w], rect)
             length == FirstLength(t, w, rect)
             first  == FirstMinimum(t, w)
             second == SecondMinimum(t, w)
         IN  /\ along \in Nat /\ usable \in 0 .. along /\ length \in 0 .. usable
             /\ first \in Nat /\ second \in Nat
             /\ usable = IF Gap <= along THEN along - Gap ELSE 0
             /\ usable >= first + second => length >= first /\ usable - length >= second
<1> DEFINE along  == Along(t[w].axis, rect)
           usable == Usable(t[w], rect)
           length == FirstLength(t, w, rect)
           first  == FirstMinimum(t, w)
           second == SecondMinimum(t, w)
           ratio  == t[w].ratio
<1>1. w \in DOMAIN t /\ t[w].axis \in Axes /\ ratio \in 0 .. Scale
  BY TreeNodes DEF Splits
<1>2. first \in Nat /\ second \in Nat
  BY <1>1, MinimumOf DEF FirstMinimum, SecondMinimum
<1>3. along \in Nat
  BY BoxParts
<1>4. /\ usable = IF Gap <= along THEN along - Gap ELSE 0
      /\ usable \in 0 .. along
  <2>1. Min({Gap, along}) = IF Gap <= along THEN Gap ELSE along
    BY <1>3, MinOfTwo, SizesAssumption
  <2>2. usable = along - Min({Gap, along})
    BY DEF Usable
  <2> HIDE DEF usable, along
  <2>3. QED
    BY <1>3, <2>1, <2>2, SizesAssumption
<1>5. length = Share(usable, ratio, first, second)
  BY LengthIsShare
<1> HIDE DEF along, usable, length, first, second, ratio
<1>6. usable \in Nat /\ first \in Nat \ {0} /\ second \in Nat \ {0}
  BY <1>3, <1>4, HalfMinimums DEF first, second
<1>7. /\ length \in 0 .. usable
      /\ usable >= first + second => length >= first /\ usable - length >= second
  BY <1>1, <1>5, <1>6, ShareBounds
<1>8. QED
  BY <1>2, <1>3, <1>4, <1>7 DEF along, usable, length, first, second

LEMMA StripFields ==
  ASSUME NEW axis \in Axes, NEW rect \in Boxes, NEW o \in Nat, NEW l \in Nat
  PROVE  LET r == Strip(axis, rect, o, l)
         IN  /\ r \in Boxes
             /\ axis = "leftRight" => /\ r.x = rect.x + o /\ r.w = l
                                      /\ r.y = rect.y /\ r.h = rect.h
             /\ axis = "topBottom" => /\ r.x = rect.x /\ r.w = rect.w
                                      /\ r.y = rect.y + o /\ r.h = l
<1>1. rect.x \in Int /\ rect.y \in Int /\ rect.w \in Nat /\ rect.h \in Nat
  BY BoxParts
<1>2. rect.x + o \in Int /\ rect.y + o \in Int
  BY <1>1
<1>3. CASE axis = "leftRight"
  <2>1. Strip(axis, rect, o, l) = [rect EXCEPT !.x = rect.x + o, !.w = l]
    BY <1>3 DEF Strip
  <2>2. QED
    BY <1>2, <1>3, <2>1 DEF Boxes
<1>4. CASE axis = "topBottom"
  <2>1. Strip(axis, rect, o, l) = [rect EXCEPT !.y = rect.y + o, !.h = l]
    BY <1>4 DEF Strip
  <2>2. QED
    BY <1>2, <1>4, <2>1 DEF Boxes
<1>5. QED
  BY <1>3, <1>4 DEF Axes

\* one, gap and other share no pixel and have all those of rect.
Parted(rect, one, gap, other) ==
  \A x, y \in Int :
    /\ Covers(rect, x, y) <=> \/ Covers(one, x, y) \/ Covers(gap, x, y)
                              \/ Covers(other, x, y)
    /\ ~ (Covers(one, x, y) /\ Covers(gap, x, y))
    /\ ~ (Covers(one, x, y) /\ Covers(other, x, y))
    /\ ~ (Covers(gap, x, y) /\ Covers(other, x, y))

\* Three strips one after the other along an axis.
LEMMA StripsOf ==
  ASSUME NEW axis \in Axes, NEW rect \in Boxes,
         NEW l \in Nat, NEW g \in Nat, NEW s \in Nat, l + g + s = Along(axis, rect)
  PROVE  LET one   == Strip(axis, rect, 0, l)
             gap   == Strip(axis, rect, l, g)
             other == Strip(axis, rect, g + l, s)
         IN  /\ one \in Boxes /\ gap \in Boxes /\ other \in Boxes
             /\ Inside(one, rect) /\ Inside(gap, rect) /\ Inside(other, rect)
             /\ Parted(rect, one, gap, other)
             /\ \A a \in Axes :
                  /\ Along(a, one) = IF a = axis THEN l ELSE Along(a, rect)
                  /\ Along(a, other) = IF a = axis THEN s ELSE Along(a, rect)
             /\ Start(axis, gap) = Start(axis, rect) + l
<1> DEFINE one   == Strip(axis, rect, 0, l)
           gap   == Strip(axis, rect, l, g)
           other == Strip(axis, rect, g + l, s)
<1>1. rect.x \in Int /\ rect.y \in Int /\ rect.w \in Nat /\ rect.h \in Nat
  BY BoxParts
<1>2. one \in Boxes /\ gap \in Boxes /\ other \in Boxes
  <2>1. 0 \in Nat /\ g + l \in Nat
    OBVIOUS
  <2>2. QED
    BY <2>1, StripFields
<1>3. CASE axis = "leftRight"
  <2>1. /\ one.x = rect.x /\ one.w = l /\ gap.x = rect.x + l /\ gap.w = g
        /\ other.x = rect.x + (g + l) /\ other.w = s
        /\ one.y = rect.y /\ gap.y = rect.y /\ other.y = rect.y
        /\ one.h = rect.h /\ gap.h = rect.h /\ other.h = rect.h
    <3>1. one.x = rect.x + 0 /\ one.w = l /\ one.y = rect.y /\ one.h = rect.h
      BY <1>3, StripFields
    <3>2. gap.x = rect.x + l /\ gap.w = g /\ gap.y = rect.y /\ gap.h = rect.h
      BY <1>3, StripFields
    <3>3. /\ other.x = rect.x + (g + l) /\ other.w = s
          /\ other.y = rect.y /\ other.h = rect.h
      <4>1. g + l \in Nat
        OBVIOUS
      <4>2. QED
        BY <1>3, <4>1, StripFields
    <3> HIDE DEF one, gap, other
    <3>4. QED
      BY <1>1, <3>1, <3>2, <3>3
  <2>2. l + g + s = rect.w
    BY <1>3 DEF Along
  <2> HIDE DEF one, gap, other
  <2>3. Inside(one, rect) /\ Inside(gap, rect) /\ Inside(other, rect)
    BY <1>1, <2>1, <2>2 DEF Inside, Start, End, Along
  <2>4. Parted(rect, one, gap, other)
    BY <1>1, <2>1, <2>2 DEF Parted, Covers
  <2>5. /\ \A a \in Axes :
             /\ Along(a, one) = IF a = axis THEN l ELSE Along(a, rect)
             /\ Along(a, other) = IF a = axis THEN s ELSE Along(a, rect)
        /\ Start(axis, gap) = Start(axis, rect) + l
    BY <1>3, <2>1 DEF Along, Start
  <2>6. QED
    BY <1>2, <2>3, <2>4, <2>5 DEF one, gap, other
<1>4. CASE axis = "topBottom"
  <2>1. /\ one.y = rect.y /\ one.h = l /\ gap.y = rect.y + l /\ gap.h = g
        /\ other.y = rect.y + (g + l) /\ other.h = s
        /\ one.x = rect.x /\ gap.x = rect.x /\ other.x = rect.x
        /\ one.w = rect.w /\ gap.w = rect.w /\ other.w = rect.w
    <3>1. one.y = rect.y + 0 /\ one.h = l /\ one.x = rect.x /\ one.w = rect.w
      BY <1>4, StripFields
    <3>2. gap.y = rect.y + l /\ gap.h = g /\ gap.x = rect.x /\ gap.w = rect.w
      BY <1>4, StripFields
    <3>3. /\ other.y = rect.y + (g + l) /\ other.h = s
          /\ other.x = rect.x /\ other.w = rect.w
      <4>1. g + l \in Nat
        OBVIOUS
      <4>2. QED
        BY <1>4, <4>1, StripFields
    <3> HIDE DEF one, gap, other
    <3>4. QED
      BY <1>1, <3>1, <3>2, <3>3
  <2>2. l + g + s = rect.h
    BY <1>4 DEF Along
  <2> HIDE DEF one, gap, other
  <2>3. Inside(one, rect) /\ Inside(gap, rect) /\ Inside(other, rect)
    BY <1>1, <2>1, <2>2 DEF Inside, Start, End, Along
  <2>4. Parted(rect, one, gap, other)
    BY <1>1, <2>1, <2>2 DEF Parted, Covers
  <2>5. /\ \A a \in Axes :
             /\ Along(a, one) = IF a = axis THEN l ELSE Along(a, rect)
             /\ Along(a, other) = IF a = axis THEN s ELSE Along(a, rect)
        /\ Start(axis, gap) = Start(axis, rect) + l
    BY <1>4, <2>1 DEF Along, Start, Axes
  <2>6. QED
    BY <1>2, <2>3, <2>4, <2>5 DEF one, gap, other
<1>5. QED
  BY <1>3, <1>4 DEF Axes

\* rect has room for a subtree.
Fits(t, w, rect) == \A axis \in Axes : Along(axis, rect) >= MinimumAlong(t, w, axis)

\* The layout of one split: its parts tile it, and where there is room for it there is
\* room for both halves.
LEMMA SplitLaidOut ==
  ASSUME NEW t, IsTree(t), Shallow(t), NEW w \in Splits(t), NEW rect \in Boxes
  PROVE  LET one   == FirstRect(t, w, rect)
             gap   == DividerRect(t, w, rect)
             other == SecondRect(t, w, rect)
         IN  /\ one \in Boxes /\ gap \in Boxes /\ other \in Boxes
             /\ Inside(one, rect) /\ Inside(gap, rect) /\ Inside(other, rect)
             /\ Parted(rect, one, gap, other)
             /\ Fits(t, w, rect) => Fits(t, First(w), one) /\ Fits(t, Second(w), other)
             /\ Start(t[w].axis, gap) = Start(t[w].axis, rect) + FirstLength(t, w, rect)
<1> DEFINE axis   == t[w].axis
           along  == Along(axis, rect)
           usable == Usable(t[w], rect)
           l      == FirstLength(t, w, rect)
           one    == FirstRect(t, w, rect)
           gap    == DividerRect(t, w, rect)
           other  == SecondRect(t, w, rect)
<1>1. w \in DOMAIN t /\ axis \in Axes
  BY TreeNodes DEF Splits
<1>2. /\ along \in Nat /\ usable \in 0 .. along /\ l \in 0 .. usable
      /\ FirstMinimum(t, w) \in Nat /\ SecondMinimum(t, w) \in Nat
      /\ usable = IF Gap <= along THEN along - Gap ELSE 0
      /\ usable >= FirstMinimum(t, w) + SecondMinimum(t, w)
           => l >= FirstMinimum(t, w) /\ usable - l >= SecondMinimum(t, w)
  BY LengthsOf
<1>3. /\ one = Strip(axis, rect, 0, l)
      /\ gap = Strip(axis, rect, l, along - usable)
      /\ other = Strip(axis, rect, (along - usable) + l, usable - l)
  BY DEF FirstRect, DividerRect, SecondRect
<1> HIDE DEF axis, along, usable, l, one, gap, other
<1>4. /\ l \in Nat /\ along - usable \in Nat /\ usable - l \in Nat
      /\ l + (along - usable) + (usable - l) = along
  BY <1>2
<1>5. /\ one \in Boxes /\ gap \in Boxes /\ other \in Boxes
      /\ Inside(one, rect) /\ Inside(gap, rect) /\ Inside(other, rect)
      /\ Parted(rect, one, gap, other)
      /\ \A a \in Axes :
           /\ Along(a, one) = IF a = axis THEN l ELSE Along(a, rect)
           /\ Along(a, other) = IF a = axis THEN usable - l ELSE Along(a, rect)
      /\ Start(axis, gap) = Start(axis, rect) + l
  BY <1>1, <1>3, <1>4, StripsOf DEF along
<1>6. ASSUME Fits(t, w, rect) PROVE Fits(t, First(w), one) /\ Fits(t, Second(w), other)
  <2> SUFFICES ASSUME NEW a \in Axes
               PROVE  /\ Along(a, one) >= MinimumAlong(t, First(w), a)
                      /\ Along(a, other) >= MinimumAlong(t, Second(w), a)
    BY DEF Fits
  <2> DEFINE m      == MinimumAlong(t, w, a)
             first  == MinimumAlong(t, First(w), a)
             second == MinimumAlong(t, Second(w), a)
  <2>1. /\ m \in Nat /\ first \in Nat /\ second \in Nat
        /\ m = IF axis = a THEN first + Gap + second
               ELSE IF first >= second THEN first ELSE second
    BY <1>1, MinimumOf DEF axis
  <2>2. Along(a, rect) >= m /\ Along(a, rect) \in Nat
    BY <1>6, BoxParts DEF Fits
  <2> HIDE DEF m, first, second
  <2>3. CASE a = axis
    <3>1. first = FirstMinimum(t, w) /\ second = SecondMinimum(t, w)
      BY <2>3 DEF first, second, FirstMinimum, SecondMinimum, axis
    <3>2. usable >= first + second
      BY <1>2, <2>1, <2>2, <2>3, SizesAssumption DEF along
    <3>3. QED
      BY <1>2, <1>5, <2>3, <3>1, <3>2 DEF first, second
  <2>4. CASE a # axis
    BY <1>5, <2>1, <2>2, <2>4 DEF first, second
  <2>5. QED
    BY <2>3, <2>4
<1>7. QED
  BY <1>5, <1>6 DEF axis, l, one, gap, other

\* How long the halves of a split are, along both axes.
LEMMA HalvesAlong ==
  ASSUME NEW t, IsTree(t), Shallow(t), NEW w \in Splits(t), NEW rect \in Boxes, NEW a \in Axes
  PROVE  LET usable == Usable(t[w], rect)
             length == FirstLength(t, w, rect)
         IN  /\ Along(a, FirstRect(t, w, rect)) =
                  IF a = t[w].axis THEN length ELSE Along(a, rect)
             /\ Along(a, SecondRect(t, w, rect)) =
                  IF a = t[w].axis THEN usable - length ELSE Along(a, rect)
<1> DEFINE axis   == t[w].axis
           along  == Along(axis, rect)
           usable == Usable(t[w], rect)
           l      == FirstLength(t, w, rect)
           one    == FirstRect(t, w, rect)
           other  == SecondRect(t, w, rect)
<1>1. w \in DOMAIN t /\ axis \in Axes
  BY TreeNodes DEF Splits
<1>2. along \in Nat /\ usable \in 0 .. along /\ l \in 0 .. usable
  BY LengthsOf
<1>3. /\ one = Strip(axis, rect, 0, l)
      /\ other = Strip(axis, rect, (along - usable) + l, usable - l)
  BY DEF FirstRect, SecondRect
<1> HIDE DEF axis, along, usable, l, one, other
<1>4. /\ l \in Nat /\ along - usable \in Nat /\ usable - l \in Nat
      /\ l + (along - usable) + (usable - l) = along
  BY <1>2
<1>5. /\ Along(a, one) = IF a = axis THEN l ELSE Along(a, rect)
      /\ Along(a, other) = IF a = axis THEN usable - l ELSE Along(a, rect)
  BY <1>1, <1>3, <1>4, StripsOf DEF along
<1>6. QED
  BY <1>5 DEF axis, along, usable, l, one, other

\* Of a longer rectangle neither half is shorter.
LEMMA HalvesGrow ==
  ASSUME NEW t, IsTree(t), Shallow(t), NEW w \in Splits(t), NEW b \in Boxes, NEW c \in Boxes,
         NEW a \in Axes, Along(a, b) <= Along(a, c)
  PROVE  /\ Along(a, FirstRect(t, w, b)) <= Along(a, FirstRect(t, w, c))
         /\ Along(a, SecondRect(t, w, b)) <= Along(a, SecondRect(t, w, c))
<1>1. Along(a, b) \in Nat /\ Along(a, c) \in Nat
  BY BoxParts
<1>2. CASE a # t[w].axis
  BY <1>1, <1>2, HalvesAlong
<1>3. CASE a = t[w].axis
  <2> DEFINE u == Usable(t[w], b)
             v == Usable(t[w], c)
             r == t[w].ratio
             f == FirstMinimum(t, w)
             s == SecondMinimum(t, w)
  <2>1. /\ u = IF Gap <= Along(a, b) THEN Along(a, b) - Gap ELSE 0
        /\ v = IF Gap <= Along(a, c) THEN Along(a, c) - Gap ELSE 0
    BY <1>3, LengthsOf
  <2>2. f \in Nat \ {0} /\ s \in Nat \ {0} /\ r \in 0 .. Scale
    BY HalfMinimums, TreeNodes DEF Splits
  <2>3. /\ Along(a, FirstRect(t, w, b)) = Share(u, r, f, s)
        /\ Along(a, FirstRect(t, w, c)) = Share(v, r, f, s)
        /\ Along(a, SecondRect(t, w, b)) = u - Share(u, r, f, s)
        /\ Along(a, SecondRect(t, w, c)) = v - Share(v, r, f, s)
    BY <1>3, HalvesAlong, LengthIsShare
  <2> HIDE DEF u, v, r, f, s
  <2>4. u \in Nat /\ v \in Nat /\ u <= v
    BY <1>1, <2>1, SizesAssumption
  <2>5. QED
    BY <2>2, <2>3, <2>4, SharesGrow
<1>4. QED
  BY <1>2, <1>3

--------------------------------------------------------------------------------
(* The layout of a tree. *)

LEMMA LayoutOf ==
  ASSUME NEW t, IsTree(t), Shallow(t), NEW rect \in Boxes
  PROVE  LET frames == Layout(t, rect)
         IN  /\ frames[<< >>] = rect
             /\ \A w \in DOMAIN t : frames[w] \in Boxes
             /\ \A w \in Splits(t) : /\ frames[First(w)] = FirstRect(t, w, frames[w])
                                     /\ frames[Second(w)] = SecondRect(t, w, frames[w])
<1> DEFINE body(f, w) ==
             IF w = << >> THEN rect
             ELSE IF Last(w) = "first" THEN FirstRect(t, Front(w), f[Front(w)])
             ELSE SecondRect(t, Front(w), f[Front(w)])
           fixed(f) == f = [w \in DOMAIN t |-> body(f, w)]
           frames == CHOOSE f : fixed(f)
<1>1. Layout(t, rect) = frames
  BY DEF Layout
<1>2. \E f : fixed(f)
  <2> DEFINE half(w, r) == IF w = << >> THEN rect
                           ELSE IF Last(w) = "first" THEN FirstRect(t, Front(w), r)
                           ELSE SecondRect(t, Front(w), r)
             step == [x \in (DOMAIN t) \X Boxes |-> half(x[1], x[2])]
  <2>1. ASSUME NEW w \in DOMAIN t, NEW r \in Boxes PROVE half(w, r) \in Boxes
    <3>1. CASE w # << >>
      <4>1. Front(w) \in Splits(t)
        BY <3>1, TreeSteps
      <4>2. FirstRect(t, Front(w), r) \in Boxes /\ SecondRect(t, Front(w), r) \in Boxes
        BY <4>1, SplitLaidOut
      <4>3. QED
        BY <3>1, <4>2
    <3>2. QED
      BY <3>1
  <2> HIDE DEF half
  <2>2. step \in [(DOMAIN t) \X Boxes -> Boxes]
    BY <2>1
  <2>3. \A w \in DOMAIN t, r \in Boxes : step[<<w, r>>] = half(w, r)
    OBVIOUS
  <2> HIDE DEF step
  <2>4. PICK f \in [DOMAIN t -> Boxes] : DescendedAll(t, rect, step, f)
    BY <2>2, DownwardDefinition
  <2>5. ASSUME NEW w \in DOMAIN t PROVE f[w] = body(f, w)
    <3>1. f[w] = Descended(rect, step, f, w)
      BY <2>4 DEF DescendedAll
    <3>2. CASE w # << >>
      <4>1. f[Front(w)] \in Boxes
        BY <3>2, TreeSteps DEF Splits
      <4>2. f[w] = half(w, f[Front(w)])
        BY <2>3, <3>1, <3>2, <4>1 DEF Descended
      <4>3. QED
        BY <3>2, <4>2 DEF half
    <3>3. QED
      BY <3>1, <3>2 DEF Descended
  <2>6. QED
    BY <2>5
<1>3. fixed(frames)
  BY <1>2
<1> HIDE DEF frames
<1>4. ASSUME NEW w \in DOMAIN t PROVE frames[w] = body(frames, w)
  BY <1>3
<1>5. frames[<< >>] = rect
  BY <1>4 DEF IsTree
<1>6. ASSUME NEW w \in Splits(t)
      PROVE  /\ frames[First(w)] = FirstRect(t, w, frames[w])
             /\ frames[Second(w)] = SecondRect(t, w, frames[w])
  <2>1. /\ First(w) \in DOMAIN t /\ Second(w) \in DOMAIN t /\ w \in Seq(Halves)
    BY TreeSteps DEF Splits
  <2>2. /\ First(w) # << >> /\ Front(First(w)) = w /\ Last(First(w)) = "first"
        /\ Second(w) # << >> /\ Front(Second(w)) = w /\ Last(Second(w)) = "second"
    BY <2>1, Extended DEF First, Second, Halves
  <2>3. QED
    BY <1>4, <2>1, <2>2
<1> DEFINE S == {w \in DOMAIN t : frames[w] \in Boxes}
<1>7. DOMAIN t \subseteq S
  <2>1. << >> \in S
    BY <1>5 DEF IsTree
  <2>2. ASSUME NEW w \in Splits(t), w \in S PROVE First(w) \in S /\ Second(w) \in S
    <3>1. First(w) \in DOMAIN t /\ Second(w) \in DOMAIN t /\ frames[w] \in Boxes
      BY <2>2, TreeSteps
    <3>2. QED
      BY <1>6, <3>1, SplitLaidOut
  <2> HIDE DEF S
  <2>3. QED
    BY <2>1, <2>2, Downward
<1> HIDE DEF body, fixed
<1>8. QED
  BY <1>1, <1>5, <1>6, <1>7

LEMMA InsideTransitive ==
  ASSUME NEW a \in Boxes, NEW b \in Boxes, NEW c \in Boxes, Inside(a, b), Inside(b, c)
  PROVE  Inside(a, c)
<1>1. \A axis \in Axes : /\ Start(axis, a) \in Int /\ End(axis, a) \in Int
                         /\ Start(axis, b) \in Int /\ End(axis, b) \in Int
                         /\ Start(axis, c) \in Int /\ End(axis, c) \in Int
  BY BoxParts DEF End
<1>2. QED
  BY <1>1 DEF Inside

\* Frames lie in the view, and have room where the view has.
LEMMA FramesInside ==
  ASSUME NEW t, IsTree(t), Shallow(t), NEW rect \in Boxes
  PROVE  \A w \in DOMAIN t :
           /\ Inside(Layout(t, rect)[w], rect)
           /\ Fits(t, << >>, rect) => Fits(t, w, Layout(t, rect)[w])
<1> DEFINE frames == Layout(t, rect)
           S == {w \in DOMAIN t : /\ Inside(frames[w], rect)
                                  /\ Fits(t, << >>, rect) => Fits(t, w, frames[w])}
<1>1. << >> \in S
  <2>1. Inside(rect, rect)
    BY BoxParts DEF Inside, End
  <2>2. QED
    BY <2>1, LayoutOf DEF IsTree
<1>2. ASSUME NEW w \in Splits(t), w \in S PROVE First(w) \in S /\ Second(w) \in S
  <2>1. /\ w \in DOMAIN t /\ First(w) \in DOMAIN t /\ Second(w) \in DOMAIN t
        /\ frames[w] \in Boxes /\ frames[First(w)] \in Boxes /\ frames[Second(w)] \in Boxes
        /\ frames[First(w)] = FirstRect(t, w, frames[w])
        /\ frames[Second(w)] = SecondRect(t, w, frames[w])
    BY <1>2, TreeSteps, LayoutOf
  <2>2. /\ Inside(frames[First(w)], frames[w]) /\ Inside(frames[Second(w)], frames[w])
        /\ Fits(t, w, frames[w])
             => Fits(t, First(w), frames[First(w)]) /\ Fits(t, Second(w), frames[Second(w)])
    BY <2>1, SplitLaidOut
  <2>3. /\ Inside(frames[w], rect)
        /\ Fits(t, << >>, rect) => Fits(t, w, frames[w])
    BY <1>2
  <2> HIDE DEF frames
  <2>4. Inside(frames[First(w)], rect) /\ Inside(frames[Second(w)], rect)
    BY <2>1, <2>2, <2>3, InsideTransitive
  <2>5. QED
    BY <2>1, <2>2, <2>3, <2>4
<1> HIDE DEF S
<1>3. DOMAIN t \subseteq S
  BY <1>1, <1>2, Downward
<1>4. QED
  BY <1>3 DEF S

\* The pixel x, y is in what is laid out for a node, in the divider of a split.
InFrame(t, rect, w, x, y) == Covers(Layout(t, rect)[w], x, y)
InDivider(t, rect, w, x, y) == Covers(DividerRect(t, w, Layout(t, rect)[w]), x, y)

\* A pixel of a split is in one of its halves or in its divider, and only in one.
LEMMA PixelOfSplit ==
  ASSUME NEW t, IsTree(t), Shallow(t), NEW rect \in Boxes, NEW x \in Int, NEW y \in Int,
         NEW w \in Splits(t)
  PROVE  /\ InFrame(t, rect, w, x, y) <=> \/ InFrame(t, rect, First(w), x, y)
                                          \/ InDivider(t, rect, w, x, y)
                                          \/ InFrame(t, rect, Second(w), x, y)
         /\ ~ (InFrame(t, rect, First(w), x, y) /\ InDivider(t, rect, w, x, y))
         /\ ~ (InFrame(t, rect, First(w), x, y) /\ InFrame(t, rect, Second(w), x, y))
         /\ ~ (InDivider(t, rect, w, x, y) /\ InFrame(t, rect, Second(w), x, y))
<1> DEFINE frames == Layout(t, rect)
           gap == DividerRect(t, w, frames[w])
<1>1. /\ frames[w] \in Boxes
      /\ frames[First(w)] = FirstRect(t, w, frames[w])
      /\ frames[Second(w)] = SecondRect(t, w, frames[w])
  BY LayoutOf DEF Splits
<1>2. Parted(frames[w], frames[First(w)], gap, frames[Second(w)])
  BY <1>1, SplitLaidOut
<1> HIDE DEF frames, gap
<1>3. QED
  BY <1>2 DEF Parted, InFrame, InDivider, frames, gap

\* Two nodes of one depth share no pixel.
LEMMA OneFrameOfADepth ==
  ASSUME NEW t, IsTree(t), Shallow(t), NEW rect \in Boxes, NEW x \in Int, NEW y \in Int,
         NEW v \in DOMAIN t, NEW w \in DOMAIN t, Len(v) = Len(w),
         InFrame(t, rect, v, x, y), InFrame(t, rect, w, x, y)
  PROVE  v = w
<1> DEFINE In(u) == InFrame(t, rect, u, x, y)
           N == {n \in Nat : \A a, b \in DOMAIN t :
                               Len(a) = n /\ Len(b) = n /\ In(a) /\ In(b) => a = b}
<1> HIDE DEF In
<1>1. 0 \in N
  BY TreeSteps
<1>2. ASSUME NEW n \in N PROVE n + 1 \in N
  <2>1. ASSUME NEW a \in DOMAIN t, NEW b \in DOMAIN t, Len(a) = n + 1, Len(b) = n + 1,
               In(a), In(b)
        PROVE  a = b
    <3>1. a # << >> /\ b # << >>
      BY <2>1, EmptySeq
    <3>2. /\ Front(a) \in Splits(t) /\ Last(a) \in Halves
          /\ a = Append(Front(a), Last(a)) /\ Len(Front(a)) = n
      BY <2>1, <3>1, TreeSteps
    <3>3. /\ Front(b) \in Splits(t) /\ Last(b) \in Halves
          /\ b = Append(Front(b), Last(b)) /\ Len(Front(b)) = n
      BY <2>1, <3>1, TreeSteps
    <3>4. (a = First(Front(a)) \/ a = Second(Front(a)))
            /\ (b = First(Front(b)) \/ b = Second(Front(b)))
      BY <3>2, <3>3 DEF First, Second, Halves
    <3>5. In(Front(a)) /\ In(Front(b))
      BY <2>1, <3>2, <3>3, <3>4, PixelOfSplit DEF In
    <3>6. Front(a) = Front(b)
      BY <3>2, <3>3, <3>5 DEF Splits
    <3>7. ~ (In(First(Front(a))) /\ In(Second(Front(a))))
      BY <3>2, PixelOfSplit DEF In
    <3>8. QED
      BY <2>1, <3>4, <3>6, <3>7
  <2>2. QED
    BY <2>1
<1>3. N = Nat
  BY <1>1, <1>2, Induction
<1>4. Len(v) \in N
  BY <1>3, TreeSteps
<1>5. QED
  BY <1>4 DEF In

\* A pixel of a node is one of a half of every split above it.
LEMMA SplitAbove ==
  ASSUME NEW t, IsTree(t), Shallow(t), NEW rect \in Boxes, NEW x \in Int, NEW y \in Int,
         NEW w \in DOMAIN t, InFrame(t, rect, w, x, y), NEW m \in Nat, m < Len(w)
  PROVE  \E u \in Splits(t) :
           /\ Len(u) = m /\ InFrame(t, rect, u, x, y)
           /\ InFrame(t, rect, First(u), x, y) \/ InFrame(t, rect, Second(u), x, y)
<1> DEFINE In(u) == InFrame(t, rect, u, x, y)
           Above(v, k) == \E u \in Splits(t) :
                            Len(u) = k /\ In(u) /\ (In(First(u)) \/ In(Second(u)))
           S == {v \in DOMAIN t : In(v) => \A k \in Nat : k < Len(v) => Above(v, k)}
<1> HIDE DEF In
<1>1. << >> \in S
  BY TreeSteps DEF IsTree
<1>2. ASSUME NEW v \in Splits(t), v \in S PROVE First(v) \in S /\ Second(v) \in S
  <2>1. ASSUME NEW h \in {First(v), Second(v)}, In(h), NEW k \in Nat, k < Len(h)
        PROVE  Above(h, k)
    <3>1. In(v)
      BY <2>1, PixelOfSplit DEF In
    <3>2. Len(h) = Len(v) + 1 /\ Len(v) \in Nat
      BY TreeSteps DEF Splits
    <3>3. CASE k < Len(v)
      BY <1>2, <3>1, <3>3
    <3>4. CASE k = Len(v)
      BY <2>1, <3>1, <3>4
    <3>5. QED
      BY <2>1, <3>2, <3>3, <3>4
  <2>2. First(v) \in DOMAIN t /\ Second(v) \in DOMAIN t
    BY TreeSteps DEF Splits
  <2>3. QED
    BY <2>1, <2>2
<1>3. DOMAIN t \subseteq S
  <2> HIDE DEF S
  <2>1. QED
    BY <1>1, <1>2, Downward
<1>4. QED
  BY <1>3 DEF In

\* What is drawn for a node.
InTile(t, rect, w, x, y) ==
  IF t[w].kind = "pane" THEN InFrame(t, rect, w, x, y) ELSE InDivider(t, rect, w, x, y)

LEMMA TileInFrame ==
  ASSUME NEW t, IsTree(t), Shallow(t), NEW rect \in Boxes, NEW x \in Int, NEW y \in Int,
         NEW w \in DOMAIN t, InTile(t, rect, w, x, y)
  PROVE  InFrame(t, rect, w, x, y)
  BY PixelOfSplit, TreeNodes DEF InTile

\* No pixel is in two tiles.
LEMMA TilesDisjoint ==
  ASSUME NEW t, IsTree(t), Shallow(t), NEW rect \in Boxes, NEW x \in Int, NEW y \in Int,
         NEW v \in DOMAIN t, NEW w \in DOMAIN t,
         InTile(t, rect, v, x, y), InTile(t, rect, w, x, y)
  PROVE  v = w
<1>1. ASSUME NEW a \in DOMAIN t, NEW b \in DOMAIN t,
             InTile(t, rect, a, x, y), InTile(t, rect, b, x, y), Len(a) < Len(b)
      PROVE  FALSE
  <2>1. Len(a) \in Nat /\ InFrame(t, rect, a, x, y) /\ InFrame(t, rect, b, x, y)
    BY <1>1, TreeSteps, TileInFrame
  <2>2. PICK u \in Splits(t) :
          /\ Len(u) = Len(a) /\ InFrame(t, rect, u, x, y)
          /\ InFrame(t, rect, First(u), x, y) \/ InFrame(t, rect, Second(u), x, y)
    BY <1>1, <2>1, SplitAbove
  <2>3. u = a
    BY <2>1, <2>2, OneFrameOfADepth DEF Splits
  <2>4. ~ InDivider(t, rect, u, x, y)
    BY <2>2, PixelOfSplit
  <2>5. QED
    BY <1>1, <2>3, <2>4, TreeNodes DEF InTile
<1>2. Len(v) \in Nat /\ Len(w) \in Nat
  BY TreeSteps
<1>3. ~ (Len(v) < Len(w)) /\ ~ (Len(w) < Len(v))
  BY <1>1
<1>4. Len(v) = Len(w)
  BY <1>2, <1>3
<1>5. QED
  BY <1>4, TileInFrame, OneFrameOfADepth

\* No pixel is left out.
LEMMA TilesCover ==
  ASSUME NEW t, IsTree(t), Shallow(t), NEW rect \in Boxes, NEW x \in Int, NEW y \in Int,
         Covers(rect, x, y)
  PROVE  \E w \in DOMAIN t : InTile(t, rect, w, x, y)
<1> DEFINE In(u) == InFrame(t, rect, u, x, y)
<1>1. PICK n \in Nat : \A w \in DOMAIN t : Len(w) <= n
  BY DEF Shallow
<1>2. In(<< >>) /\ << >> \in DOMAIN t
  BY LayoutOf DEF InFrame, IsTree
<1> HIDE DEF In
<1> DEFINE K == {k \in Nat : \E w \in DOMAIN t : In(w) /\ Len(w) + k = n}
<1>3. n \in K
  BY <1>2, EmptySeq
<1>4. PICK k \in K : \A j \in K : k <= j
  BY <1>3, Least
<1>5. PICK w \in DOMAIN t : In(w) /\ Len(w) + k = n
  BY <1>4
<1>6. ASSUME NEW u \in DOMAIN t, In(u) PROVE ~ (Len(u) > Len(w))
  <2>1. Len(u) \in Nat /\ Len(w) \in Nat /\ n - Len(u) \in Nat
    BY <1>1, TreeSteps
  <2>2. n - Len(u) \in K
    BY <1>6, <2>1
  <2>3. k <= n - Len(u) /\ k \in Nat
    BY <1>4, <2>2
  <2>4. QED
    BY <1>5, <2>1, <2>3
<1>7. CASE w \in Splits(t)
  <2>1. /\ First(w) \in DOMAIN t /\ Second(w) \in DOMAIN t /\ Len(w) \in Nat
        /\ Len(First(w)) > Len(w) /\ Len(Second(w)) > Len(w)
    BY <1>7, TreeSteps
  <2>2. ~ In(First(w)) /\ ~ In(Second(w))
    BY <1>6, <2>1
  <2>3. InDivider(t, rect, w, x, y)
    BY <1>5, <1>7, <2>2, PixelOfSplit DEF In
  <2>4. QED
    BY <1>7, <2>3, TreeNodes DEF InTile
<1>8. CASE w \notin Splits(t)
  BY <1>5, <1>8, TreeNodes DEF InTile, In
<1>9. QED
  BY <1>7, <1>8

--------------------------------------------------------------------------------
(* What the shape of the state says of the layout. *)

LEMMA ViewIsBox ==
  ASSUME NEW rect \in Rects
  PROVE  rect \in Boxes
  BY SizesAssumption DEF Rects, Boxes

LEMMA TiledAlways ==
  ASSUME IsTree(root), Shallow(root), view \in Rects
  PROVE  Tiled
<1> DEFINE tiles == {<<way, Tile(way)>> : way \in DOMAIN root}
<1>1. view \in Boxes
  BY ViewIsBox
<1>2. ASSUME NEW w \in DOMAIN root
      PROVE  /\ Tile(w) \in Boxes /\ Inside(Tile(w), view)
             /\ \A x, y \in Int : Covers(Tile(w), x, y) <=> InTile(root, view, w, x, y)
  <2>1. Frame(w) \in Boxes /\ Inside(Frame(w), view)
    BY <1>1, LayoutOf, FramesInside DEF Frame
  <2>2. CASE root[w].kind = "pane"
    BY <2>1, <2>2 DEF Tile, InTile, InFrame, Frame
  <2>3. CASE root[w].kind # "pane"
    <3>1. w \in Splits(root)
      BY <2>3, TreeNodes
    <3>2. /\ DividerRect(root, w, Frame(w)) \in Boxes
          /\ Inside(DividerRect(root, w, Frame(w)), Frame(w))
      BY <2>1, <3>1, SplitLaidOut
    <3>3. Inside(DividerRect(root, w, Frame(w)), view)
      BY <1>1, <2>1, <3>2, InsideTransitive
    <3>4. QED
      BY <2>3, <3>2, <3>3 DEF Tile, InTile, InDivider, Frame
  <2>4. QED
    BY <2>2, <2>3
<1>3. \A s \in tiles : Inside(s[2], view) /\ s[2].w >= 0 /\ s[2].h >= 0
  BY <1>2, BoxParts
<1>4. ASSUME NEW x \in view.x .. view.x + view.w - 1, NEW y \in view.y .. view.y + view.h - 1
      PROVE  \E s \in tiles : \A r \in tiles : Covers(r[2], x, y) <=> r = s
  <2>1. /\ view.x \in Int /\ view.y \in Int /\ view.w \in Nat /\ view.h \in Nat
        /\ x \in Int /\ y \in Int
    BY <1>1, BoxParts
  <2>2. Covers(view, x, y)
    BY <2>1 DEF Covers
  <2>3. PICK w \in DOMAIN root : InTile(root, view, w, x, y)
    BY <1>1, <2>1, <2>2, TilesCover
  <2>4. ASSUME NEW v \in DOMAIN root, Covers(Tile(v), x, y) PROVE v = w
    BY <1>1, <1>2, <2>1, <2>3, <2>4, TilesDisjoint
  <2>5. Covers(Tile(w), x, y)
    BY <1>2, <2>1, <2>3
  <2>6. \A r \in tiles : Covers(r[2], x, y) <=> r = <<w, Tile(w)>>
    BY <2>4, <2>5
  <2>7. QED
    BY <2>6
<1>5. QED
  BY <1>3, <1>4 DEF Tiled

\* Where a pane is.
LEMMA WayToPane ==
  ASSUME NEW t, NEW p \in Within(t)
  PROVE  WayTo(t, p) \in Leaves(t) /\ t[WayTo(t, p)].id = p
  BY DEF WayTo, Within

LEMMA MinimumAlways ==
  ASSUME IsTree(root), Shallow(root), view \in Rects
  PROVE  MinimumHonoured
<1> SUFFICES ASSUME Roomy, NEW p \in Within(root)
             PROVE  Frame(WayTo(root, p)).w >= MinWidth /\ Frame(WayTo(root, p)).h >= MinHeight
  BY DEF MinimumHonoured, Frames
<1> DEFINE w == WayTo(root, p)
<1>1. w \in Leaves(root) /\ w \in DOMAIN root
  BY WayToPane DEF Leaves
<1> HIDE DEF w
<1>2. view \in Boxes
  BY ViewIsBox
<1>3. Fits(root, w, Frame(w))
  BY <1>1, <1>2, FramesInside DEF Roomy, Fits, Frame
<1>4. /\ "leftRight" \in Axes /\ "topBottom" \in Axes
      /\ MinimumAlong(root, w, "leftRight") = MinWidth
      /\ MinimumAlong(root, w, "topBottom") = MinHeight
  BY <1>1, MinimumOf DEF Axes, Smallest
<1>5. QED
  BY <1>3, <1>4 DEF Fits, Along, w

--------------------------------------------------------------------------------
(* The panes of a tree. *)

LEMMA BelowIsSplit ==
  ASSUME NEW t, IsTree(t), NEW v \in DOMAIN t, NEW a \in Ways, IsPrefix(a, v), a # v
  PROVE  a \in Splits(t)
<1> DEFINE S == {u \in DOMAIN t : IsPrefix(a, u) /\ a # u => a \in Splits(t)}
<1>1. << >> \in S
  BY PrefixFacts, EmptySeq DEF IsTree, Ways
<1>2. ASSUME NEW u \in Splits(t), u \in S PROVE First(u) \in S /\ Second(u) \in S
  <2>1. u \in Ways /\ First(u) \in DOMAIN t /\ Second(u) \in DOMAIN t
    BY TreeSteps DEF Splits, Ways
  <2>2. /\ IsPrefix(a, First(u)) <=> IsPrefix(a, u) \/ a = First(u)
        /\ IsPrefix(a, Second(u)) <=> IsPrefix(a, u) \/ a = Second(u)
    BY <2>1, PrefixOfAppend DEF First, Second, Halves
  <2>3. QED
    BY <1>2, <2>1, <2>2
<1> HIDE DEF S
<1>3. DOMAIN t \subseteq S
  BY <1>1, <1>2, Downward
<1>4. QED
  BY <1>3 DEF S

\* No pane is in the tree twice.
OncePerPane(t) == \A v, w \in Leaves(t) : t[v].id = t[w].id => v = w

LEMMA PanesOfNode ==
  ASSUME NEW t, IsTree(t), OncePerPane(t), NEW w \in DOMAIN t
  PROVE  /\ w \in Leaves(t) => PanesBelow(t, w) = {t[w].id}
         /\ w \in Splits(t) =>
              /\ PanesBelow(t, w) = PanesBelow(t, First(w)) \union PanesBelow(t, Second(w))
              /\ PanesBelow(t, First(w)) \intersect PanesBelow(t, Second(w)) = {}
         /\ PanesBelow(t, << >>) = Within(t)
<1>1. \A v \in Leaves(t) : v \in Ways /\ v \in DOMAIN t
  BY TreeSteps DEF Leaves, Ways
<1>2. w \in Ways /\ IsPrefix(w, w)
  BY TreeSteps, PrefixFacts DEF Ways
<1>3. ASSUME w \in Leaves(t) PROVE PanesBelow(t, w) = {t[w].id}
  <2>1. \A v \in Leaves(t) : IsPrefix(w, v) <=> v = w
    BY <1>1, <1>2, <1>3, BelowIsSplit DEF Leaves
  <2>2. QED
    BY <1>3, <2>1 DEF PanesBelow
<1>4. ASSUME w \in Splits(t)
      PROVE  /\ PanesBelow(t, w) = PanesBelow(t, First(w)) \union PanesBelow(t, Second(w))
             /\ PanesBelow(t, First(w)) \intersect PanesBelow(t, Second(w)) = {}
  <2>1. \A v \in Leaves(t) :
          /\ IsPrefix(w, v) <=> IsPrefix(First(w), v) \/ IsPrefix(Second(w), v)
          /\ ~ (IsPrefix(First(w), v) /\ IsPrefix(Second(w), v))
    BY <1>1, <1>2, <1>4, PrefixOfHalves DEF Leaves
  <2>2. QED
    BY <2>1 DEF PanesBelow, OncePerPane
<1>5. PanesBelow(t, << >>) = Within(t)
  BY <1>1, PrefixFacts DEF PanesBelow, Within
<1>6. QED
  BY <1>3, <1>4, <1>5

\* A sequence that has just the panes P, each once.
Lists(s, P) ==
  /\ s \in Seq(Panes) /\ P = {s[i] : i \in 1 .. Len(s)}
  /\ \A i, j \in 1 .. Len(s) : s[i] = s[j] => i = j

LEMMA ListsConcat ==
  ASSUME NEW a, NEW b, NEW P, NEW Q, Lists(a, P), Lists(b, Q), P \intersect Q = {}
  PROVE  Lists(a \o b, P \union Q)
<1> DEFINE c == a \o b
           n == Len(a)
           m == Len(b)
<1>1. /\ a \in Seq(Panes) /\ b \in Seq(Panes) /\ n \in Nat /\ m \in Nat
      /\ P = {a[i] : i \in 1 .. n} /\ Q = {b[i] : i \in 1 .. m}
      /\ \A i, j \in 1 .. n : a[i] = a[j] => i = j
      /\ \A i, j \in 1 .. m : b[i] = b[j] => i = j
  BY LenProperties DEF Lists
<1>2. /\ c \in Seq(Panes) /\ Len(c) = n + m
      /\ \A i \in 1 .. n + m : c[i] = IF i <= n THEN a[i] ELSE b[i - n]
  BY <1>1, ConcatProperties
<1> HIDE DEF c, n, m
<1>3. \A i \in 1 .. n + m : i <= n => i \in 1 .. n /\ c[i] = a[i] /\ c[i] \in P
  BY <1>1, <1>2
<1>4. \A i \in 1 .. n + m : ~ (i <= n) => i - n \in 1 .. m /\ c[i] = b[i - n] /\ c[i] \in Q
  BY <1>1, <1>2
<1>5. ASSUME NEW i \in 1 .. n + m, NEW j \in 1 .. n + m, c[i] = c[j] PROVE i = j
  <2>1. CASE i <= n /\ j <= n
    BY <1>1, <1>3, <1>5, <2>1
  <2>2. CASE ~ (i <= n) /\ ~ (j <= n)
    <3>1. i - n = j - n
      BY <1>1, <1>4, <1>5, <2>2
    <3>2. QED
      BY <1>1, <3>1
  <2>3. CASE i <= n /\ ~ (j <= n)
    BY <1>3, <1>4, <1>5, <2>3
  <2>4. CASE ~ (i <= n) /\ j <= n
    BY <1>3, <1>4, <1>5, <2>4
  <2>5. QED
    BY <2>1, <2>2, <2>3, <2>4
<1>6. \A i \in 1 .. n + m : c[i] \in P \union Q
  BY <1>3, <1>4
<1>7. ASSUME NEW p \in P \union Q PROVE \E i \in 1 .. n + m : p = c[i]
  <2>1. CASE p \in P
    <3>1. PICK i \in 1 .. n : p = a[i]
      BY <1>1, <2>1
    <3>2. i \in 1 .. n + m /\ i <= n
      BY <1>1
    <3>3. QED
      BY <1>3, <3>1, <3>2
  <2>2. CASE p \in Q
    <3>1. PICK i \in 1 .. m : p = b[i]
      BY <1>1, <2>2
    <3>2. PICK j \in 1 .. n + m : ~ (j <= n) /\ j - n = i
      <4>1. i + n \in 1 .. n + m /\ ~ (i + n <= n) /\ i + n - n = i
        BY <1>1
      <4>2. n \in Nat /\ m \in Nat /\ i \in Nat
        BY <1>1
      <4>3. QED
        BY <4>1, <4>2
    <3>3. c[j] = b[i]
      BY <1>4, <3>2
    <3>4. QED
      BY <3>1, <3>3
  <2>3. QED
    BY <2>1, <2>2
<1>8. P \union Q = {c[i] : i \in 1 .. n + m}
  BY <1>6, <1>7
<1>9. QED
  BY <1>2, <1>5, <1>8 DEF Lists, c

LEMMA ListsOne ==
  ASSUME NEW p \in Panes
  PROVE  Lists(<<p>>, {p})
<1>1. <<p>> \in Seq(Panes) /\ Len(<<p>>) = 1 /\ <<p>>[1] = p
  OBVIOUS
<1> DEFINE s == <<p>>
<1> HIDE DEF s
<1>2. s \in Seq(Panes) /\ Len(s) = 1 /\ s[1] = p
  BY <1>1 DEF s
<1>3. \A i \in 1 .. Len(s) : i = 1
  BY <1>2
<1>4. Lists(s, {p})
  BY <1>2, <1>3 DEF Lists
<1>5. QED
  BY <1>4 DEF s

\* The panes below each node, as pane_ids puts them in order.
IdsOf(t, ids) ==
  \A w \in DOMAIN t :
    /\ w \in Leaves(t) => ids[w] = <<t[w].id>>
    /\ w \in Splits(t) => ids[w] = ids[First(w)] \o ids[Second(w)]

LEMMA IdsDefined ==
  ASSUME NEW t, IsTree(t), Shallow(t)
  PROVE  \E ids : IdsOf(t, ids) /\ PaneIds(t) = ids[<< >>]
<1> DEFINE body(f, w) ==
             IF t[w].kind = "pane" THEN <<t[w].id>> ELSE f[First(w)] \o f[Second(w)]
           fixed(f) == f = [w \in DOMAIN t |-> body(f, w)]
           ids == CHOOSE f : fixed(f)
<1>1. PaneIds(t) = ids[<< >>]
  BY DEF PaneIds
<1>2. \E f : fixed(f)
  <2> DEFINE one(w) == IF t[w].kind = "pane" THEN <<t[w].id>> ELSE << >>
             base == [w \in DOMAIN t |-> one(w)]
             join == [x \in (DOMAIN t) \X Seq(Panes) \X Seq(Panes) |-> x[2] \o x[3]]
  <2>1. ASSUME NEW w \in DOMAIN t PROVE one(w) \in Seq(Panes)
    <3>1. CASE t[w].kind = "pane"
      <4>1. t[w].id \in Panes
        BY <3>1, TreeNodes
      <4>2. QED
        BY <3>1, <4>1
    <3>2. CASE t[w].kind # "pane"
      BY <3>2, EmptySeq
    <3>3. QED
      BY <3>1, <3>2
  <2> HIDE DEF one
  <2>2. base \in [DOMAIN t -> Seq(Panes)]
    BY <2>1
  <2>3. ASSUME NEW x \in (DOMAIN t) \X Seq(Panes) \X Seq(Panes)
        PROVE  x[2] \o x[3] \in Seq(Panes)
    <3>1. x[2] \in Seq(Panes) /\ x[3] \in Seq(Panes)
      OBVIOUS
    <3>2. QED
      BY <3>1, ConcatProperties
  <2>4. join \in [(DOMAIN t) \X Seq(Panes) \X Seq(Panes) -> Seq(Panes)]
    BY <2>3
  <2>5. \A w \in DOMAIN t, a, b \in Seq(Panes) : join[<<w, a, b>>] = a \o b
    OBVIOUS
  <2>6. \A w \in DOMAIN t : base[w] = one(w)
    OBVIOUS
  <2> HIDE DEF base, join
  <2>7. PICK f \in [DOMAIN t -> Seq(Panes)] : JoinedAll(t, base, join, f)
    BY <2>2, <2>4, UpwardDefinition
  <2>8. ASSUME NEW w \in DOMAIN t PROVE f[w] = body(f, w)
    <3>1. f[w] = Joined(t, base, join, f, w)
      BY <2>7 DEF JoinedAll
    <3>2. CASE t[w].kind = "pane"
      BY <2>6, <3>1, <3>2 DEF Joined, one
    <3>3. CASE t[w].kind # "pane"
      <4>1. First(w) \in DOMAIN t /\ Second(w) \in DOMAIN t
        BY <3>3, TreeNodes, TreeSteps
      <4>2. f[First(w)] \in Seq(Panes) /\ f[Second(w)] \in Seq(Panes)
        BY <4>1
      <4>3. f[w] = f[First(w)] \o f[Second(w)]
        BY <2>5, <3>1, <3>3, <4>2 DEF Joined
      <4>4. QED
        BY <3>3, <4>3
    <3>4. QED
      BY <3>2, <3>3
  <2>9. QED
    BY <2>8
<1>3. fixed(ids)
  BY <1>2
<1> HIDE DEF ids
<1>4. ASSUME NEW w \in DOMAIN t PROVE ids[w] = body(ids, w)
  BY <1>3
<1>5. IdsOf(t, ids)
  BY <1>4, TreeNodes DEF IdsOf
<1>6. QED
  BY <1>1, <1>5

LEMMA IdsList ==
  ASSUME NEW t, IsTree(t), Shallow(t), OncePerPane(t), NEW ids, IdsOf(t, ids),
         NEW v \in DOMAIN t
  PROVE  Lists(ids[v], PanesBelow(t, v))
<1> DEFINE S == {w \in DOMAIN t : Lists(ids[w], PanesBelow(t, w))}
<1>1. ASSUME NEW w \in Leaves(t) PROVE w \in S
  <2>1. w \in DOMAIN t /\ ids[w] = <<t[w].id>> /\ t[w].id \in Panes
          /\ PanesBelow(t, w) = {t[w].id}
    BY TreeNodes, PanesOfNode DEF IdsOf, Leaves
  <2>2. QED
    BY <2>1, ListsOne
<1>2. ASSUME NEW w \in Splits(t), First(w) \in S, Second(w) \in S PROVE w \in S
  <2>1. w \in DOMAIN t /\ ids[w] = ids[First(w)] \o ids[Second(w)]
    BY DEF IdsOf, Splits
  <2>2. /\ PanesBelow(t, w) = PanesBelow(t, First(w)) \union PanesBelow(t, Second(w))
        /\ PanesBelow(t, First(w)) \intersect PanesBelow(t, Second(w)) = {}
    BY <2>1, PanesOfNode
  <2>3. Lists(ids[First(w)], PanesBelow(t, First(w)))
          /\ Lists(ids[Second(w)], PanesBelow(t, Second(w)))
    BY <1>2
  <2>4. Lists(ids[First(w)] \o ids[Second(w)],
              PanesBelow(t, First(w)) \union PanesBelow(t, Second(w)))
    BY <2>2, <2>3, ListsConcat
  <2>5. Lists(ids[w], PanesBelow(t, w))
    BY <2>1, <2>2, <2>4
  <2>6. QED
    BY <2>1, <2>5
<1>3. DOMAIN t \subseteq S
  <2>1. Leaves(t) \subseteq S
    BY <1>1
  <2> HIDE DEF S
  <2>2. QED
    BY <1>2, <2>1, Upward
<1>4. QED
  BY <1>3

LEMMA PaneIdsList ==
  ASSUME NEW t, IsTree(t), Shallow(t), OncePerPane(t)
  PROVE  Lists(PaneIds(t), Within(t))
<1>1. PICK ids : IdsOf(t, ids) /\ PaneIds(t) = ids[<< >>]
  BY IdsDefined
<1>2. << >> \in DOMAIN t /\ PanesBelow(t, << >>) = Within(t)
  BY PanesOfNode DEF IsTree
<1>3. QED
  BY <1>1, <1>2, IdsList

--------------------------------------------------------------------------------
(* What the operations do to a tree. *)

\* A tree that the operations keep: no pane twice, and only so deep.
Sound(t) == IsTree(t) /\ Shallow(t) /\ OncePerPane(t)

LEMMA NewSplit ==
  ASSUME NEW axis \in Axes
  PROVE  Split(axis) \in Nodes /\ Split(axis).kind = "split"
<1>1. Scale \div 2 \in 0 .. Scale
  BY RatioAssumption
<1>2. Split(axis) \in [kind : {"split"}, axis : Axes, ratio : 0 .. Scale]
  BY <1>1 DEF Split
<1>3. QED
  BY <1>2 DEF Nodes, Split

\* s is t with the pane p at w split, and new the second half.
HasSplit(s, t, w, p, axis, new) ==
  /\ w \in Leaves(t) /\ w \in DOMAIN t /\ w \in Ways
  /\ First(w) \in Ways /\ First(w) \notin DOMAIN t
  /\ Second(w) \in Ways /\ Second(w) \notin DOMAIN t
  /\ DOMAIN s = (DOMAIN t) \union {First(w), Second(w)}
  /\ s[w] = Split(axis) /\ s[First(w)] = Leaf(p) /\ s[Second(w)] = Leaf(new)
  /\ \A v \in DOMAIN t : v # w => s[v] = t[v]

LEMMA SplitNodes ==
  ASSUME NEW t, IsTree(t), NEW p \in Within(t), NEW axis \in Axes, NEW new \in Panes
  PROVE  HasSplit(SplitAt(t, p, axis, new), t, WayTo(t, p), p, axis, new)
<1> DEFINE w == WayTo(t, p)
           s == SplitAt(t, p, axis, new)
<1>1. w \in Leaves(t) /\ w \in DOMAIN t /\ w \in Ways
  BY WayToPane, TreeSteps DEF Leaves, Ways
<1>2. s = [v \in (DOMAIN t) \union {First(w), Second(w)} |->
             CASE v = w         -> Split(axis)
               [] v = First(w)  -> Leaf(p)
               [] v = Second(w) -> Leaf(new)
               [] OTHER         -> t[v]]
  BY DEF SplitAt
<1> HIDE DEF w, s
<1>3. /\ First(w) \in Ways /\ Second(w) \in Ways /\ First(w) # << >> /\ Second(w) # << >>
      /\ Front(First(w)) = w /\ Front(Second(w)) = w
  BY <1>1, Extended DEF First, Second, Halves, Ways
<1>4. First(w) \notin DOMAIN t /\ Second(w) \notin DOMAIN t
  BY <1>1, <1>3 DEF IsTree, Leaves
<1>5. w # First(w) /\ w # Second(w) /\ First(w) # Second(w)
  BY <1>1, <1>4, PrefixOfHalves
<1>6. DOMAIN s = (DOMAIN t) \union {First(w), Second(w)}
  BY <1>1, <1>2
<1>7. s[w] = Split(axis) /\ s[First(w)] = Leaf(p) /\ s[Second(w)] = Leaf(new)
  BY <1>1, <1>2, <1>5
<1>8. ASSUME NEW v \in DOMAIN t, v # w PROVE s[v] = t[v]
  BY <1>2, <1>4, <1>8
<1>9. QED
  BY <1>1, <1>3, <1>4, <1>6, <1>7, <1>8 DEF HasSplit, w, s

LEMMA SplitKeeps ==
  ASSUME NEW t, Sound(t), NEW p \in Within(t), NEW axis \in Axes,
         NEW new \in Panes \ Within(t)
  PROVE  /\ Sound(SplitAt(t, p, axis, new))
         /\ Within(SplitAt(t, p, axis, new)) = Within(t) \union {new}
<1> DEFINE w == WayTo(t, p)
           s == SplitAt(t, p, axis, new)
<1>1. IsTree(t) /\ Shallow(t) /\ OncePerPane(t) /\ t[w].id = p
  BY WayToPane DEF Sound
<1>2. HasSplit(s, t, w, p, axis, new)
  BY <1>1, SplitNodes
<1> HIDE DEF w, s
<1> USE DEF HasSplit
<1>3. /\ First(w) # << >> /\ Second(w) # << >> /\ Front(First(w)) = w /\ Front(Second(w)) = w
      /\ Len(First(w)) = Len(w) + 1 /\ Len(Second(w)) = Len(w) + 1
      /\ First(w) # Second(w)
  <2>1. First(w) # Second(w)
    BY <1>2, PrefixOfHalves
  <2>2. QED
    BY <1>2, <2>1, Extended DEF First, Second, Halves, Ways
<1>4. Splits(s) = Splits(t) \union {w} /\ w \notin Splits(t)
  BY <1>2, NewSplit DEF Splits, Leaves, Leaf
<1>5. Leaves(s) = (Leaves(t) \ {w}) \union {First(w), Second(w)}
  BY <1>2, <1>4 DEF Leaves, Splits
<1>6. p \in Panes
  BY <1>1, <1>2, TreeNodes
<1>7. IsTree(s)
  <2>1. << >> \in DOMAIN s
    BY <1>1, <1>2 DEF IsTree
  <2>2. ASSUME NEW v \in DOMAIN s PROVE v \in Seq(Halves) /\ s[v] \in Nodes
    <3>1. Leaf(p) \in Nodes /\ Leaf(new) \in Nodes /\ Split(axis) \in Nodes
      BY <1>6, NewSplit DEF Nodes
    <3>2. CASE v \in DOMAIN t
      BY <1>1, <1>2, <3>1, <3>2 DEF IsTree
    <3>3. QED
      BY <1>2, <3>1, <3>2 DEF Ways
  <2>3. ASSUME NEW v \in DOMAIN s, v # << >> PROVE Front(v) \in Splits(s)
    <3>1. CASE v \in DOMAIN t
      BY <1>1, <1>4, <2>3, <3>1 DEF IsTree
    <3>2. QED
      BY <1>2, <1>3, <1>4, <3>1
  <2>4. ASSUME NEW v \in Splits(s) PROVE First(v) \in DOMAIN s /\ Second(v) \in DOMAIN s
    BY <1>1, <1>2, <1>4 DEF IsTree
  <2>5. QED
    BY <2>1, <2>2, <2>3, <2>4 DEF IsTree
<1>8. Shallow(s)
  <2>1. PICK n \in Nat : \A v \in DOMAIN t : Len(v) <= n
    BY <1>1 DEF Shallow
  <2>2. \A v \in DOMAIN s : Len(v) <= n + 1
    <3>1. \A v \in DOMAIN t : Len(v) \in Nat
      BY <1>1, TreeSteps
    <3>2. QED
      BY <1>2, <1>3, <2>1, <3>1
  <2>3. QED
    BY <2>1, <2>2 DEF Shallow
<1>9. \A v \in Leaves(t) \ {w} : s[v] = t[v] /\ t[v].id # p /\ t[v].id # new
  BY <1>1, <1>2 DEF OncePerPane, Within, Leaves
<1>10. s[First(w)].id = p /\ s[Second(w)].id = new /\ p # new
  BY <1>2 DEF Leaf
<1>11. OncePerPane(s)
  BY <1>1, <1>5, <1>9, <1>10 DEF OncePerPane
<1>12. Within(s) = Within(t) \union {new}
  <2>1. \A v \in Leaves(s) : s[v].id \in Within(t) \union {new}
    BY <1>5, <1>9, <1>10 DEF Within
  <2>2. ASSUME NEW q \in Within(t) PROVE \E v \in Leaves(s) : s[v].id = q
    <3>1. PICK v \in Leaves(t) : t[v].id = q
      BY DEF Within
    <3>2. CASE v = w
      BY <1>1, <1>5, <1>10, <3>1, <3>2
    <3>3. CASE v # w
      BY <1>5, <1>9, <3>1, <3>3
    <3>4. QED
      BY <3>2, <3>3
  <2>3. \E v \in Leaves(s) : s[v].id = new
    BY <1>5, <1>10
  <2>4. QED
    BY <2>1, <2>2, <2>3 DEF Within
<1>13. QED
  BY <1>7, <1>8, <1>11, <1>12 DEF Sound, s

\* The ways that are left when other, a half of split, takes its place.
Kept(t, split, other) == {v \in DOMAIN t : IsPrefix(split, v) => IsPrefix(other, v)}

IsHalf(t, split, other) ==
  /\ split \in Splits(t) /\ split \in DOMAIN t /\ split \in Ways
  /\ other \in DOMAIN t /\ other \in Ways
  /\ other = First(split) \/ other = Second(split)

LEMMA MovedAlong ==
  ASSUME NEW a \in Ways, NEW b \in Ways, NEW r \in Ways
  PROVE  Moved(a, b, a \o r) = b \o r
  BY PrefixOfConcat DEF Moved

LEMMA HalfOf ==
  ASSUME NEW t, NEW split, NEW other, IsHalf(t, split, other)
  PROVE  /\ IsPrefix(split, other) /\ ~ IsPrefix(other, split)
         /\ Len(split) \in Nat /\ Len(other) = Len(split) + 1
         /\ other # << >> /\ Front(other) = split
  BY Extended, LenProperties, PrefixOfHalves, PrefixFacts
     DEF IsHalf, First, Second, Halves, Ways

LEMMA KeptCases ==
  ASSUME NEW t, IsTree(t), NEW split, NEW other, IsHalf(t, split, other),
         NEW u \in Kept(t, split, other)
  PROVE  /\ u \in DOMAIN t /\ u \in Ways
         /\ \/ ~ IsPrefix(split, u) /\ ~ IsPrefix(other, u) /\ Moved(other, split, u) = u
            \/ \E r \in Ways : u = other \o r /\ Moved(other, split, u) = split \o r
<1>1. u \in DOMAIN t /\ u \in Ways
  BY TreeSteps DEF Kept, Ways
<1>2. CASE IsPrefix(other, u)
  <2>1. PICK r \in Ways : u = other \o r
    BY <1>1, <1>2, PrefixRest DEF IsHalf
  <2>2. Moved(other, split, u) = split \o r
    BY <2>1, MovedAlong DEF IsHalf
  <2>3. QED
    BY <1>1, <2>1, <2>2
<1>3. CASE ~ IsPrefix(other, u)
  <2>1. ~ IsPrefix(split, u)
    BY <1>3 DEF Kept
  <2>2. QED
    BY <1>1, <1>3, <2>1 DEF Moved
<1>4. QED
  BY <1>2, <1>3

\* Moving a way and moving it back.
LEMMA KeptMoved ==
  ASSUME NEW t, IsTree(t), NEW split, NEW other, IsHalf(t, split, other),
         NEW u \in Kept(t, split, other)
  PROVE  /\ Moved(other, split, u) \in Ways
         /\ Moved(split, other, Moved(other, split, u)) = u
         /\ Len(Moved(other, split, u)) <= Len(u)
<1>1. u \in Ways /\ Len(u) \in Nat /\ split \in Ways /\ other \in Ways
  BY TreeSteps DEF Kept, Ways, IsHalf
<1>2. CASE ~ IsPrefix(other, u)
  <2>1. ~ IsPrefix(split, u)
    BY <1>2 DEF Kept
  <2>2. Moved(other, split, u) = u /\ Moved(split, other, u) = u
    BY <1>2, <2>1 DEF Moved
  <2>3. QED
    BY <1>1, <2>2
<1>3. CASE IsPrefix(other, u)
  <2>1. PICK r \in Ways : u = other \o r
    BY <1>1, <1>3, PrefixRest
  <2>2. /\ Moved(other, split, other \o r) = split \o r
        /\ Moved(split, other, split \o r) = other \o r
    BY <1>1, MovedAlong
  <2>3. split \o r \in Ways
    BY <1>1, PrefixOfConcat
  <2>4. Len(split \o r) = Len(split) + Len(r) /\ Len(other \o r) = Len(other) + Len(r)
        /\ Len(r) \in Nat
    BY <1>1, ConcatProperties, LenProperties DEF Ways
  <2>5. QED
    BY <2>1, <2>2, <2>3, <2>4, HalfOf
<1>4. QED
  BY <1>2, <1>3

\* The split of what is left, and the halves.
LEMMA KeptBefore ==
  ASSUME NEW t, IsTree(t), NEW split, NEW other, IsHalf(t, split, other),
         NEW u \in Kept(t, split, other), Moved(other, split, u) # << >>
  PROVE  \E v \in Kept(t, split, other) :
           v \in Splits(t) /\ Front(Moved(other, split, u)) = Moved(other, split, v)
<1>1. u \in DOMAIN t /\ u \in Ways
  BY KeptCases
<1>2. CASE ~ IsPrefix(split, u) /\ Moved(other, split, u) = u
  <2>1. /\ Front(u) \in Splits(t) /\ Front(u) \in DOMAIN t /\ Last(u) \in Halves
        /\ u = Append(Front(u), Last(u)) /\ Front(u) \in Ways
    BY <1>1, <1>2, TreeSteps DEF Splits, Ways
  <2>2. ~ IsPrefix(split, Front(u))
    <3>1. IsPrefix(split, Append(Front(u), Last(u)))
            <=> IsPrefix(split, Front(u)) \/ split = Append(Front(u), Last(u))
      BY <2>1, PrefixOfAppend DEF IsHalf
    <3>2. QED
      BY <1>2, <2>1, <3>1
  <2>3. Front(u) \in Kept(t, split, other)
    BY <2>1, <2>2 DEF Kept
  <2>4. ~ IsPrefix(other, Front(u))
    BY <2>1, <2>2, HalfOf, PrefixFacts DEF IsHalf
  <2>5. Moved(other, split, Front(u)) = Front(u)
    BY <2>4 DEF Moved
  <2>6. QED
    BY <1>2, <2>1, <2>3, <2>5
<1>3. CASE \E r \in Ways : u = other \o r /\ Moved(other, split, u) = split \o r
  <2>1. PICK r \in Ways : u = other \o r /\ Moved(other, split, u) = split \o r
    BY <1>3
  <2>2. CASE r = << >>
    <3>1. Moved(other, split, u) = split /\ split # << >>
      BY <2>1, <2>2, ConcatEmptySeq DEF IsHalf, Ways
    <3>2. /\ Front(split) \in Splits(t) /\ Front(split) \in DOMAIN t /\ Front(split) \in Ways
          /\ Len(split) = Len(Front(split)) + 1 /\ Len(Front(split)) \in Nat
      BY <3>1, TreeSteps DEF Splits, Ways, IsHalf
    <3>3. ~ IsPrefix(split, Front(split)) /\ ~ IsPrefix(other, Front(split))
      BY <3>2, HalfOf, PrefixFacts DEF IsHalf
    <3>4. Front(split) \in Kept(t, split, other)
          /\ Moved(other, split, Front(split)) = Front(split)
      BY <3>2, <3>3 DEF Kept, Moved
    <3>5. QED
      BY <3>1, <3>2, <3>4
  <2>3. CASE r # << >>
    <3>1. PICK s \in Ways, h \in Halves : r = Append(s, h)
      BY <2>3, SequenceEmptyOrAppend DEF Ways
    <3>2. /\ u = Append(other \o s, h) /\ Moved(other, split, u) = Append(split \o s, h)
          /\ other \o s \in Ways /\ split \o s \in Ways /\ IsPrefix(other, other \o s)
      <4>1. other \in Ways /\ split \in Ways
        BY DEF IsHalf
      <4>2. \A a \in Ways : a \o r = Append(a \o s, h)
        BY <3>1, ConcatAppend
      <4>3. \A a \in Ways : a \o s \in Ways /\ IsPrefix(a, a \o s)
        BY PrefixOfConcat
      <4>4. QED
        BY <2>1, <4>1, <4>2, <4>3
    <3>3. Front(u) = other \o s /\ Front(Moved(other, split, u)) = split \o s /\ u # << >>
      BY <3>2, Extended DEF Ways
    <3>4. Front(u) \in Splits(t) /\ Front(u) \in DOMAIN t
      BY <1>1, <3>3, TreeSteps DEF Splits
    <3>5. Front(u) \in Kept(t, split, other)
      BY <3>2, <3>3, <3>4 DEF Kept
    <3>6. Moved(other, split, other \o s) = split \o s
      BY MovedAlong DEF IsHalf
    <3>7. QED
      BY <3>3, <3>4, <3>5, <3>6
  <2>4. QED
    BY <2>2, <2>3
<1>4. QED
  BY <1>2, <1>3, KeptCases

LEMMA KeptOther ==
  ASSUME NEW t, NEW split, NEW other, IsHalf(t, split, other)
  PROVE  /\ other \in Kept(t, split, other) /\ Moved(other, split, other) = split
         /\ split \notin Kept(t, split, other)
<1>1. << >> \in Ways /\ other \o << >> = other /\ split \o << >> = split
  BY EmptySeq, ConcatEmptySeq DEF Ways, IsHalf
<1>2. IsPrefix(other, other) /\ IsPrefix(split, split) /\ ~ IsPrefix(other, split)
  BY PrefixFacts, HalfOf DEF IsHalf
<1>3. Moved(other, split, other \o << >>) = split \o << >>
  BY <1>1, MovedAlong DEF IsHalf
<1>4. QED
  BY <1>1, <1>2, <1>3 DEF Kept, IsHalf

LEMMA KeptAfter ==
  ASSUME NEW t, IsTree(t), NEW split, NEW other, IsHalf(t, split, other),
         NEW u \in Kept(t, split, other), u \in Splits(t), NEW h \in Halves
  PROVE  \/ /\ Append(u, h) \in Kept(t, split, other)
            /\ Append(Moved(other, split, u), h) = Moved(other, split, Append(u, h))
         \/ Append(u, h) = split /\ Append(Moved(other, split, u), h) = split
<1>1. u \in DOMAIN t /\ u \in Ways /\ Append(u, h) \in DOMAIN t /\ Append(u, h) \in Ways
  <2>1. u \in DOMAIN t /\ u \in Ways
    BY KeptCases
  <2>2. Append(u, h) \in DOMAIN t
    BY <2>1, TreeSteps DEF First, Second, Halves
  <2>3. QED
    BY <2>1, <2>2, TreeSteps DEF Ways
<1>2. CASE ~ IsPrefix(split, u) /\ ~ IsPrefix(other, u) /\ Moved(other, split, u) = u
  <2>1. IsPrefix(split, Append(u, h)) <=> split = Append(u, h)
    BY <1>1, <1>2, PrefixOfAppend DEF IsHalf
  <2>2. ASSUME split # Append(u, h)
        PROVE  /\ Append(u, h) \in Kept(t, split, other)
               /\ Moved(other, split, Append(u, h)) = Append(u, h)
    <3>1. ~ IsPrefix(split, Append(u, h))
      BY <2>1, <2>2
    <3>2. ~ IsPrefix(other, Append(u, h))
      BY <1>1, <3>1, HalfOf, PrefixFacts DEF IsHalf
    <3>3. QED
      BY <1>1, <3>1, <3>2 DEF Kept, Moved
  <2>3. QED
    BY <1>2, <2>2
<1>3. CASE \E r \in Ways : u = other \o r /\ Moved(other, split, u) = split \o r
  <2>1. PICK r \in Ways : u = other \o r /\ Moved(other, split, u) = split \o r
    BY <1>3
  <2>2. /\ Append(u, h) = other \o Append(r, h) /\ Append(r, h) \in Ways
        /\ Append(split \o r, h) = split \o Append(r, h)
    BY <2>1, ConcatAppend DEF IsHalf
  <2>3. Moved(other, split, Append(u, h)) = split \o Append(r, h)
    <3>1. \A q \in Ways : Moved(other, split, other \o q) = split \o q
      BY MovedAlong DEF IsHalf
    <3>2. QED
      BY <2>2, <3>1
  <2>4. IsPrefix(other, Append(u, h))
    BY <2>2, PrefixOfConcat DEF IsHalf
  <2>5. Append(u, h) \in Kept(t, split, other)
    BY <1>1, <2>4 DEF Kept
  <2>6. QED
    BY <2>1, <2>2, <2>3, <2>5
<1>4. \/ ~ IsPrefix(split, u) /\ ~ IsPrefix(other, u) /\ Moved(other, split, u) = u
      \/ \E r \in Ways : u = other \o r /\ Moved(other, split, u) = split \o r
  BY KeptCases
<1>5. QED
  BY <1>2, <1>3, <1>4

\* s is t without the pane at w, the half of split that is not other.
HasMerged(s, t, w, split, other) ==
  /\ IsHalf(t, split, other)
  /\ w \in Leaves(t) /\ w \in DOMAIN t /\ w \in Ways
  /\ w = First(split) \/ w = Second(split)
  /\ w # other
  /\ DOMAIN s = {Moved(other, split, u) : u \in Kept(t, split, other)}
  /\ \A u \in Kept(t, split, other) : s[Moved(other, split, u)] = t[u]

LEMMA WithoutNodes ==
  ASSUME NEW t, IsTree(t), NEW p \in Within(t), WayTo(t, p) # << >>
  PROVE  \E split, other : HasMerged(Without(t, p), t, WayTo(t, p), split, other)
<1> DEFINE w == WayTo(t, p)
           split == Front(w)
           other == CHOOSE half \in {First(split), Second(split)} : half # w
           kept == {v \in DOMAIN t : IsPrefix(split, v) => IsPrefix(other, v)}
           s == Without(t, p)
<1>1. w \in Leaves(t) /\ w \in DOMAIN t /\ w \in Ways /\ w # << >>
  BY WayToPane, TreeSteps DEF Leaves, Ways
<1>2. s = [v \in {Moved(other, split, u) : u \in kept} |-> t[Moved(split, other, v)]]
  BY DEF Without
<1> HIDE DEF w, s
<1>3. /\ split \in Splits(t) /\ split \in DOMAIN t /\ split \in Ways
      /\ w = First(split) \/ w = Second(split)
      /\ First(split) \in DOMAIN t /\ Second(split) \in DOMAIN t
      /\ First(split) \in Ways /\ Second(split) \in Ways
  <2>1. split \in Splits(t) /\ split \in DOMAIN t /\ split \in Ways
    BY <1>1, TreeSteps DEF Splits, Ways
  <2>2. w = First(split) \/ w = Second(split)
    BY <1>1, TreeSteps DEF First, Second, Halves
  <2>3. First(split) \in DOMAIN t /\ Second(split) \in DOMAIN t
    BY <2>1, TreeSteps
  <2>4. QED
    BY <2>1, <2>2, <2>3, TreeSteps DEF Ways
<1>4. First(split) # Second(split)
  BY <1>3, PrefixOfHalves
<1>5. other \in {First(split), Second(split)} /\ other # w
  BY <1>3, <1>4
<1> HIDE DEF other, split
<1>6. IsHalf(t, split, other)
  BY <1>3, <1>5 DEF IsHalf
<1>7. kept = Kept(t, split, other)
  BY DEF Kept
<1> HIDE DEF kept
<1>8. ASSUME NEW u \in Kept(t, split, other) PROVE s[Moved(other, split, u)] = t[u]
  <2>1. Moved(split, other, Moved(other, split, u)) = u
    BY <1>6, KeptMoved
  <2>2. Moved(other, split, u) \in {Moved(other, split, v) : v \in kept}
    BY <1>7
  <2>3. s[Moved(other, split, u)] = t[Moved(split, other, Moved(other, split, u))]
    BY <1>2, <2>2
  <2>4. QED
    BY <2>1, <2>3
<1>9. DOMAIN s = {Moved(other, split, u) : u \in Kept(t, split, other)}
  BY <1>2, <1>7
<1>10. HasMerged(s, t, w, split, other)
  BY <1>1, <1>3, <1>5, <1>6, <1>8, <1>9 DEF HasMerged
<1>11. QED
  BY <1>10 DEF s, w

LEMMA WithoutKeeps ==
  ASSUME NEW t, Sound(t), NEW p \in Within(t), WayTo(t, p) # << >>
  PROVE  Sound(Without(t, p)) /\ Within(Without(t, p)) = Within(t) \ {p}
<1> DEFINE w == WayTo(t, p)
           s == Without(t, p)
<1>1. IsTree(t) /\ Shallow(t) /\ OncePerPane(t) /\ t[w].id = p
  BY WayToPane DEF Sound
<1>2. PICK split, other : HasMerged(s, t, w, split, other)
  BY <1>1, WithoutNodes
<1> HIDE DEF w, s
<1> DEFINE K == Kept(t, split, other)
           up(u) == Moved(other, split, u)
<1>3. /\ IsHalf(t, split, other)
      /\ w \in Leaves(t) /\ w \in DOMAIN t /\ w \in Ways
      /\ w = First(split) \/ w = Second(split)
      /\ w # other
      /\ DOMAIN s = {up(u) : u \in K}
      /\ \A u \in K : s[up(u)] = t[u]
  BY <1>2 DEF HasMerged
<1>4. /\ \A u \in K : u \in DOMAIN t /\ up(u) \in Ways /\ Len(up(u)) <= Len(u)
      /\ \A u, v \in K : up(u) = up(v) => u = v
  BY <1>1, <1>3, KeptCases, KeptMoved
<1>5. \A u \in K : up(u) # << >> => \E v \in K : v \in Splits(t) /\ Front(up(u)) = up(v)
  BY <1>1, <1>3, KeptBefore
<1>6. \A u \in K : u \in Splits(t) =>
        \A h \in Halves : \E v \in K : Append(up(u), h) = up(v)
  <2>1. other \in K /\ up(other) = split
    BY <1>3, KeptOther
  <2>2. ASSUME NEW u \in K, u \in Splits(t), NEW h \in Halves
        PROVE  \E v \in K : Append(up(u), h) = up(v)
    <3>1. \/ Append(u, h) \in K /\ Append(up(u), h) = up(Append(u, h))
          \/ Append(up(u), h) = split
      BY <1>1, <1>3, <2>2, KeptAfter
    <3> HIDE DEF K, up
    <3>2. QED
      BY <2>1, <3>1
  <2>3. QED
    BY <2>2
<1>7. << >> \in DOMAIN s
  <2>1. CASE split = << >>
    <3>1. other \in K /\ up(other) = split
      BY <1>3, KeptOther
    <3> HIDE DEF K, up
    <3>2. QED
      BY <1>3, <2>1, <3>1
  <2>2. CASE split # << >>
    <3>1. ~ IsPrefix(split, << >>) /\ ~ IsPrefix(other, << >>) /\ << >> \in DOMAIN t
      BY <1>1, <1>3, <2>2, PrefixFacts, HalfOf DEF IsTree, IsHalf
    <3>2. << >> \in K /\ up(<< >>) = << >>
      BY <3>1 DEF Kept, Moved
    <3>3. QED
      BY <1>3, <3>2
  <2>3. QED
    BY <2>1, <2>2
<1>8. \A v \in Leaves(t) : v \in K <=> v # w
  <2>1. ASSUME NEW v \in Leaves(t), v # w PROVE v \in K
    <3>1. v \in DOMAIN t /\ v \in Ways
      BY <1>1, TreeSteps DEF Leaves, Ways
    <3>2. ~ IsPrefix(w, v)
      BY <1>1, <1>3, <2>1, <3>1, BelowIsSplit DEF Leaves
    <3>3. v # split
      BY <1>3 DEF IsHalf, Leaves
    <3>4. IsPrefix(split, v) => IsPrefix(other, v)
      BY <1>3, <3>1, <3>2, <3>3, PrefixOfHalves DEF IsHalf
    <3>5. QED
      BY <3>1, <3>4 DEF Kept
  <2>2. w \notin K
    <3>1. IsPrefix(split, w) /\ IsPrefix(w, w)
      BY <1>3, PrefixOfHalves, PrefixFacts DEF IsHalf
    <3>2. ~ IsPrefix(other, w)
      BY <1>3, <3>1, PrefixOfHalves DEF IsHalf
    <3>3. QED
      BY <3>1, <3>2 DEF Kept
  <2>3. QED
    BY <2>1, <2>2
<1> HIDE DEF K, up
<1>9. Splits(s) = {up(u) : u \in K \intersect Splits(t)}
  BY <1>3, <1>4 DEF Splits
<1>10. Leaves(s) = {up(u) : u \in Leaves(t) \ {w}}
  BY <1>3, <1>4, <1>8, <1>9 DEF Leaves
<1>11. IsTree(s)
  <2>1. ASSUME NEW v \in DOMAIN s PROVE v \in Seq(Halves) /\ s[v] \in Nodes
    BY <1>1, <1>3, <1>4 DEF IsTree, Ways
  <2>2. ASSUME NEW v \in DOMAIN s, v # << >> PROVE Front(v) \in Splits(s)
    BY <1>3, <1>5, <1>9, <2>2
  <2>3. ASSUME NEW v \in Splits(s) PROVE First(v) \in DOMAIN s /\ Second(v) \in DOMAIN s
    BY <1>3, <1>6, <1>9 DEF First, Second, Halves
  <2>4. QED
    BY <1>7, <2>1, <2>2, <2>3 DEF IsTree
<1>12. Shallow(s)
  <2>1. PICK n \in Nat : \A v \in DOMAIN t : Len(v) <= n
    BY <1>1 DEF Shallow
  <2>2. ASSUME NEW u \in K PROVE Len(up(u)) <= n
    <3>1. Len(up(u)) <= Len(u) /\ Len(u) <= n
      BY <1>4, <2>1
    <3>2. Len(up(u)) \in Nat /\ Len(u) \in Nat
      BY <1>1, <1>4, TreeSteps, LenProperties DEF Ways
    <3>3. QED
      BY <3>1, <3>2
  <2>3. \A v \in DOMAIN s : Len(v) <= n
    BY <1>3, <2>2
  <2>4. QED
    BY <2>3 DEF Shallow
<1>13. \A u \in Leaves(t) \ {w} : s[up(u)] = t[u]
  BY <1>3, <1>8
<1>14. OncePerPane(s)
  BY <1>1, <1>10, <1>13 DEF OncePerPane
<1>15. Within(s) = Within(t) \ {p}
  <2>1. Within(s) = {t[u].id : u \in Leaves(t) \ {w}}
    BY <1>10, <1>13 DEF Within
  <2>2. \A u \in Leaves(t) \ {w} : t[u].id # p
    BY <1>1, <1>3 DEF OncePerPane
  <2>3. Within(t) = {t[u].id : u \in Leaves(t)}
    BY DEF Within
  <2>4. t[w].id = p
    BY <1>1
  <2>5. QED
    BY <2>1, <2>2, <2>3, <2>4
<1>16. QED
  BY <1>11, <1>12, <1>14, <1>15 DEF Sound, s

LEMMA SwapKeeps ==
  ASSUME NEW t, Sound(t), NEW p \in Within(t), NEW q \in Within(t), p # q
  PROVE  Sound(Swapped(t, p, q)) /\ Within(Swapped(t, p, q)) = Within(t)
<1> DEFINE s == Swapped(t, p, q)
           other(x) == IF x = p THEN q ELSE IF x = q THEN p ELSE x
<1>1. IsTree(t) /\ Shallow(t) /\ OncePerPane(t)
  BY DEF Sound
<1>2. DOMAIN s = DOMAIN t
  BY DEF Swapped
<1>3. ASSUME NEW v \in Leaves(t) PROVE s[v] = Leaf(other(t[v].id)) /\ s[v].id = other(t[v].id)
  <2>1. t[v] = Leaf(t[v].id) /\ v \in DOMAIN t
    BY <1>1, TreeNodes DEF Leaves
  <2>2. t[v] = Leaf(p) <=> t[v].id = p
    BY <2>1 DEF Leaf
  <2>3. t[v] = Leaf(q) <=> t[v].id = q
    BY <2>1 DEF Leaf
  <2>4. s[v] = Leaf(other(t[v].id))
    BY <2>1, <2>2, <2>3 DEF Swapped
  <2>5. QED
    BY <2>4 DEF Leaf
<1>4. ASSUME NEW v \in Splits(t) PROVE s[v] = t[v]
  <2>1. t[v].kind = "split" /\ v \in DOMAIN t
    BY DEF Splits
  <2>2. t[v] # Leaf(p) /\ t[v] # Leaf(q)
    BY <2>1 DEF Leaf
  <2>3. QED
    BY <2>1, <2>2 DEF Swapped
<1> HIDE DEF s
<1>5. Splits(s) = Splits(t)
  <2>1. \A v \in Splits(t) : v \in Splits(s)
    BY <1>2, <1>4 DEF Splits
  <2>2. \A v \in Leaves(t) : s[v].kind = "pane"
    <3>1. \A x : Leaf(x).kind = "pane"
      BY DEF Leaf
    <3> HIDE DEF other
    <3>2. QED
      BY <1>3, <3>1
  <2>3. QED
    BY <1>2, <2>1, <2>2 DEF Splits, Leaves
<1>6. Leaves(s) = Leaves(t)
  BY <1>2, <1>5 DEF Leaves
<1>7. IsTree(s)
  <2>1. ASSUME NEW v \in DOMAIN s PROVE s[v] \in Nodes
    <3>1. CASE v \in Splits(t)
      BY <1>1, <1>2, <1>4, <3>1 DEF IsTree
    <3>2. CASE v \in Leaves(t)
      <4>1. \A x \in Within(t) : x \in Panes
        BY <1>1, TreeNodes DEF Within, Leaves
      <4>2. other(t[v].id) \in Panes
        BY <3>2, <4>1 DEF Within
      <4>3. QED
        BY <1>3, <3>2, <4>2 DEF Nodes
    <3>3. QED
      BY <1>2, <3>1, <3>2 DEF Leaves
  <2>2. QED
    BY <1>1, <1>2, <1>5, <2>1 DEF IsTree
<1>8. Shallow(s)
  BY <1>1, <1>2 DEF Shallow
<1>9. OncePerPane(s)
  <2>1. \A v, w \in Leaves(t) : other(t[v].id) = other(t[w].id) => t[v].id = t[w].id
    OBVIOUS
  <2> HIDE DEF other
  <2>2. QED
    BY <1>1, <1>3, <1>6, <2>1 DEF OncePerPane
<1>10. Within(s) = Within(t)
  <2>1. \A x \in Within(t) : other(x) \in Within(t) /\ other(other(x)) = x
    OBVIOUS
  <2> HIDE DEF other
  <2>2. \A v \in Leaves(t) : t[v].id \in Within(t) /\ s[v].id = other(t[v].id)
    BY <1>3 DEF Within
  <2>3. ASSUME NEW v \in Leaves(t) PROVE s[v].id \in Within(t)
    BY <2>1, <2>2
  <2>4. ASSUME NEW x \in Within(t) PROVE \E v \in Leaves(t) : s[v].id = x
    <3>1. PICK v \in Leaves(t) : t[v].id = other(x)
      BY <2>1 DEF Within
    <3>2. s[v].id = x
      BY <2>1, <2>2, <3>1
    <3>3. QED
      BY <3>2
  <2>5. Within(s) = {s[v].id : v \in Leaves(t)}
    BY <1>6 DEF Within
  <2>6. QED
    BY <2>3, <2>4, <2>5
<1>11. QED
  BY <1>7, <1>8, <1>9, <1>10 DEF Sound, s

LEMMA RatioKeeps ==
  ASSUME NEW t, Sound(t), NEW way \in Splits(t), NEW ratio \in 0 .. Scale
  PROVE  /\ Sound(WithRatio(t, way, ratio))
         /\ Within(WithRatio(t, way, ratio)) = Within(t)
<1> DEFINE s == WithRatio(t, way, ratio)
<1>1. IsTree(t) /\ Shallow(t) /\ OncePerPane(t)
  BY DEF Sound
<1>2. way \in DOMAIN t /\ t[way] \in Nodes /\ t[way].kind = "split"
  BY <1>1 DEF IsTree, Splits
<1>3. t[way] \in [kind : {"split"}, axis : Axes, ratio : 0 .. Scale]
  BY <1>2 DEF Nodes, Leaf
<1>4. /\ DOMAIN s = DOMAIN t
      /\ s[way] = [t[way] EXCEPT !.ratio = ratio]
      /\ \A v \in DOMAIN t : v # way => s[v] = t[v]
  BY <1>2 DEF WithRatio
<1> HIDE DEF s
<1>5. s[way] \in [kind : {"split"}, axis : Axes, ratio : 0 .. Scale]
  BY <1>3, <1>4
<1>6. s[way] \in Nodes /\ s[way].kind = "split"
  BY <1>5 DEF Nodes
<1>7. Splits(s) = Splits(t)
  BY <1>2, <1>4, <1>6 DEF Splits
<1>8. Leaves(s) = Leaves(t) /\ \A v \in Leaves(t) : s[v] = t[v]
  BY <1>4, <1>7 DEF Leaves
<1>9. IsTree(s)
  <2>1. \A v \in DOMAIN s : s[v] \in Nodes
    BY <1>1, <1>4, <1>6 DEF IsTree
  <2>2. QED
    BY <1>1, <1>4, <1>7, <2>1 DEF IsTree
<1>10. Shallow(s)
  BY <1>1, <1>4 DEF Shallow
<1>11. OncePerPane(s)
  BY <1>1, <1>8 DEF OncePerPane
<1>12. Within(s) = Within(t)
  BY <1>8 DEF Within
<1>13. QED
  BY <1>9, <1>10, <1>11, <1>12 DEF Sound, s

\* s is t with the ratio of one split set.
HasRatio(s, t, m, x) ==
  /\ IsTree(t) /\ Shallow(t) /\ IsTree(s) /\ Shallow(s)
  /\ m \in Splits(t) /\ m \in DOMAIN t
  /\ DOMAIN s = DOMAIN t /\ Splits(s) = Splits(t) /\ Leaves(s) = Leaves(t)
  /\ \A v \in DOMAIN t : v # m => s[v] = t[v]
  /\ s[m].axis = t[m].axis /\ s[m].ratio = x

LEMMA RatioNodes ==
  ASSUME NEW t, Sound(t), NEW m \in Splits(t), NEW x \in 0 .. Scale
  PROVE  HasRatio(WithRatio(t, m, x), t, m, x)
<1> DEFINE s == WithRatio(t, m, x)
<1>1. IsTree(t) /\ Shallow(t) /\ IsTree(s) /\ Shallow(s)
  BY RatioKeeps DEF Sound
<1>2. m \in DOMAIN t /\ t[m] \in Nodes /\ t[m].kind = "split"
  BY <1>1 DEF IsTree, Splits
<1>3. t[m] \in [kind : {"split"}, axis : Axes, ratio : 0 .. Scale]
  BY <1>2 DEF Nodes, Leaf
<1>4. /\ DOMAIN s = DOMAIN t
      /\ s[m] = [t[m] EXCEPT !.ratio = x]
      /\ \A v \in DOMAIN t : v # m => s[v] = t[v]
  BY <1>2 DEF WithRatio
<1> HIDE DEF s
<1>5. s[m].kind = "split" /\ s[m].axis = t[m].axis /\ s[m].ratio = x
  BY <1>3, <1>4
<1>6. Splits(s) = Splits(t)
  BY <1>2, <1>4, <1>5 DEF Splits
<1>7. Leaves(s) = Leaves(t)
  BY <1>4, <1>6 DEF Leaves
<1>8. QED
  BY <1>1, <1>2, <1>4, <1>5, <1>6, <1>7 DEF HasRatio, s

\* Minimums do not depend on ratios.
LEMMA MinimumKept ==
  ASSUME NEW t, NEW s, NEW m, NEW x, HasRatio(s, t, m, x), NEW axis \in Axes, NEW w \in DOMAIN t
  PROVE  MinimumAlong(s, w, axis) = MinimumAlong(t, w, axis)
<1> DEFINE S == {v \in DOMAIN t : MinimumAlong(s, v, axis) = MinimumAlong(t, v, axis)}
<1>1. /\ IsTree(t) /\ Shallow(t) /\ IsTree(s) /\ Shallow(s)
      /\ DOMAIN s = DOMAIN t /\ Splits(s) = Splits(t) /\ Leaves(s) = Leaves(t)
      /\ \A v \in DOMAIN t : s[v].axis = t[v].axis \/ v \in Leaves(t)
  BY DEF HasRatio
<1>2. Leaves(t) \subseteq S
  <2>1. ASSUME NEW v \in Leaves(t) PROVE v \in S
    <3>1. v \in DOMAIN t /\ v \in DOMAIN s /\ v \in Leaves(s)
      BY <1>1 DEF Leaves
    <3>2. MinimumAlong(s, v, axis) = Smallest(axis) /\ MinimumAlong(t, v, axis) = Smallest(axis)
      BY <1>1, <3>1, MinimumOf
    <3>3. QED
      BY <3>1, <3>2
  <2>2. QED
    BY <2>1
<1>3. ASSUME NEW v \in Splits(t), First(v) \in S, Second(v) \in S PROVE v \in S
  <2>1. v \in DOMAIN t /\ v \in DOMAIN s /\ v \in Splits(s) /\ s[v].axis = t[v].axis
    BY <1>1 DEF Leaves, Splits
  <2>2. /\ MinimumAlong(s, First(v), axis) = MinimumAlong(t, First(v), axis)
        /\ MinimumAlong(s, Second(v), axis) = MinimumAlong(t, Second(v), axis)
    BY <1>3
  <2> DEFINE combined(first, second) ==
               IF t[v].axis = axis THEN first + Gap + second
               ELSE IF first >= second THEN first ELSE second
  <2>3. MinimumAlong(t, v, axis) =
          combined(MinimumAlong(t, First(v), axis), MinimumAlong(t, Second(v), axis))
    BY <1>1, <2>1, MinimumOf
  <2>4. MinimumAlong(s, v, axis) =
          combined(MinimumAlong(s, First(v), axis), MinimumAlong(s, Second(v), axis))
    BY <1>1, <2>1, MinimumOf
  <2> HIDE DEF combined
  <2>5. QED
    BY <2>1, <2>2, <2>3, <2>4
<1> HIDE DEF S
<1>4. DOMAIN t \subseteq S
  BY <1>1, <1>2, <1>3, Upward
<1>5. QED
  BY <1>4 DEF S

LEMMA HalfMinimumsKept ==
  ASSUME NEW t, NEW s, NEW m, NEW x, HasRatio(s, t, m, x), NEW w \in Splits(t)
  PROVE  FirstMinimum(s, w) = FirstMinimum(t, w) /\ SecondMinimum(s, w) = SecondMinimum(t, w)
         /\ s[w].axis = t[w].axis
<1>1. w \in DOMAIN t /\ t[w].axis \in Axes /\ First(w) \in DOMAIN t /\ Second(w) \in DOMAIN t
  BY TreeNodes, TreeSteps DEF HasRatio, Splits
<1>2. s[w].axis = t[w].axis
  BY <1>1 DEF HasRatio
<1>3. QED
  BY <1>1, <1>2, MinimumKept DEF FirstMinimum, SecondMinimum

--------------------------------------------------------------------------------
(* The bounds of a ratio. *)

Tenth == Scale \div 10

LEMMA TenthTyped == Tenth \in Nat /\ Tenth <= Scale \div 2 /\ Scale \div 2 <= Scale - Tenth
                    /\ Scale \div 2 \in Nat /\ Tenth <= Scale
  BY RatioAssumption DEF Tenth

\* The bounds that u pixels put on a ratio when the halves keep f and s of them.
Lower(u, f) == Max({Tenth, (f * Scale) \div u})
Upper(u, s) == Min({Scale - Tenth, Scale - (s * Scale) \div u})

LEMMA BoundValues ==
  ASSUME NEW u \in Nat \ {0}, NEW f \in Nat \ {0}, NEW s \in Nat \ {0}
  PROVE  LET one   == (f * Scale) \div u
             other == (s * Scale) \div u
         IN  /\ one \in Nat /\ other \in Nat
             /\ Lower(u, f) = IF Tenth >= one THEN Tenth ELSE one
             /\ Upper(u, s) = IF Scale - Tenth <= Scale - other THEN Scale - Tenth
                              ELSE Scale - other
             /\ Lower(u, f) \in Nat /\ Upper(u, s) \in Int /\ Upper(u, s) <= Scale
<1> DEFINE one   == (f * Scale) \div u
           other == (s * Scale) \div u
<1>1. f * Scale \in Nat /\ s * Scale \in Nat /\ Scale \in Nat /\ Tenth \in Nat
  BY RatioAssumption, TenthTyped
<1>2. one \in Nat /\ other \in Nat
  <2>1. \A n \in Nat : n \div u \in Nat
    OBVIOUS
  <2>2. QED
    BY <1>1, <2>1
<1>3. Lower(u, f) = Max({Tenth, one}) /\ Upper(u, s) = Min({Scale - Tenth, Scale - other})
  BY DEF Lower, Upper
<1> HIDE DEF one, other
<1>4. /\ Lower(u, f) = IF Tenth >= one THEN Tenth ELSE one
      /\ Upper(u, s) = IF Scale - Tenth <= Scale - other THEN Scale - Tenth
                       ELSE Scale - other
  <2>1. Tenth \in Int /\ one \in Int /\ Scale - Tenth \in Int /\ Scale - other \in Int
    BY <1>1, <1>2
  <2>2. QED
    BY <1>3, <2>1, MaxOfTwo, MinOfTwo
<1>5. Lower(u, f) \in Nat /\ Upper(u, s) \in Int /\ Upper(u, s) <= Scale
  BY <1>1, <1>2, <1>4
<1>6. QED
  BY <1>2, <1>4, <1>5 DEF one, other

\* What a ratio is set to.
LEMMA RatioBounds ==
  ASSUME NEW t, IsTree(t), Shallow(t), NEW way \in Splits(t), NEW rect \in Boxes,
         HasBounds(t, way, rect)
  PROVE  LET u == Usable(t[way], rect)
             f == FirstMinimum(t, way)
             s == SecondMinimum(t, way)
         IN  /\ u \in Nat \ {0} /\ u = Along(t[way].axis, rect) - Gap
             /\ f \in Nat \ {0} /\ s \in Nat \ {0}
             /\ Lower(u, f) <= Upper(u, s)
             /\ \A r \in Int :
                  BoundedRatio(t, way, rect, r) = Bounded(r, Lower(u, f), Upper(u, s))
<1> DEFINE along == Along(t[way].axis, rect)
           u == Usable(t[way], rect)
           f == FirstMinimum(t, way)
           s == SecondMinimum(t, way)
<1>1. f \in Nat \ {0} /\ s \in Nat \ {0}
  BY HalfMinimums
<1>2. along \in Nat /\ u = IF Gap <= along THEN along - Gap ELSE 0
  BY LengthsOf
<1>3. along - Gap > 0 /\ LowerBound(t, way, along - Gap) <= UpperBound(t, way, along - Gap)
  BY DEF HasBounds
<1>4. u \in Nat \ {0} /\ u = along - Gap
  <2> HIDE DEF u, along
  <2>1. QED
    BY <1>2, <1>3, SizesAssumption
<1>5. LowerBound(t, way, u) = Lower(u, f) /\ UpperBound(t, way, u) = Upper(u, s)
  BY DEF LowerBound, UpperBound, Lower, Upper, Tenth
<1>6. BoundedRatio(t, way, rect, 0) = BoundedRatio(t, way, rect, 0)
      /\ \A r \in Int : BoundedRatio(t, way, rect, r) =
             Bounded(r, Bounded(LowerBound(t, way, along - Gap), 0, Scale),
                     Bounded(UpperBound(t, way, along - Gap),
                             Bounded(LowerBound(t, way, along - Gap), 0, Scale), Scale))
  BY DEF BoundedRatio
<1> HIDE DEF along, u, f, s
<1>7. /\ Lower(u, f) <= Upper(u, s) /\ Lower(u, f) \in Nat
      /\ Upper(u, s) \in Int /\ Upper(u, s) <= Scale
  BY <1>1, <1>3, <1>4, <1>5, BoundValues
<1>8. Bounded(Lower(u, f), 0, Scale) = Lower(u, f)
  BY <1>7, BoundedValue, RatioAssumption
<1>9. Bounded(Upper(u, s), Lower(u, f), Scale) = Upper(u, s)
  BY <1>7, BoundedValue, RatioAssumption
<1>10. \A r \in Int : BoundedRatio(t, way, rect, r) = Bounded(r, Lower(u, f), Upper(u, s))
  BY <1>4, <1>5, <1>6, <1>8, <1>9
<1>11. QED
  BY <1>1, <1>4, <1>7, <1>10 DEF u, f, s, along

\* A ratio that is set leaves each half a tenth of the length.
LEMMA BoundedWithin ==
  ASSUME NEW t, IsTree(t), Shallow(t), NEW way \in Splits(t), NEW rect \in Boxes,
         HasBounds(t, way, rect), NEW r \in Int
  PROVE  /\ BoundedRatio(t, way, rect, r) \in Tenth .. Scale - Tenth
         /\ BoundedRatio(t, way, rect, r) \in 0 .. Scale
<1>1. PICK u \in Nat \ {0}, f \in Nat \ {0}, s \in Nat \ {0} :
        /\ Lower(u, f) <= Upper(u, s)
        /\ BoundedRatio(t, way, rect, r) = Bounded(r, Lower(u, f), Upper(u, s))
  BY RatioBounds
<1>2. /\ Lower(u, f) \in Nat /\ Upper(u, s) \in Int
      /\ Lower(u, f) >= Tenth /\ Upper(u, s) <= Scale - Tenth
  <2> DEFINE one   == (f * Scale) \div u
             other == (s * Scale) \div u
  <2>1. /\ one \in Nat /\ other \in Nat
        /\ Lower(u, f) = IF Tenth >= one THEN Tenth ELSE one
        /\ Upper(u, s) = IF Scale - Tenth <= Scale - other THEN Scale - Tenth ELSE Scale - other
    BY BoundValues
  <2> HIDE DEF one, other
  <2>2. QED
    BY <2>1, TenthTyped, RatioAssumption
<1>3. QED
  BY <1>1, <1>2, TenthTyped, BoundedValue, RatioAssumption

--------------------------------------------------------------------------------
(* The order of the panes, and where the focus goes. *)

LEMMA LeastOf ==
  ASSUME NEW S, S # {}, NEW f \in [S -> Nat]
  PROVE  \E x \in S : \A y \in S : f[x] <= f[y]
<1> DEFINE T == {f[x] : x \in S}
<1>1. T \in SUBSET Nat /\ T # {}
  OBVIOUS
<1> HIDE DEF T
<1>2. PICK n \in T : \A m \in T : n <= m
  BY <1>1, Least
<1>3. QED
  BY <1>2 DEF T

LEMMA InnermostFound ==
  ASSUME NEW S, S # {}, \A v \in S : Len(v) \in Nat, NEW n \in Nat,
         \A v \in S : Len(v) <= n
  PROVE  Innermost(S) \in S
<1> DEFINE f == [v \in S |-> n - Len(v)]
<1>1. f \in [S -> Nat] /\ \A v \in S : f[v] = n - Len(v)
  OBVIOUS
<1> HIDE DEF f
<1>2. PICK w \in S : \A v \in S : f[w] <= f[v]
  BY <1>1, LeastOf
<1>3. \A v \in S : Len(w) >= Len(v)
  BY <1>1, <1>2
<1>4. QED
  BY <1>3 DEF Innermost

\* The order has just the panes of the tree, each at one place.
LEMMA OrderLists ==
  ASSUME Sound(root)
  PROVE  /\ Order \in Seq(Panes) /\ Len(Order) \in Nat /\ DOMAIN Order = 1 .. Len(Order)
         /\ \A i \in 1 .. Len(Order) : Order[i] \in Within(root)
         /\ \A p \in Within(root) : \E i \in 1 .. Len(Order) : Order[i] = p
         /\ \A i, j \in 1 .. Len(Order) : Order[i] = Order[j] => i = j
<1>1. Lists(Order, Within(root))
  BY PaneIdsList DEF Sound, Order
<1>2. Order \in Seq(Panes)
  BY <1>1 DEF Lists
<1>3. Len(Order) \in Nat /\ DOMAIN Order = 1 .. Len(Order)
  BY <1>2, LenProperties
<1>4. QED
  BY <1>1, <1>2, <1>3 DEF Lists

LEMMA PlaceInTab ==
  ASSUME Sound(root), NEW q \in Within(root), NEW r, r.panes = Order
  PROVE  Tab!LeafOf(r, q) \in 1 .. Len(Order) /\ Order[Tab!LeafOf(r, q)] = q
<1> DEFINE I == {i \in 1 .. Len(Order) : Order[i] = q}
<1>1. Tab!LeafOf(r, q) = IF I # {} THEN Min(I) ELSE 0
  BY DEF Tab!LeafOf, Tab!SelectInSeq, Tab!Min, Min
<1>2. PICK k \in 1 .. Len(Order) : Order[k] = q
  BY OrderLists
<1>3. I = {k} /\ k \in Int
  BY <1>2, OrderLists
<1> HIDE DEF I
<1>4. Min({k}) = k
  BY <1>3 DEF Min
<1>5. QED
  BY <1>1, <1>2, <1>3, <1>4

PlaceInOrder(q) == Tab!LeafOf([panes |-> Order], q)

LEMMA PlacesInOrder ==
  ASSUME Sound(root), NEW q \in Within(root)
  PROVE  PlaceInOrder(q) \in 1 .. Len(Order) /\ Order[PlaceInOrder(q)] = q
<1> DEFINE r == [panes |-> Order]
<1>1. r.panes = Order
  OBVIOUS
<1>2. PlaceInOrder(q) = Tab!LeafOf(r, q)
  BY DEF PlaceInOrder
<1> HIDE DEF r
<1>3. QED
  BY <1>1, <1>2, PlaceInTab

\* Of the panes in a direction one is better than all others.
LEMMA NeighbourFound ==
  ASSUME Sound(root), NEW frames, DOMAIN frames = Within(root),
         \A q \in Within(root) : frames[q] \in Boxes,
         NEW p \in Within(root), NEW direction \in Directions,
         InDirection(frames, p, direction) # {}
  PROVE  LET n == Neighbour(frames, p, direction)
         IN  /\ n \in Within(root) /\ n \in InDirection(frames, p, direction)
             /\ \A q \in InDirection(frames, p, direction) :
                  Overlap(Across(AxisOf(direction)), frames[p], frames[q]) =>
                    /\ Overlap(Across(AxisOf(direction)), frames[p], frames[n])
                    /\ Max({Ahead(direction, frames[p], frames[n]), 0})
                         <= Max({Ahead(direction, frames[p], frames[q]), 0})
<1> DEFINE across  == Across(AxisOf(direction))
           there   == InDirection(frames, p, direction)
           aligned == {q \in there : Overlap(across, frames[p], frames[q])}
           found   == IF aligned # {} THEN aligned ELSE there
           far(q)  == Max({Ahead(direction, frames[p], frames[q]), 0})
           d(q)    == Centre2(across, frames[p]) - Centre2(across, frames[q])
           off(q)  == Max({d(q), -d(q)})
           better(q, r) ==
             \/ far(q) < far(r)
             \/ far(q) = far(r) /\ off(q) < off(r)
             \/ far(q) = far(r) /\ off(q) = off(r) /\ Before(q, r)
<1>1. Neighbour(frames, p, direction) =
        CHOOSE q \in found : \A r \in found \ {q} : better(q, r)
  BY DEF Neighbour
<1>2. there \subseteq Within(root)
  BY DEF InDirection
<1>3. found \subseteq Within(root) /\ found # {}
  BY <1>2
<1>4. ASSUME NEW q \in Within(root) PROVE far(q) \in Nat /\ off(q) \in Nat
  <2>1. /\ \A axis : Along(axis, frames[p]) \in Nat /\ Start(axis, frames[p]) \in Int
        /\ \A axis : Along(axis, frames[q]) \in Nat /\ Start(axis, frames[q]) \in Int
    BY BoxParts
  <2>2. Ahead(direction, frames[p], frames[q]) \in Int
    BY <2>1 DEF Ahead, End
  <2>3. d(q) \in Int
    BY <2>1 DEF Centre2
  <2> HIDE DEF d
  <2>4. QED
    BY <2>2, <2>3, MaxOfTwo
<1>5. \A q, r \in Within(root) : Before(q, r) <=> PlaceInOrder(q) < PlaceInOrder(r)
  BY DEF Before, PlaceInOrder, Order
<1>6. \A q \in Within(root) : PlaceInOrder(q) \in Nat /\ Order[PlaceInOrder(q)] = q
  BY PlacesInOrder
<1> HIDE DEF found, far, off
<1>7. PICK q1 \in found : \A r \in found : far(q1) <= far(r)
  <2> DEFINE f == [q \in found |-> far(q)]
  <2>1. f \in [found -> Nat] /\ \A q \in found : f[q] = far(q)
    BY <1>3, <1>4
  <2> HIDE DEF f
  <2>2. QED
    BY <1>3, <2>1, LeastOf
<1> DEFINE nearest == {q \in found : far(q) = far(q1)}
<1>8. nearest \subseteq found /\ nearest # {}
  OBVIOUS
<1>9. PICK q2 \in nearest : \A r \in nearest : off(q2) <= off(r)
  <2> DEFINE f == [q \in nearest |-> off(q)]
  <2>1. f \in [nearest -> Nat] /\ \A q \in nearest : f[q] = off(q)
    BY <1>3, <1>4, <1>8
  <2> HIDE DEF f, nearest
  <2>2. QED
    BY <1>8, <2>1, LeastOf
<1> DEFINE centred == {q \in nearest : off(q) = off(q2)}
<1>10. centred \subseteq found /\ centred # {}
  OBVIOUS
<1>11. PICK q3 \in centred : \A r \in centred : PlaceInOrder(q3) <= PlaceInOrder(r)
  <2> DEFINE f == [q \in centred |-> PlaceInOrder(q)]
  <2>1. f \in [centred -> Nat] /\ \A q \in centred : f[q] = PlaceInOrder(q)
    BY <1>3, <1>6, <1>10
  <2> HIDE DEF f, centred
  <2>2. QED
    BY <1>10, <2>1, LeastOf
<1>12. ASSUME NEW r \in found \ {q3} PROVE better(q3, r)
  <2>1. q3 \in found /\ far(q3) = far(q1) /\ off(q3) = off(q2)
    BY <1>11
  <2>2. q3 \in Within(root) /\ r \in Within(root) /\ q1 \in Within(root)
    BY <1>3, <2>1
  <2>3. CASE far(r) # far(q1)
    BY <1>4, <1>7, <2>1, <2>2, <2>3
  <2>4. CASE far(r) = far(q1) /\ off(r) # off(q2)
    <3>1. off(q2) <= off(r)
      BY <1>9, <2>4
    <3>2. off(q3) < off(r)
      BY <1>4, <2>1, <2>2, <2>4, <3>1
    <3>3. QED
      BY <2>1, <2>4, <3>2
  <2>5. CASE far(r) = far(q1) /\ off(r) = off(q2)
    <3>1. PlaceInOrder(q3) <= PlaceInOrder(r)
      BY <1>11, <2>5
    <3>2. PlaceInOrder(q3) # PlaceInOrder(r)
      BY <1>6, <2>2
    <3>3. Before(q3, r)
      BY <1>5, <1>6, <2>2, <3>1, <3>2
    <3>4. QED
      BY <2>1, <2>5, <3>3
  <2>6. QED
    BY <2>3, <2>4, <2>5
<1>13. q3 \in found
  BY <1>10
<1> DEFINE n == CHOOSE q \in found : \A r \in found \ {q} : better(q, r)
<1>14. n \in found /\ \A r \in found \ {n} : better(n, r)
  <2> HIDE DEF better
  <2>1. QED
    BY <1>12, <1>13
<1>15. Neighbour(frames, p, direction) = n
  BY <1>1
<1> HIDE DEF n
<1>16. ASSUME NEW r \in found PROVE far(n) <= far(r)
  <2>1. far(n) \in Nat /\ far(r) \in Nat
    BY <1>3, <1>4, <1>14
  <2>2. r = n \/ better(n, r)
    BY <1>14
  <2>3. QED
    BY <2>1, <2>2
<1>17. n \in there /\ n \in Within(root)
  BY <1>2, <1>14 DEF found
<1>18. ASSUME NEW q \in there, Overlap(across, frames[p], frames[q])
       PROVE  Overlap(across, frames[p], frames[n]) /\ far(n) <= far(q)
  <2>1. found = aligned /\ q \in found
    BY <1>18 DEF found
  <2>2. QED
    BY <1>14, <1>16, <2>1
<1>19. QED
  BY <1>15, <1>17, <1>18 DEF far

--------------------------------------------------------------------------------
(* The inductive invariant: the shape of the state, and that the tree is only so deep *)
(* (which TypeOK does not say: a function may have infinitely many ways).             *)

IInv == TypeOK /\ Shallow(root)

LEMMA TabParts ==
  IInv <=> /\ Sound(root) /\ focused \in Within(root)
             /\ zoomed \in Panes \union {Nothing} /\ view \in Rects
  BY DEF IInv, TypeOK, Sound, OncePerPane

LEMMA TabPartsNext ==
  IInv' <=> /\ Sound(root') /\ focused' \in Within(root')
              /\ zoomed' \in Panes \union {Nothing} /\ view' \in Rects
  BY DEF IInv, TypeOK, Sound, OncePerPane, Within, Leaves, Splits, IsTree, Shallow

\* A pane that is the whole tree is alone in it.
LEMMA RootPane ==
  ASSUME NEW t, IsTree(t), NEW p \in Within(t), WayTo(t, p) = << >>
  PROVE  Within(t) = {p}
<1>1. << >> \in Leaves(t) /\ t[<< >>].id = p
  BY WayToPane
<1>2. \A v \in Leaves(t) : v = << >>
  <2>1. ASSUME NEW v \in Leaves(t), v # << >> PROVE FALSE
    <3>1. v \in DOMAIN t /\ v \in Ways /\ << >> \in Ways
      BY TreeSteps, EmptySeq DEF Leaves, Ways
    <3>2. IsPrefix(<< >>, v)
      BY <3>1, PrefixFacts
    <3>3. << >> \in Splits(t)
      BY <2>1, <3>1, <3>2, BelowIsSplit
    <3>4. QED
      BY <1>1, <3>3 DEF Leaves
  <2>2. QED
    BY <2>1
<1>3. QED
  BY <1>1, <1>2 DEF Within

LEMMA FramesTyped ==
  ASSUME Sound(root), view \in Rects
  PROVE  /\ \A w \in DOMAIN root : Frame(w) \in Boxes
         /\ DOMAIN Frames = Within(root)
         /\ \A p \in Within(root) : Frames[p] \in Boxes
<1>1. \A w \in DOMAIN root : Frame(w) \in Boxes
  BY ViewIsBox, LayoutOf DEF Sound, Frame
<1>2. \A p \in Within(root) : WayTo(root, p) \in DOMAIN root
  BY WayToPane DEF Leaves
<1>3. QED
  BY <1>1, <1>2 DEF Frames

LEMMA NotAlone ==
  ASSUME Sound(root), Len(Order) > 1, NEW p \in Within(root)
  PROVE  WayTo(root, p) # << >>
<1>1. SUFFICES ASSUME WayTo(root, p) = << >> PROVE FALSE
  OBVIOUS
<1>2. Within(root) = {p}
  BY <1>1, RootPane DEF Sound
<1>3. 1 \in 1 .. Len(Order) /\ 2 \in 1 .. Len(Order)
  BY OrderLists
<1>4. Order[1] = Order[2]
  BY <1>2, <1>3, OrderLists
<1>5. QED
  BY <1>3, <1>4, OrderLists

\* A tab is created with one pane, that has the focus.
THEOREM TabInitially == Init => IInv
<1> SUFFICES ASSUME Init PROVE IInv
  OBVIOUS
<1>1. PICK p \in Panes : root = [way \in {<< >>} |-> Leaf(p)] /\ focused = p
  BY DEF Init
<1>2. DOMAIN root = {<< >>} /\ root[<< >>] = Leaf(p)
  BY <1>1
<1>3. Leaf(p).kind = "pane" /\ Leaf(p).id = p /\ Leaf(p) \in Nodes
  BY DEF Leaf, Nodes
<1>4. Splits(root) = {} /\ Leaves(root) = {<< >>}
  BY <1>2, <1>3 DEF Splits, Leaves
<1>5. << >> \in Seq(Halves) /\ Len(<< >>) = 0
  BY EmptySeq
<1>6. IsTree(root)
  BY <1>2, <1>3, <1>4, <1>5 DEF IsTree
<1>7. Shallow(root)
  BY <1>2, <1>5 DEF Shallow
<1>8. OncePerPane(root) /\ Within(root) = {p}
  BY <1>2, <1>3, <1>4 DEF OncePerPane, Within
<1>9. QED
  BY <1>1, <1>6, <1>7, <1>8, TabParts DEF Init, Sound

\* The divider that the keyboard moves.
LEMMA ResizedSplit ==
  ASSUME IInv, NEW direction \in Directions, Movable(focused, direction) # {}
  PROVE  Innermost(Movable(focused, direction)) \in Movable(focused, direction)
<1>1. IsTree(root) /\ Shallow(root)
  BY TabParts DEF Sound
<1>2. Movable(focused, direction) \subseteq Splits(root)
  BY DEF Movable
<1>3. \A v \in Movable(focused, direction) : Len(v) \in Nat
  BY <1>1, <1>2, TreeSteps DEF Splits
<1>4. PICK n \in Nat : \A v \in DOMAIN root : Len(v) <= n
  BY <1>1 DEF Shallow
<1>5. \A v \in Movable(focused, direction) : Len(v) <= n
  BY <1>2, <1>4 DEF Splits
<1>6. QED
  BY <1>3, <1>5, InnermostFound

\* One ratio changes, and nothing else.
RatioSet(way, x) ==
  /\ way \in Splits(root) /\ x \in 0 .. Scale /\ x \in Tenth .. Scale - Tenth
  /\ root' = WithRatio(root, way, x)
  /\ UNCHANGED <<focused, zoomed, view>>

LEMMA ResizeSets ==
  ASSUME IInv, NEW direction \in Directions, ResizeFocused(direction)
  PROVE  \E way, x : RatioSet(way, x)
<1> DEFINE way   == Innermost(Movable(focused, direction))
           ratio == root[way].ratio + (IF Forward(direction) THEN Step ELSE -Step)
<1>1. /\ Movable(focused, direction) # {}
      /\ HasBounds(root, way, Frame(way))
      /\ root' = WithRatio(root, way, BoundedRatio(root, way, Frame(way), ratio))
      /\ UNCHANGED <<focused, zoomed, view>>
  BY DEF ResizeFocused
<1>2. way \in Splits(root)
  BY <1>1, ResizedSplit DEF Movable
<1> HIDE DEF way
<1>3. Sound(root) /\ IsTree(root) /\ Shallow(root) /\ view \in Rects
  BY TabParts DEF Sound
<1>4. ratio \in Int /\ Frame(way) \in Boxes
  <2>1. root[way].ratio \in 0 .. Scale
    BY <1>2, <1>3, TreeNodes DEF Splits
  <2>2. QED
    BY <1>2, <1>3, <2>1, FramesTyped, RatioAssumption DEF Splits
<1> HIDE DEF ratio
<1>5. /\ BoundedRatio(root, way, Frame(way), ratio) \in 0 .. Scale
      /\ BoundedRatio(root, way, Frame(way), ratio) \in Tenth .. Scale - Tenth
  BY <1>1, <1>2, <1>3, <1>4, BoundedWithin
<1>6. QED
  BY <1>1, <1>2, <1>5 DEF RatioSet

LEMMA DragSets ==
  ASSUME IInv, NEW way \in Splits(root), NEW pointer \in Pointers, DragDivider(way, pointer)
  PROVE  \E x : RatioSet(way, x)
<1> DEFINE axis  == root[way].axis
           most  == Max({Along(axis, Frame(way)) - Gap, 1})
           ratio == ((pointer - Start(axis, Frame(way))) * Scale) \div most
<1>1. /\ HasBounds(root, way, Frame(way))
      /\ root' = WithRatio(root, way, BoundedRatio(root, way, Frame(way), ratio))
      /\ UNCHANGED <<focused, zoomed, view>>
  BY DEF DragDivider
<1>2. Sound(root) /\ IsTree(root) /\ Shallow(root) /\ view \in Rects
  BY TabParts DEF Sound
<1>3. Frame(way) \in Boxes
  BY <1>2, FramesTyped DEF Splits
<1>4. Along(axis, Frame(way)) - Gap \in Int /\ Start(axis, Frame(way)) \in Int
  BY <1>3, BoxParts, SizesAssumption
<1> HIDE DEF axis
<1>5. most \in Int /\ most > 0
  BY <1>4, MaxOfTwo
<1>6. (pointer - Start(axis, Frame(way))) * Scale \in Int
  BY <1>4, RatioAssumption
<1> HIDE DEF most
<1>7. ratio \in Int
  BY <1>5, <1>6
<1> HIDE DEF ratio
<1>8. /\ BoundedRatio(root, way, Frame(way), ratio) \in 0 .. Scale
      /\ BoundedRatio(root, way, Frame(way), ratio) \in Tenth .. Scale - Tenth
  BY <1>1, <1>2, <1>3, <1>7, BoundedWithin
<1>9. QED
  BY <1>1, <1>8 DEF RatioSet

\* Every operation of the tab keeps the invariant; one step for each.
THEOREM TabStepKeeps == IInv /\ [Next]_vars => IInv'
<1> SUFFICES ASSUME IInv, [Next]_vars PROVE IInv'
  OBVIOUS
<1>1. /\ Sound(root) /\ focused \in Within(root)
      /\ zoomed \in Panes \union {Nothing} /\ view \in Rects
  BY TabParts
<1>2. IsTree(root) /\ Shallow(root) /\ Within(root) \subseteq Panes
  <2>1. IsTree(root) /\ Shallow(root)
    BY <1>1 DEF Sound
  <2>2. QED
    BY <2>1, TreeNodes DEF Within, Leaves
<1>3. ASSUME UNCHANGED <<root, view>>, focused' \in Within(root),
             zoomed' \in Panes \union {Nothing}
      PROVE  IInv'
  BY <1>1, <1>3, TabPartsNext
<1>4. ASSUME NEW way, NEW x, RatioSet(way, x) PROVE IInv'
  <2>1. Sound(root') /\ Within(root') = Within(root)
    BY <1>1, <1>4, RatioKeeps DEF RatioSet
  <2>2. QED
    BY <1>1, <1>4, <2>1, TabPartsNext DEF RatioSet
<1>5. ASSUME NEW axis \in Axes, NEW new \in Fresh, SplitFocused(axis, new) PROVE IInv'
  <2>1. new \in Panes \ Within(root)
    BY DEF Fresh
  <2>2. /\ root' = SplitAt(root, focused, axis, new) /\ focused' = new
        /\ zoomed' = zoomed /\ view' = view
    BY <1>5 DEF SplitFocused
  <2>3. Sound(root') /\ Within(root') = Within(root) \union {new}
    BY <1>1, <2>1, <2>2, SplitKeeps
  <2>4. QED
    BY <1>1, <2>2, <2>3, TabPartsNext
<1>6. ASSUME NEW i \in DOMAIN Order, ClosePane(i) PROVE IInv'
  <2>1. /\ Len(Order) > 1 /\ root' = Without(root, Order[i])
        /\ focused' = IF focused # Order[i] THEN focused
                      ELSE Order[IF i < Len(Order) THEN i + 1 ELSE i - 1]
        /\ zoomed' = zoomed /\ view' = view
    BY <1>6 DEF ClosePane
  <2>2. i \in 1 .. Len(Order) /\ Len(Order) \in Nat /\ Order[i] \in Within(root)
    BY <1>1, OrderLists
  <2>3. WayTo(root, Order[i]) # << >>
    BY <1>1, <2>1, <2>2, NotAlone
  <2>4. Sound(root') /\ Within(root') = Within(root) \ {Order[i]}
    BY <1>1, <2>1, <2>2, <2>3, WithoutKeeps
  <2>5. focused' \in Within(root')
    <3>1. CASE focused # Order[i]
      BY <1>1, <2>1, <2>4, <3>1
    <3>2. CASE focused = Order[i]
      <4> DEFINE k == IF i < Len(Order) THEN i + 1 ELSE i - 1
      <4>1. k \in 1 .. Len(Order) /\ k # i
        BY <2>1, <2>2
      <4>2. focused' = Order[k]
        BY <2>1, <3>2
      <4> HIDE DEF k
      <4>3. Order[k] \in Within(root) /\ Order[k] # Order[i]
        BY <1>1, <2>2, <4>1, OrderLists
      <4>4. QED
        BY <2>4, <4>2, <4>3
    <3>3. QED
      BY <3>1, <3>2
  <2>6. QED
    BY <1>1, <2>1, <2>4, <2>5, TabPartsNext
<1>7. ASSUME NEW p \in Within(root), NEW q \in Within(root), SwapPanes(p, q) PROVE IInv'
  <2>1. /\ p # q /\ root' = Swapped(root, p, q) /\ focused' = p
        /\ zoomed' = zoomed /\ view' = view
    BY <1>7 DEF SwapPanes
  <2>2. Sound(root') /\ Within(root') = Within(root)
    BY <1>1, <2>1, SwapKeeps
  <2>3. QED
    BY <1>1, <2>1, <2>2, TabPartsNext
<1>8. ASSUME NEW direction \in {1, -1}, CycleFocus(direction) PROVE IInv'
  <2> DEFINE i == CHOOSE j \in DOMAIN Order : Order[j] = focused
             k == ((i - 1 + direction) % Len(Order)) + 1
  <2>1. /\ Len(Order) > 1 /\ focused' = Order[k]
        /\ UNCHANGED <<root, zoomed, view>>
    BY <1>8 DEF CycleFocus
  <2>2. i \in 1 .. Len(Order) /\ Len(Order) \in Nat
    BY <1>1, OrderLists
  <2> HIDE DEF i
  <2>3. k \in 1 .. Len(Order)
    <3>1. i - 1 + direction \in Int
      BY <2>2
    <3>2. (i - 1 + direction) % Len(Order) \in 0 .. Len(Order) - 1
      BY <2>1, <2>2, <3>1
    <3>3. QED
      BY <2>2, <3>2
  <2> HIDE DEF k
  <2>4. Order[k] \in Within(root)
    BY <1>1, <2>3, OrderLists
  <2>5. QED
    BY <1>1, <1>3, <2>1, <2>4
<1>9. ASSUME NEW p \in Within(root), FocusPane(p) PROVE IInv'
  BY <1>1, <1>3, <1>9 DEF FocusPane
<1>10. ASSUME NEW direction \in Directions, MoveFocus(direction) PROVE IInv'
  <2>1. /\ InDirection(Frames, focused, direction) # {}
        /\ focused' = Neighbour(Frames, focused, direction)
        /\ UNCHANGED <<root, zoomed, view>>
    BY <1>10 DEF MoveFocus
  <2>2. Neighbour(Frames, focused, direction) \in Within(root)
    BY <1>1, <2>1, FramesTyped, NeighbourFound
  <2>3. QED
    BY <1>1, <1>3, <2>1, <2>2
<1>11. ASSUME NEW direction \in Directions, ResizeFocused(direction) PROVE IInv'
  BY <1>4, <1>11, ResizeSets
<1>12. ASSUME NEW way \in Splits(root), NEW pointer \in Pointers, DragDivider(way, pointer)
       PROVE  IInv'
  BY <1>4, <1>12, DragSets
<1>13. ASSUME ToggleZoom PROVE IInv'
  BY <1>1, <1>2, <1>3, <1>13 DEF ToggleZoom
<1>14. ASSUME NEW rect \in Rects, ResizeWindow(rect) PROVE IInv'
  BY <1>1, <1>14, TabPartsNext DEF ResizeWindow
<1>15. ASSUME UNCHANGED vars PROVE IInv'
  BY <1>1, <1>3, <1>15 DEF vars
<1>16. QED
  BY <1>5, <1>6, <1>7, <1>8, <1>9, <1>10, <1>11, <1>12, <1>13, <1>14, <1>15
     DEF Next, Axes

\* The invariant holds after every sequence of operations.
THEOREM TabInductive == Spec => []IInv
<1>1. Init => IInv
  BY TabInitially
<1>2. IInv /\ [Next]_vars => IInv'
  BY TabStepKeeps
<1>3. QED
  BY <1>1, <1>2, PTL DEF Spec

\* After every operation the tree is a tree: every split has two halves, no pane is in it
\* twice, every ratio is within 0 and 1, and the focused pane is in it (split_pane,
\* removing_pane, swap_panes, adjust_ratio, set_ratio, directional_neighbor).
THEOREM TypeCorrect == Spec => []TypeOK
<1>1. IInv => TypeOK
  BY DEF IInv
<1>2. QED
  BY <1>1, TabInductive, PTL

\* Panes and dividers tile the view whatever the tree, the ratios and the size are: they
\* lie in it, and every pixel of it belongs to exactly one of them (fill_layout).
THEOREM LayoutTiles == Spec => []Tiled
<1>1. IInv => Tiled
  BY TiledAlways DEF IInv, TypeOK
<1>2. QED
  BY <1>1, TabInductive, PTL

\* In a window with room for the tree no pane is smaller than the minimum, whatever the
\* ratios are (minimum_size and fill_layout, over nested splits).
THEOREM LayoutHonoursMinimum == Spec => []MinimumHonoured
<1>1. IInv => MinimumHonoured
  BY MinimumAlways DEF IInv, TypeOK
<1>2. QED
  BY <1>1, TabInductive, PTL

\* The ratio leaves each half of a split a tenth of it.
RatiosInv == \A w \in Splits(root) : root[w].ratio \in Tenth .. Scale - Tenth

\* A ratio of s is one of t, or is within the bounds.
RatioFrom(t, ratio) ==
  (\E u \in Splits(t) : ratio = t[u].ratio) \/ ratio \in Tenth .. Scale - Tenth

\* After every sequence of operations every ratio is between a tenth and nine tenths: a split
\* starts with one half, removals and swaps keep the ratios that are there, and the keyboard
\* and the pointer are bounded (ratio_bounds, clamp_to_bounds).
THEOREM RatiosBounded == Spec => []RatiosInv
<1>1. Init => RatiosInv
  <2>1. SUFFICES ASSUME Init PROVE Splits(root) = {}
    BY DEF RatiosInv
  <2>2. PICK p \in Panes : root = [way \in {<< >>} |-> Leaf(p)]
    BY <2>1 DEF Init
  <2>3. QED
    BY <2>2 DEF Splits, Leaf
<1>2. ASSUME IInv, RatiosInv, [Next]_vars PROVE RatiosInv'
  <2>1. Sound(root) /\ IsTree(root) /\ Shallow(root) /\ focused \in Within(root) /\ view \in Rects
    BY <1>2, TabParts DEF Sound
  <2>2. ASSUME root' = root PROVE RatiosInv'
    BY <1>2, <2>2 DEF RatiosInv, Splits
  <2>3. ASSUME \A v \in Splits(root') : RatioFrom(root, root'[v].ratio) PROVE RatiosInv'
    BY <1>2, <2>3 DEF RatiosInv, Splits, RatioFrom
  <2>4. ASSUME NEW way, NEW x, RatioSet(way, x) PROVE RatiosInv'
    <3>1. HasRatio(root', root, way, x)
      BY <2>1, <2>4, RatioNodes DEF RatioSet
    <3>2. /\ Splits(root') = Splits(root)
          /\ \A v \in Splits(root) : v # way => root'[v] = root[v]
          /\ root'[way].ratio = x
      BY <3>1 DEF HasRatio, Splits
    <3>3. QED
      BY <2>3, <2>4, <3>2 DEF RatioFrom, RatioSet
  <2>5. ASSUME NEW axis \in Axes, NEW new \in Fresh, SplitFocused(axis, new) PROVE RatiosInv'
    <3> DEFINE w == WayTo(root, focused)
    <3>1. root' = SplitAt(root, focused, axis, new) /\ new \in Panes
      BY <2>5 DEF SplitFocused, Fresh
    <3>2. HasSplit(root', root, w, focused, axis, new)
      BY <2>1, <3>1, SplitNodes
    <3> HIDE DEF w
    <3>3. ASSUME NEW v \in Splits(root')
          PROVE  RatioFrom(root, root'[v].ratio)
      <4>1. CASE v = w
        <5>1. root'[v].ratio = Scale \div 2
          BY <3>2, <4>1 DEF HasSplit, Split
        <5>2. QED
          BY <5>1, TenthTyped, RatioAssumption DEF RatioFrom
      <4>2. CASE v # w
        <5>1. v \in DOMAIN root' /\ root'[v].kind = "split"
          BY DEF Splits
        <5>2. v # First(w) /\ v # Second(w)
          BY <3>2, <5>1 DEF HasSplit, Leaf
        <5>3. v \in DOMAIN root /\ root'[v] = root[v]
          BY <3>2, <4>2, <5>1, <5>2 DEF HasSplit
        <5>4. QED
          BY <5>1, <5>3 DEF Splits, RatioFrom
      <4>3. QED
        BY <4>1, <4>2
    <3>4. QED
      BY <2>3, <3>3
  <2>6. ASSUME NEW i \in DOMAIN Order, ClosePane(i) PROVE RatiosInv'
    <3> DEFINE p == Order[i]
    <3>1. Len(Order) > 1 /\ root' = Without(root, p)
      BY <2>6 DEF ClosePane
    <3>2. p \in Within(root)
      BY <2>1, OrderLists
    <3>3. WayTo(root, p) # << >>
      BY <2>1, <3>1, <3>2, NotAlone
    <3> HIDE DEF p
    <3>4. PICK split, other : HasMerged(root', root, WayTo(root, p), split, other)
      BY <2>1, <3>1, <3>2, <3>3, WithoutNodes
    <3>5. ASSUME NEW v \in Splits(root')
          PROVE  RatioFrom(root, root'[v].ratio)
      <4>1. PICK u \in Kept(root, split, other) : v = Moved(other, split, u) /\ root'[v] = root[u]
        BY <3>4 DEF HasMerged, Splits
      <4>2. u \in DOMAIN root /\ root[u].kind = "split"
        BY <4>1 DEF Kept, Splits
      <4>3. QED
        BY <4>1, <4>2 DEF Splits, RatioFrom
    <3>6. QED
      BY <2>3, <3>5
  <2>7. ASSUME NEW p \in Within(root), NEW q \in Within(root), SwapPanes(p, q) PROVE RatiosInv'
    <3>1. root' = [way \in DOMAIN root |->
                     CASE root[way] = Leaf(p) -> Leaf(q) [] root[way] = Leaf(q) -> Leaf(p)
                       [] OTHER -> root[way]]
      BY <2>7 DEF SwapPanes, Swapped
    <3>2. ASSUME NEW v \in Splits(root')
          PROVE  v \in Splits(root) /\ root'[v] = root[v]
      <4>1. v \in DOMAIN root /\ root'[v].kind = "split"
        BY <3>1 DEF Splits
      <4>2. root'[v] = Leaf(q) \/ root'[v] = Leaf(p) \/ root'[v] = root[v]
        BY <3>1, <4>1
      <4>3. Leaf(q).kind # "split" /\ Leaf(p).kind # "split"
        BY DEF Leaf
      <4>4. QED
        BY <4>1, <4>2, <4>3 DEF Splits
    <3>3. QED
      BY <2>3, <3>2 DEF RatioFrom
  <2>8. ASSUME NEW direction \in Directions, ResizeFocused(direction) PROVE RatiosInv'
    BY <1>2, <2>4, <2>8, ResizeSets
  <2>9. ASSUME NEW way \in Splits(root), NEW pointer \in Pointers, DragDivider(way, pointer)
        PROVE  RatiosInv'
    BY <1>2, <2>4, <2>9, DragSets
  <2>10. ASSUME \/ \E direction \in {1, -1} : CycleFocus(direction)
                \/ \E p \in Within(root) : FocusPane(p)
                \/ \E direction \in Directions : MoveFocus(direction)
                \/ ToggleZoom
                \/ \E rect \in Rects : ResizeWindow(rect)
                \/ UNCHANGED vars
         PROVE  root' = root
    BY <2>10 DEF CycleFocus, FocusPane, MoveFocus, ToggleZoom, ResizeWindow, vars
  <2>11. QED
    BY <1>2, <2>2, <2>5, <2>6, <2>7, <2>8, <2>9, <2>10 DEF Next, Axes
<1>3. QED
  BY <1>1, <1>2, TabInductive, PTL DEF Spec

--------------------------------------------------------------------------------
(* What the operations do to the order of the panes. *)

\* There is one order of the panes below a node.
LEMMA IdsUnique ==
  ASSUME NEW t, IsTree(t), Shallow(t), NEW f, IdsOf(t, f)
  PROVE  PaneIds(t) = f[<< >>]
<1>1. PICK g : IdsOf(t, g) /\ PaneIds(t) = g[<< >>]
  BY IdsDefined
<1> DEFINE S == {w \in DOMAIN t : f[w] = g[w]}
<1>2. Leaves(t) \subseteq S
  BY <1>1 DEF IdsOf, Leaves
<1>3. \A w \in Splits(t) : First(w) \in S /\ Second(w) \in S => w \in S
  BY <1>1 DEF IdsOf, Splits
<1> HIDE DEF S
<1>4. DOMAIN t \subseteq S
  BY <1>2, <1>3, Upward
<1>5. << >> \in S
  BY <1>4 DEF IsTree
<1>6. QED
  BY <1>1, <1>5 DEF S

\* c is a with v in place of u.
Replaced(u, v, a, c) ==
  \E x \in Seq(Panes), y \in Seq(Panes) : a = (x \o u) \o y /\ c = (x \o v) \o y

\* c is a, but if p is one of the panes P of a, v is in place of it.
Follows(p, v, P, a, c) == IF p \in P THEN Replaced(<<p>>, v, a, c) ELSE c = a

Regrouped(a, b, c) == (a \o b) \o c = a \o (b \o c)

LEMMA Regroups ==
  ASSUME NEW a \in Seq(Panes), NEW b \in Seq(Panes), NEW c \in Seq(Panes)
  PROVE  Regrouped(a, b, c)
  BY ConcatAssociative DEF Regrouped

Around(b, x, k, y) == b \o ((x \o k) \o y) = ((b \o x) \o k) \o y

LEMMA ConcatAround ==
  ASSUME NEW b \in Seq(Panes), NEW x \in Seq(Panes), NEW k \in Seq(Panes), NEW y \in Seq(Panes)
  PROVE  Around(b, x, k, y)
<1>1. k \o y \in Seq(Panes) /\ b \o x \in Seq(Panes)
  BY ConcatProperties
<1>2. Regrouped(b, x, k \o y) /\ Regrouped(x, k, y) /\ Regrouped(b \o x, k, y)
  BY <1>1, Regroups
<1>3. QED
  BY <1>2 DEF Around, Regrouped

LEMMA ReplacedConcat ==
  ASSUME NEW u \in Seq(Panes), NEW v \in Seq(Panes), NEW a, NEW c, NEW b \in Seq(Panes),
         Replaced(u, v, a, c)
  PROVE  Replaced(u, v, a \o b, c \o b) /\ Replaced(u, v, b \o a, b \o c)
<1>1. PICK x \in Seq(Panes), y \in Seq(Panes) : a = (x \o u) \o y /\ c = (x \o v) \o y
  BY DEF Replaced
<1>2. /\ x \o u \in Seq(Panes) /\ x \o v \in Seq(Panes)
      /\ y \o b \in Seq(Panes) /\ b \o x \in Seq(Panes)
  BY ConcatProperties
<1>3. a \o b = (x \o u) \o (y \o b) /\ c \o b = (x \o v) \o (y \o b)
  <2>1. Regrouped(x \o u, y, b) /\ Regrouped(x \o v, y, b)
    BY <1>2, Regroups
  <2>2. QED
    BY <1>1, <2>1 DEF Regrouped
<1>4. Around(b, x, u, y) /\ Around(b, x, v, y)
  BY ConcatAround
<1>5. b \o a = ((b \o x) \o u) \o y /\ b \o c = ((b \o x) \o v) \o y
  BY <1>1, <1>4 DEF Around
<1>6. Replaced(u, v, a \o b, c \o b)
  BY <1>2, <1>3 DEF Replaced
<1>7. Replaced(u, v, b \o a, b \o c)
  BY <1>1, <1>2, <1>5 DEF Replaced
<1>8. QED
  BY <1>6, <1>7

LEMMA FollowsConcat ==
  ASSUME NEW p \in Panes, NEW v \in Seq(Panes), NEW P, NEW Q, NEW a, NEW b, NEW c, NEW d,
         Lists(a, P), Lists(b, Q), P \intersect Q = {},
         Follows(p, v, P, a, c), Follows(p, v, Q, b, d)
  PROVE  Follows(p, v, P \union Q, a \o b, c \o d)
<1>1. a \in Seq(Panes) /\ b \in Seq(Panes) /\ <<p>> \in Seq(Panes)
  BY DEF Lists
<1>2. CASE p \in P
  <2>1. p \notin Q /\ d = b /\ Replaced(<<p>>, v, a, c)
    BY <1>2 DEF Follows
  <2>2. Replaced(<<p>>, v, a \o b, c \o b)
    BY <1>1, <2>1, ReplacedConcat
  <2>3. QED
    BY <1>2, <2>1, <2>2 DEF Follows
<1>3. CASE p \notin P /\ p \in Q
  <2>1. c = a /\ Replaced(<<p>>, v, b, d)
    BY <1>3 DEF Follows
  <2>2. Replaced(<<p>>, v, a \o b, a \o d)
    BY <1>1, <2>1, ReplacedConcat
  <2>3. QED
    BY <1>3, <2>1, <2>2 DEF Follows
<1>4. CASE p \notin P /\ p \notin Q
  BY <1>4 DEF Follows
<1>5. QED
  BY <1>2, <1>3, <1>4

LEMMA ReplacedWhole ==
  ASSUME NEW p \in Panes, NEW v \in Seq(Panes)
  PROVE  Replaced(<<p>>, v, <<p>>, v)
<1>1. << >> \in Seq(Panes) /\ <<p>> \in Seq(Panes)
  OBVIOUS
<1>2. \A k \in Seq(Panes) : (<< >> \o k) \o << >> = k
  BY ConcatEmptySeq
<1>3. <<p>> = (<< >> \o <<p>>) \o << >> /\ v = (<< >> \o v) \o << >>
  BY <1>1, <1>2
<1>4. QED
  BY <1>1, <1>3 DEF Replaced

\* c is a with v in place of its i-th element.
PutAt(a, i, v, c) ==
  /\ SubSeq(a, 1, i - 1) \in Seq(Panes) /\ SubSeq(a, i + 1, Len(a)) \in Seq(Panes)
  /\ c = (SubSeq(a, 1, i - 1) \o v) \o SubSeq(a, i + 1, Len(a))

\* A pane has one place in a list; v takes it.
LEMMA ReplacedAt ==
  ASSUME NEW p \in Panes, NEW v \in Seq(Panes), NEW P, NEW a, NEW c, Lists(a, P),
         Replaced(<<p>>, v, a, c), NEW i \in 1 .. Len(a), a[i] = p
  PROVE  PutAt(a, i, v, c)
<1>1. PICK x \in Seq(Panes), y \in Seq(Panes) : a = (x \o <<p>>) \o y /\ c = (x \o v) \o y
  BY DEF Replaced
<1> DEFINE n == Len(x)
           u == x \o <<p>>
           head == SubSeq(a, 1, i - 1)
           rest == SubSeq(a, i + 1, Len(a))
<1>2. /\ n \in Nat /\ Len(y) \in Nat /\ a \in Seq(Panes) /\ Len(a) \in Nat
      /\ \A j, k \in 1 .. Len(a) : a[j] = a[k] => j = k
  BY LenProperties DEF Lists
<1>3. /\ u \in Seq(Panes) /\ Len(u) = n + 1
      /\ \A j \in 1 .. n + 1 : u[j] = IF j <= n THEN x[j] ELSE p
  <2> DEFINE one == <<p>>
  <2>1. one \in Seq(Panes) /\ Len(one) = 1 /\ one[1] = p
    OBVIOUS
  <2> HIDE DEF one
  <2>2. /\ x \o one \in Seq(Panes) /\ Len(x \o one) = n + 1
        /\ \A j \in 1 .. n + 1 : (x \o one)[j] = IF j <= n THEN x[j] ELSE one[j - n]
    <3>1. /\ x \o one \in Seq(Panes) /\ Len(x \o one) = n + Len(one)
          /\ \A j \in 1 .. n + Len(one) :
               (x \o one)[j] = IF j <= n THEN x[j] ELSE one[j - n]
      BY <2>1, ConcatProperties
    <3>2. n + Len(one) = n + 1
      BY <2>1
    <3>3. QED
      BY <3>1, <3>2
  <2>3. \A j \in 1 .. n + 1 : ~ (j <= n) => j - n = 1
    BY <1>2
  <2>4. \A j \in 1 .. n + 1 : (x \o one)[j] = IF j <= n THEN x[j] ELSE p
    BY <2>1, <2>2, <2>3
  <2>5. QED
    BY <2>2, <2>4 DEF one
<1> HIDE DEF u
<1>4. a = u \o y
  BY <1>1 DEF u
<1>5. /\ Len(a) = n + 1 + Len(y)
      /\ \A j \in 1 .. n + 1 + Len(y) : a[j] = IF j <= n + 1 THEN u[j] ELSE y[j - (n + 1)]
  <2>1. /\ Len(u \o y) = Len(u) + Len(y)
        /\ \A j \in 1 .. Len(u) + Len(y) :
             (u \o y)[j] = IF j <= Len(u) THEN u[j] ELSE y[j - Len(u)]
    BY <1>3, ConcatProperties
  <2> HIDE DEF n
  <2>2. QED
    BY <1>3, <1>4, <2>1
<1>6. i = n + 1
  <2>1. n + 1 \in 1 .. Len(a) /\ n + 1 \in 1 .. n + 1 /\ n + 1 <= n + 1 /\ ~ (n + 1 <= n)
        /\ n + 1 \in 1 .. n + 1 + Len(y)
    BY <1>2, <1>5
  <2>2. a[n + 1] = u[n + 1]
    BY <1>5, <2>1
  <2>3. u[n + 1] = p
    BY <1>3, <2>1
  <2>4. QED
    BY <1>2, <2>1, <2>2, <2>3
<1>7. head \in Seq(Panes) /\ head = x
  <2>1. \A j \in 1 .. i - 1 : a[j] \in Panes
    BY <1>2, <1>5, <1>6, ElementOfSeq
  <2>2. i - 1 \in Int /\ 1 \in Int
    BY <1>2, <1>6
  <2>3. /\ head \in Seq(Panes) /\ Len(head) = IF 1 <= i - 1 THEN i - 1 - 1 + 1 ELSE 0
        /\ \A j \in 1 .. i - 1 - 1 + 1 : head[j] = a[1 + j - 1]
    BY <2>1, <2>2, SubSeqProperties
  <2> HIDE DEF head
  <2>4. Len(head) = n
    BY <1>2, <1>6, <2>3
  <2>5. ASSUME NEW j \in 1 .. n PROVE head[j] = x[j]
    <3>1. j \in 1 .. i - 1 - 1 + 1 /\ 1 + j - 1 = j /\ j \in 1 .. n + 1 /\ j <= n
          /\ j <= n + 1 /\ j \in 1 .. n + 1 + Len(y)
      BY <1>2, <1>6
    <3>2. head[j] = a[j]
      BY <2>3, <3>1
    <3>3. a[j] = u[j]
      BY <1>5, <3>1
    <3>4. u[j] = x[j]
      BY <1>3, <3>1
    <3>5. QED
      BY <3>2, <3>3, <3>4
  <2>6. QED
    BY <2>3, <2>4, <2>5, SeqEqual
<1>8. rest \in Seq(Panes) /\ rest = y
  <2> DEFINE m == Len(a)
  <2>1. \A j \in i + 1 .. m : a[j] \in Panes
    BY <1>2, <1>5, <1>6, ElementOfSeq
  <2>2. i + 1 \in Int /\ m \in Int
    BY <1>2, <1>6
  <2>3. rest = SubSeq(a, i + 1, m)
    OBVIOUS
  <2> HIDE DEF rest, m
  <2>4. /\ rest \in Seq(Panes) /\ Len(rest) = IF i + 1 <= m THEN m - (i + 1) + 1 ELSE 0
        /\ \A j \in 1 .. m - (i + 1) + 1 : rest[j] = a[i + 1 + j - 1]
    BY <2>1, <2>2, <2>3, SubSeqProperties
  <2>5. m = n + 1 + Len(y)
    BY <1>5 DEF m
  <2>6. Len(rest) = Len(y)
    BY <1>2, <1>6, <2>4, <2>5
  <2>7. ASSUME NEW j \in 1 .. Len(y) PROVE rest[j] = y[j]
    <3>1. /\ j \in 1 .. m - (i + 1) + 1 /\ i + 1 + j - 1 \in 1 .. n + 1 + Len(y)
          /\ ~ (i + 1 + j - 1 <= n + 1) /\ i + 1 + j - 1 - (n + 1) = j
      BY <1>2, <1>6, <2>5
    <3>2. rest[j] = a[i + 1 + j - 1]
      BY <2>4, <3>1
    <3>3. PICK k \in 1 .. n + 1 + Len(y) :
            k = i + 1 + j - 1 /\ ~ (k <= n + 1) /\ k - (n + 1) = j
      <4>1. i \in Nat /\ j \in Nat /\ n \in Nat
        BY <1>2, <1>6
      <4> HIDE DEF n
      <4>2. QED
        BY <3>1, <4>1
    <3>4. a[k] = y[j]
      BY <1>5, <3>3
    <3>5. QED
      BY <3>2, <3>3, <3>4
  <2>8. QED
    BY <2>4, <2>6, <2>7, SeqEqual
<1>9. QED
  BY <1>1, <1>7, <1>8 DEF PutAt

\* Splitting a pane puts the new one right after it.
LEMMA SplitOrder ==
  ASSUME NEW t, Sound(t), NEW p \in Within(t), NEW axis \in Axes,
         NEW new \in Panes \ Within(t)
  PROVE  Replaced(<<p>>, <<p>> \o <<new>>, PaneIds(t), PaneIds(SplitAt(t, p, axis, new)))
<1> DEFINE w == WayTo(t, p)
           s == SplitAt(t, p, axis, new)
           both == <<p>> \o <<new>>
<1>1. IsTree(t) /\ Shallow(t) /\ OncePerPane(t) /\ t[w].id = p
  BY WayToPane DEF Sound
<1>2. HasSplit(s, t, w, p, axis, new) /\ IsTree(s) /\ Shallow(s)
  BY <1>1, SplitNodes, SplitKeeps DEF Sound
<1>3. p \in Panes /\ both \in Seq(Panes) /\ <<p>> \in Seq(Panes)
  <2>1. p \in Panes
    BY <1>1, TreeNodes DEF Within, Leaves
  <2>2. <<p>> \in Seq(Panes) /\ <<new>> \in Seq(Panes)
    BY <2>1
  <2>3. QED
    BY <2>1, <2>2, ConcatProperties
<1> HIDE DEF w, s
<1>4. PICK f : IdsOf(t, f) /\ PaneIds(t) = f[<< >>]
  BY <1>1, IdsDefined
<1>5. PICK g : IdsOf(s, g) /\ PaneIds(s) = g[<< >>]
  BY <1>2, IdsDefined
<1>6. g[w] = both
  <2>1. w \in Splits(s) /\ First(w) \in Leaves(s) /\ Second(w) \in Leaves(s)
    BY <1>2, NewSplit DEF HasSplit, Leaves, Splits, Leaf
  <2>2. w \in DOMAIN s /\ First(w) \in DOMAIN s /\ Second(w) \in DOMAIN s
    BY <2>1 DEF Leaves, Splits
  <2>3. g[w] = g[First(w)] \o g[Second(w)]
    BY <1>5, <2>1, <2>2 DEF IdsOf
  <2>4. g[First(w)] = <<s[First(w)].id>> /\ g[Second(w)] = <<s[Second(w)].id>>
    BY <1>5, <2>1, <2>2 DEF IdsOf
  <2>5. s[First(w)].id = p /\ s[Second(w)].id = new
    BY <1>2 DEF HasSplit, Leaf
  <2>6. QED
    BY <2>3, <2>4, <2>5
<1> HIDE DEF both
<1> DEFINE S == {v \in DOMAIN t : Follows(p, both, PanesBelow(t, v), f[v], g[v])}
<1>7. ASSUME NEW v \in Leaves(t) PROVE v \in S
  <2>1. v \in DOMAIN t /\ f[v] = <<t[v].id>> /\ PanesBelow(t, v) = {t[v].id}
    BY <1>1, <1>4, PanesOfNode DEF IdsOf, Leaves
  <2>2. CASE v = w
    <3>1. Replaced(<<p>>, both, <<p>>, both)
      BY <1>3, ReplacedWhole
    <3>2. QED
      BY <1>1, <1>6, <2>1, <2>2, <3>1 DEF Follows
  <2>3. CASE v # w
    <3>1. t[v].id # p
      BY <1>1, <1>2, <2>3 DEF OncePerPane, HasSplit
    <3>2. s[v] = t[v] /\ v \in DOMAIN s
      BY <1>2, <2>1, <2>3 DEF HasSplit
    <3>3. v \in Leaves(s)
      BY <3>2 DEF Leaves, Splits
    <3>4. g[v] = <<t[v].id>>
      BY <1>5, <3>2, <3>3 DEF IdsOf
    <3>5. QED
      BY <2>1, <3>1, <3>4 DEF Follows
  <2>4. QED
    BY <2>2, <2>3
<1>8. ASSUME NEW v \in Splits(t), First(v) \in S, Second(v) \in S PROVE v \in S
  <2>1. /\ v \in DOMAIN t /\ First(v) \in DOMAIN t /\ Second(v) \in DOMAIN t
        /\ f[v] = f[First(v)] \o f[Second(v)]
    BY <1>4, <1>8 DEF IdsOf, Splits
  <2>2. v \in Splits(s) /\ v \in DOMAIN s
    BY <1>2, <2>1 DEF HasSplit, Leaves, Splits
  <2>3. g[v] = g[First(v)] \o g[Second(v)]
    BY <1>5, <2>2 DEF IdsOf
  <2>4. /\ PanesBelow(t, v) = PanesBelow(t, First(v)) \union PanesBelow(t, Second(v))
        /\ PanesBelow(t, First(v)) \intersect PanesBelow(t, Second(v)) = {}
    BY <1>1, <2>1, PanesOfNode
  <2>5. Lists(f[First(v)], PanesBelow(t, First(v)))
          /\ Lists(f[Second(v)], PanesBelow(t, Second(v)))
    BY <1>1, <1>4, <2>1, IdsList
  <2>6. /\ Follows(p, both, PanesBelow(t, First(v)), f[First(v)], g[First(v)])
        /\ Follows(p, both, PanesBelow(t, Second(v)), f[Second(v)], g[Second(v)])
    BY <1>8
  <2>7. Follows(p, both, PanesBelow(t, First(v)) \union PanesBelow(t, Second(v)),
                f[First(v)] \o f[Second(v)], g[First(v)] \o g[Second(v)])
    BY <1>3, <2>4, <2>5, <2>6, FollowsConcat
  <2>8. QED
    BY <2>1, <2>3, <2>4, <2>7
<1>9. << >> \in S
  <2>1. Leaves(t) \subseteq S
    BY <1>7
  <2> HIDE DEF S
  <2>2. DOMAIN t \subseteq S
    BY <1>1, <1>8, <2>1, Upward
  <2>3. QED
    BY <1>1, <2>2 DEF IsTree
<1>10. << >> \in DOMAIN t /\ PanesBelow(t, << >>) = Within(t)
  BY <1>1, PanesOfNode DEF IsTree
<1>11. Replaced(<<p>>, both, PaneIds(t), PaneIds(s))
  BY <1>4, <1>5, <1>9, <1>10 DEF Follows
<1>12. QED
  BY <1>11 DEF both, s

\* Removing a pane leaves the others in their order.
LEMMA WithoutOrder ==
  ASSUME NEW t, Sound(t), NEW p \in Within(t), WayTo(t, p) # << >>
  PROVE  Replaced(<<p>>, << >>, PaneIds(t), PaneIds(Without(t, p)))
<1> DEFINE w == WayTo(t, p)
           s == Without(t, p)
           none == << >>
<1>1. IsTree(t) /\ Shallow(t) /\ OncePerPane(t) /\ t[w].id = p /\ p \in Panes
  <2>1. IsTree(t) /\ Shallow(t) /\ OncePerPane(t) /\ t[w].id = p
    BY WayToPane DEF Sound
  <2>2. QED
    BY <2>1, TreeNodes DEF Within, Leaves
<1>2. none \in Seq(Panes) /\ <<p>> \in Seq(Panes) /\ IsTree(s) /\ Shallow(s)
  BY <1>1, WithoutKeeps, EmptySeq DEF Sound
<1>3. PICK split, other : HasMerged(s, t, w, split, other)
  BY <1>1, WithoutNodes
<1> HIDE DEF w, s
<1> DEFINE K == Kept(t, split, other)
           up(u) == Moved(other, split, u)
           P(u) == PanesBelow(t, u)
<1>4. /\ IsHalf(t, split, other)
      /\ w \in Leaves(t) /\ w \in DOMAIN t /\ w \in Ways
      /\ w = First(split) \/ w = Second(split)
      /\ w # other
      /\ DOMAIN s = {up(u) : u \in K}
      /\ \A u \in K : s[up(u)] = t[u]
  BY <1>3 DEF HasMerged
<1>5. other \in K /\ up(other) = split /\ split \notin K
  BY <1>4, KeptOther
<1>6. \A u \in K : u \in DOMAIN t
  BY <1>1, <1>4, KeptCases
<1>7. \A u \in K : u \in Splits(t) =>
        \A h \in Halves : \/ Append(u, h) \in K /\ Append(up(u), h) = up(Append(u, h))
                          \/ Append(u, h) = split /\ Append(up(u), h) = split
  BY <1>1, <1>4, KeptAfter
<1>8. w \notin K
  <2>1. IsPrefix(split, w) /\ IsPrefix(w, w)
    BY <1>4, PrefixOfHalves, PrefixFacts DEF IsHalf
  <2>2. ~ IsPrefix(other, w)
    BY <1>4, <2>1, PrefixOfHalves DEF IsHalf
  <2>3. QED
    BY <2>1, <2>2 DEF Kept
<1>9. split = << >> \/ (<< >> \in K /\ up(<< >>) = << >>)
  <2>1. ASSUME split # << >>
        PROVE  ~ IsPrefix(split, << >>) /\ ~ IsPrefix(other, << >>) /\ << >> \in DOMAIN t
    BY <1>1, <1>4, <2>1, PrefixFacts, HalfOf DEF IsTree, IsHalf
  <2>2. QED
    BY <2>1 DEF Kept, Moved
<1> HIDE DEF K, up
<1>10. PICK f : IdsOf(t, f) /\ PaneIds(t) = f[<< >>]
  BY <1>1, IdsDefined
<1>11. PICK g : IdsOf(s, g) /\ PaneIds(s) = g[<< >>]
  BY <1>2, IdsDefined
<1>12. /\ \A u \in K : u \in Leaves(t) => g[up(u)] = <<t[u].id>>
       /\ \A u \in K : u \in Splits(t) => g[up(u)] = g[First(up(u))] \o g[Second(up(u))]
  <2>1. \A u \in K : up(u) \in DOMAIN s
    BY <1>4
  <2>2. \A u \in K : u \in Leaves(t) => up(u) \in Leaves(s) /\ s[up(u)].id = t[u].id
    BY <1>4, <1>6, <2>1 DEF Leaves, Splits
  <2>3. \A u \in K : u \in Splits(t) => up(u) \in Splits(s)
    BY <1>4, <1>6, <2>1 DEF Splits
  <2>4. QED
    BY <1>11, <2>1, <2>2, <2>3 DEF IdsOf
<1> HIDE DEF none, P
<1> DEFINE Out(u, v) == Follows(p, none, P(u), f[u], g[v])
           S == {u \in DOMAIN t : (u \in K => Out(u, up(u))) /\ (u = split => Out(u, u))}
<1>13. ASSUME NEW u \in Leaves(t) PROVE u \in S
  <2>1. u \in DOMAIN t /\ f[u] = <<t[u].id>> /\ P(u) = {t[u].id}
    BY <1>1, <1>10, PanesOfNode DEF IdsOf, Leaves, P
  <2>2. u # split
    BY <1>4 DEF IsHalf, Leaves
  <2>3. ASSUME u \in K PROVE Out(u, up(u))
    <3>1. t[u].id # p
      BY <1>1, <1>4, <1>8, <2>3 DEF OncePerPane
    <3>2. g[up(u)] = <<t[u].id>>
      BY <1>12, <2>3
    <3>3. QED
      BY <2>1, <3>1, <3>2 DEF Follows
  <2>4. QED
    BY <2>1, <2>2, <2>3
<1>14. ASSUME NEW u \in Splits(t), First(u) \in S, Second(u) \in S PROVE u \in S
  <2>1. /\ u \in DOMAIN t /\ First(u) \in DOMAIN t /\ Second(u) \in DOMAIN t
        /\ f[u] = f[First(u)] \o f[Second(u)]
    BY <1>10, <1>14 DEF IdsOf, Splits
  <2>2. P(u) = P(First(u)) \union P(Second(u)) /\ P(First(u)) \intersect P(Second(u)) = {}
    BY <1>1, <2>1, PanesOfNode DEF P
  <2>3. Lists(f[First(u)], P(First(u))) /\ Lists(f[Second(u)], P(Second(u)))
    BY <1>1, <1>10, <2>1, IdsList DEF P
  <2>4. ASSUME u \in K PROVE Out(u, up(u))
    <3>1. ASSUME NEW h \in Halves, Append(u, h) \in S
          PROVE  Out(Append(u, h), Append(up(u), h))
      BY <1>7, <2>4, <3>1
    <3>2. Out(First(u), First(up(u))) /\ Out(Second(u), Second(up(u)))
      <4> HIDE DEF Out, S
      <4>1. QED
        BY <1>14, <3>1 DEF First, Second, Halves
    <3>3. Follows(p, none, P(First(u)) \union P(Second(u)), f[First(u)] \o f[Second(u)],
                  g[First(up(u))] \o g[Second(up(u))])
      BY <1>1, <1>2, <2>2, <2>3, <3>2, FollowsConcat
    <3>4. QED
      BY <1>12, <2>1, <2>2, <2>4, <3>3
  <2>5. ASSUME u = split PROVE Out(u, u)
    <3>1. f[w] = <<p>> /\ P(w) = {p}
      BY <1>1, <1>4, <1>10, PanesOfNode DEF IdsOf, P
    <3>2. Out(other, split)
      BY <1>4, <1>5, <1>14, <2>5 DEF IsHalf
    <3>3. \/ other = First(u) /\ w = Second(u)
          \/ other = Second(u) /\ w = First(u)
      BY <1>4, <2>5 DEF IsHalf
    <3>4. p \notin P(other) /\ p \in P(u) /\ f[other] \in Seq(Panes)
      BY <2>2, <2>3, <3>1, <3>3 DEF Lists
    <3>5. g[u] = f[other]
      BY <2>5, <3>2, <3>4 DEF Follows
    <3>6. Replaced(<<p>>, none, <<p>>, none)
      BY <1>1, <1>2, ReplacedWhole
    <3>7. /\ Replaced(<<p>>, none, <<p>> \o f[other], none \o f[other])
          /\ Replaced(<<p>>, none, f[other] \o <<p>>, f[other] \o none)
      BY <1>2, <3>4, <3>6, ReplacedConcat
    <3>8. none \o f[other] = f[other] /\ f[other] \o none = f[other]
      BY <3>4, ConcatEmptySeq DEF none
    <3>9. Replaced(<<p>>, none, f[u], g[u])
      BY <2>1, <3>1, <3>3, <3>5, <3>7, <3>8
    <3>10. QED
      BY <3>4, <3>9 DEF Follows
  <2>6. QED
    BY <2>1, <2>4, <2>5
<1>15. << >> \in S
  <2>1. Leaves(t) \subseteq S
    BY <1>13
  <2> HIDE DEF S
  <2>2. DOMAIN t \subseteq S
    BY <1>1, <1>14, <2>1, Upward
  <2>3. QED
    BY <1>1, <2>2 DEF IsTree
<1>16. P(<< >>) = Within(t)
  BY <1>1, PanesOfNode DEF IsTree, P
<1>17. Out(<< >>, << >>)
  BY <1>9, <1>15
<1>18. Replaced(<<p>>, none, PaneIds(t), PaneIds(s))
  BY <1>10, <1>11, <1>16, <1>17 DEF Follows
<1>19. QED
  BY <1>18 DEF none, s

LEMMA RatioOrder ==
  ASSUME NEW t, Sound(t), NEW way \in Splits(t), NEW ratio \in 0 .. Scale
  PROVE  PaneIds(WithRatio(t, way, ratio)) = PaneIds(t)
<1> DEFINE s == WithRatio(t, way, ratio)
<1>1. IsTree(t) /\ Shallow(t) /\ IsTree(s) /\ Shallow(s)
  BY RatioKeeps DEF Sound
<1>2. /\ way \in DOMAIN t /\ DOMAIN s = DOMAIN t
      /\ \A v \in DOMAIN t : v # way => s[v] = t[v]
      /\ s[way] = [t[way] EXCEPT !.ratio = ratio]
  BY DEF WithRatio, Splits
<1> HIDE DEF s
<1>3. Splits(s) = Splits(t)
  <2>1. t[way] \in Nodes /\ t[way].kind = "split"
    BY <1>1 DEF IsTree, Splits
  <2>2. t[way] \in [kind : {"split"}, axis : Axes, ratio : 0 .. Scale]
    BY <2>1 DEF Nodes, Leaf
  <2>3. s[way].kind = "split"
    BY <1>2, <2>2
  <2>4. QED
    BY <1>2, <2>1, <2>3 DEF Splits
<1>4. Leaves(s) = Leaves(t) /\ \A v \in Leaves(t) : s[v] = t[v]
  BY <1>2, <1>3 DEF Leaves
<1>5. PICK f : IdsOf(t, f) /\ PaneIds(t) = f[<< >>]
  BY <1>1, IdsDefined
<1>6. IdsOf(s, f)
  BY <1>2, <1>3, <1>4, <1>5 DEF IdsOf
<1>7. PaneIds(s) = f[<< >>]
  BY <1>1, <1>6, IdsUnique
<1>8. QED
  BY <1>5, <1>7 DEF s

\* c is a with p and q in each other's places.
Exchange(p, q, x) == IF x = p THEN q ELSE IF x = q THEN p ELSE x
Exchanged(p, q, a, c) ==
  /\ a \in Seq(Panes) /\ c \in Seq(Panes) /\ Len(c) = Len(a)
  /\ \A i \in 1 .. Len(a) : c[i] = Exchange(p, q, a[i])

LEMMA ExchangedConcat ==
  ASSUME NEW p, NEW q, NEW a, NEW b, NEW c, NEW d,
         Exchanged(p, q, a, c), Exchanged(p, q, b, d)
  PROVE  Exchanged(p, q, a \o b, c \o d)
<1> DEFINE n == Len(a)
           m == Len(b)
           before == a \o b
           after == c \o d
<1>1. /\ a \in Seq(Panes) /\ b \in Seq(Panes) /\ c \in Seq(Panes) /\ d \in Seq(Panes)
      /\ Len(c) = n /\ Len(d) = m /\ n \in Nat /\ m \in Nat
      /\ \A i \in 1 .. n : c[i] = Exchange(p, q, a[i])
      /\ \A i \in 1 .. m : d[i] = Exchange(p, q, b[i])
  BY LenProperties DEF Exchanged
<1>2. /\ before \in Seq(Panes) /\ Len(before) = n + m
      /\ \A i \in 1 .. n + m : before[i] = IF i <= n THEN a[i] ELSE b[i - n]
  BY <1>1, ConcatProperties
<1>3. /\ after \in Seq(Panes) /\ Len(after) = n + m
      /\ \A i \in 1 .. n + m : after[i] = IF i <= n THEN c[i] ELSE d[i - n]
  <2>1. c \in Seq(Panes) /\ d \in Seq(Panes)
    BY <1>1
  <2>2. /\ after \in Seq(Panes) /\ Len(after) = Len(c) + Len(d)
        /\ \A i \in 1 .. Len(c) + Len(d) :
             after[i] = IF i <= Len(c) THEN c[i] ELSE d[i - Len(c)]
    BY <2>1, ConcatProperties
  <2> HIDE DEF after, n, m
  <2>3. QED
    BY <1>1, <2>2
<1> HIDE DEF before, after, n, m
<1>4. ASSUME NEW i \in 1 .. n + m PROVE after[i] = Exchange(p, q, before[i])
  <2>1. CASE i <= n
    <3>1. i \in 1 .. n
      BY <1>1, <2>1
    <3>2. QED
      BY <1>1, <1>2, <1>3, <2>1, <3>1
  <2>2. CASE ~ (i <= n)
    <3>1. i - n \in 1 .. m
      BY <1>1, <2>2
    <3>2. before[i] = b[i - n] /\ after[i] = d[i - n]
      BY <1>2, <1>3, <2>2
    <3>3. QED
      BY <1>1, <3>1, <3>2
  <2>3. QED
    BY <2>1, <2>2
<1>5. Exchanged(p, q, before, after)
  BY <1>2, <1>3, <1>4 DEF Exchanged
<1>6. QED
  BY <1>5 DEF before, after

\* Swapping two panes exchanges them in the order, and moves no other.
LEMMA SwapOrder ==
  ASSUME NEW t, Sound(t), NEW p \in Within(t), NEW q \in Within(t), p # q
  PROVE  Exchanged(p, q, PaneIds(t), PaneIds(Swapped(t, p, q)))
<1> DEFINE s == Swapped(t, p, q)
<1>1. IsTree(t) /\ Shallow(t) /\ IsTree(s) /\ Shallow(s) /\ Within(t) \subseteq Panes
  <2>1. IsTree(t)
    BY DEF Sound
  <2>2. QED
    BY <2>1, SwapKeeps, TreeNodes DEF Sound, Within, Leaves
<1>2. DOMAIN s = DOMAIN t
  BY DEF Swapped
<1>3. ASSUME NEW v \in Leaves(t) PROVE s[v] = Leaf(Exchange(p, q, t[v].id))
  <2>1. t[v] = Leaf(t[v].id) /\ v \in DOMAIN t
    BY <1>1, TreeNodes DEF Leaves
  <2>2. /\ t[v] = Leaf(p) <=> t[v].id = p
        /\ t[v] = Leaf(q) <=> t[v].id = q
    BY <2>1 DEF Leaf
  <2>3. QED
    BY <2>1, <2>2 DEF Swapped, Exchange
<1>4. ASSUME NEW v \in Splits(t) PROVE s[v] = t[v]
  <2>1. t[v].kind = "split" /\ v \in DOMAIN t
    BY DEF Splits
  <2>2. t[v] # Leaf(p) /\ t[v] # Leaf(q)
    BY <2>1 DEF Leaf
  <2>3. QED
    BY <2>1, <2>2 DEF Swapped
<1> HIDE DEF s
<1>5. \A v \in Splits(t) : v \in Splits(s)
  BY <1>2, <1>4 DEF Splits
<1>6. \A v \in Leaves(t) : v \in Leaves(s) /\ s[v].id = Exchange(p, q, t[v].id)
  BY <1>2, <1>3 DEF Leaves, Splits, Leaf
<1>7. PICK f : IdsOf(t, f) /\ PaneIds(t) = f[<< >>]
  BY <1>1, IdsDefined
<1>8. PICK g : IdsOf(s, g) /\ PaneIds(s) = g[<< >>]
  BY <1>1, IdsDefined
<1> DEFINE S == {v \in DOMAIN t : Exchanged(p, q, f[v], g[v])}
<1>9. ASSUME NEW v \in Leaves(t) PROVE v \in S
  <2> DEFINE x == t[v].id
             y == Exchange(p, q, x)
  <2>1. v \in DOMAIN t /\ f[v] = <<x>> /\ g[v] = <<y>>
    BY <1>2, <1>6, <1>7, <1>8 DEF IdsOf, Leaves
  <2>2. x \in Panes /\ y \in Panes
    BY <1>1 DEF Within, Exchange
  <2> HIDE DEF x
  <2>3. /\ <<x>> \in Seq(Panes) /\ Len(<<x>>) = 1 /\ <<x>>[1] = x
        /\ <<y>> \in Seq(Panes) /\ Len(<<y>>) = 1 /\ <<y>>[1] = y
    BY <2>2
  <2> HIDE DEF y
  <2>4. \A i \in 1 .. 1 : i = 1
    OBVIOUS
  <2>5. Exchanged(p, q, <<x>>, <<y>>)
    BY <2>3, <2>4 DEF Exchanged, y
  <2>6. QED
    BY <2>1, <2>5
<1>10. ASSUME NEW v \in Splits(t), First(v) \in S, Second(v) \in S PROVE v \in S
  <2>1. v \in DOMAIN t /\ f[v] = f[First(v)] \o f[Second(v)]
    BY <1>7 DEF IdsOf, Splits
  <2>2. g[v] = g[First(v)] \o g[Second(v)]
    BY <1>2, <1>5, <1>8, <2>1 DEF IdsOf
  <2>3. Exchanged(p, q, f[First(v)] \o f[Second(v)], g[First(v)] \o g[Second(v)])
    BY <1>10, ExchangedConcat
  <2>4. QED
    BY <2>1, <2>2, <2>3
<1>11. << >> \in S
  <2>1. Leaves(t) \subseteq S
    BY <1>9
  <2> HIDE DEF S
  <2>2. DOMAIN t \subseteq S
    BY <1>1, <1>10, <2>1, Upward
  <2>3. QED
    BY <1>1, <2>2 DEF IsTree
<1>12. QED
  BY <1>7, <1>8, <1>11 DEF s

LEMMA Inserted ==
  ASSUME NEW s, NEW k, NEW x
  PROVE  Tab!InsertAt(s, k, x) = (SubSeq(s, 1, k - 1) \o <<x>>) \o SubSeq(s, k, Len(s))
  BY DEF Tab!InsertAt

LEMMA InsertedAfter ==
  ASSUME Sound(root), NEW i \in 1 .. Len(Order), NEW new \in Panes, NEW c,
         Replaced(<<Order[i]>>, <<Order[i]>> \o <<new>>, Order, c)
  PROVE  c = Tab!InsertAt(Order, i + 1, new)
<1> DEFINE p    == Order[i]
           head == SubSeq(Order, 1, i - 1)
           rest == SubSeq(Order, i + 1, Len(Order))
           one  == <<p>>
           two  == <<new>>
<1>1. Lists(Order, Within(root)) /\ Order \in Seq(Panes) /\ Len(Order) \in Nat
  BY PaneIdsList, OrderLists DEF Sound, Order
<1>2. p \in Panes
  BY <1>1, ElementOfSeq
<1>3. one \in Seq(Panes) /\ two \in Seq(Panes)
  BY <1>2
<1>4. SubSeq(Order, 1, i) = head \o one
  <2>1. 1 \in 1 .. Len(Order) /\ i \in 1 .. Len(Order)
    BY <1>1
  <2>2. QED
    BY <1>1, <2>1, SubSeqRecursiveSecond
<1>5. Tab!InsertAt(Order, i + 1, new) = (SubSeq(Order, 1, i) \o two) \o rest
  <2> DEFINE k == i + 1
  <2>1. k - 1 = i
    BY <1>1
  <2>2. rest = SubSeq(Order, k, Len(Order))
    OBVIOUS
  <2> HIDE DEF k, rest
  <2>3. Tab!InsertAt(Order, k, new) = (SubSeq(Order, 1, k - 1) \o two) \o rest
    BY <2>2, Inserted
  <2>4. QED
    BY <2>1, <2>3 DEF k
<1> HIDE DEF one, two, p
<1>6. one \o two \in Seq(Panes) /\ Replaced(<<p>>, one \o two, Order, c)
  BY <1>3, ConcatProperties DEF one, two, p
<1>7. head \in Seq(Panes) /\ c = (head \o (one \o two)) \o rest
  <2>1. PutAt(Order, i, one \o two, c)
    BY <1>1, <1>2, <1>6, ReplacedAt DEF p
  <2>2. QED
    BY <2>1 DEF PutAt
<1> HIDE DEF head, rest
<1>8. Regrouped(head, one, two)
  BY <1>3, <1>7, Regroups
<1>9. QED
  BY <1>4, <1>5, <1>7, <1>8 DEF Regrouped

LEMMA RemovedThere ==
  ASSUME Sound(root), NEW i \in 1 .. Len(Order), NEW c,
         Replaced(<<Order[i]>>, << >>, Order, c)
  PROVE  c = Tab!RemoveAt(Order, i)
<1> DEFINE p    == Order[i]
           head == SubSeq(Order, 1, i - 1)
           rest == SubSeq(Order, i + 1, Len(Order))
           none == << >>
<1>1. Lists(Order, Within(root)) /\ Order \in Seq(Panes) /\ none \in Seq(Panes)
  BY PaneIdsList, OrderLists, EmptySeq DEF Sound, Order
<1>2. p \in Panes /\ Replaced(<<p>>, none, Order, c)
  BY <1>1, ElementOfSeq
<1> HIDE DEF none
<1>3. head \in Seq(Panes) /\ c = (head \o none) \o rest
  <2>1. Order[i] = p
    OBVIOUS
  <2> HIDE DEF p
  <2>2. PutAt(Order, i, none, c)
    BY <1>1, <1>2, <2>1, ReplacedAt
  <2>3. QED
    BY <2>2 DEF PutAt
<1>4. head \o none = head
  BY <1>3, ConcatEmptySeq DEF none
<1>5. Tab!RemoveAt(Order, i) = head \o rest
  BY DEF Tab!RemoveAt
<1>6. QED
  BY <1>3, <1>4, <1>5

LEMMA ExchangedThere ==
  ASSUME Sound(root), NEW i \in 1 .. Len(Order), NEW j \in 1 .. Len(Order), i # j, NEW c,
         Exchanged(Order[i], Order[j], Order, c)
  PROVE  c = [Order EXCEPT ![i] = Order[j], ![j] = Order[i]]
<1> DEFINE d == [Order EXCEPT ![i] = Order[j], ![j] = Order[i]]
           n == Len(Order)
<1>1. /\ Order \in Seq(Panes) /\ n \in Nat
      /\ \A k, l \in 1 .. n : Order[k] = Order[l] => k = l
  BY OrderLists
<1>2. Order \in [1 .. n -> Panes]
  BY <1>1, SeqDef
<1>3. d \in [1 .. n -> Panes]
  BY <1>2
<1>4. d \in Seq(Panes) /\ Len(d) = n
  <2> HIDE DEF d, n
  <2>1. d \in Seq(Panes)
    BY <1>1, <1>3, SeqDef
  <2>2. DOMAIN d = 1 .. n /\ DOMAIN d = 1 .. Len(d) /\ Len(d) \in Nat
    BY <1>3, <2>1, LenProperties
  <2>3. QED
    BY <1>1, <2>1, <2>2
<1>5. ASSUME NEW k \in 1 .. n PROVE d[k] = Exchange(Order[i], Order[j], Order[k])
  <2>1. d[k] = IF k = j THEN Order[i] ELSE IF k = i THEN Order[j] ELSE Order[k]
    BY <1>2
  <2>2. /\ Order[k] = Order[i] <=> k = i
        /\ Order[k] = Order[j] <=> k = j
    BY <1>1
  <2> HIDE DEF d
  <2>3. QED
    BY <2>1, <2>2 DEF Exchange
<1> HIDE DEF d
<1>6. c \in Seq(Panes) /\ Len(c) = n /\ \A k \in 1 .. n : c[k] = d[k]
  BY <1>5 DEF Exchanged
<1>7. c = d
  BY <1>4, <1>6, SeqEqual
<1>8. QED
  BY <1>7 DEF d

\* What TabKept allows a step to be, by the operations of the hierarchy model.
Refocused == \E p \in ToSet(tab.panes) : tab' = [tab EXCEPT !.focused = p]
SplitInModel == \E new \in Panes \ ToSet(tab.panes) : tab' = Tab!PaneSplit(tab, focused, new)
RemovedInModel ==
  Len(tab.panes) > 1 /\ \E p \in ToSet(tab.panes) : tab' = Tab!PaneRemoved(tab, p)
SwappedInModel ==
  \E p, q \in ToSet(tab.panes) :
    Tab!CanSwap(tab, p, q) /\ tab' = Tab!PanesSwapped([tab EXCEPT !.focused = p], p, q)

LEMMA PanesOfOrder ==
  ASSUME Sound(root)
  PROVE  ToSet(Order) = Within(root) /\ tab.panes = Order /\ tab.focused = focused
<1>1. ToSet(Order) = Within(root)
  BY OrderLists DEF ToSet
<1>2. QED
  BY <1>1 DEF tab

LEMMA TabAfter ==
  tab' = [panes |-> PaneIds(root'), focused |-> focused']
  BY DEF tab, Order

\* The operations of the hierarchy model, written out.
LEMMA TabFields ==
  ASSUME NEW o, NEW f, NEW r, r = [panes |-> o, focused |-> f], NEW x
  PROVE  /\ [r EXCEPT !.panes = x] = [panes |-> x, focused |-> f]
         /\ [r EXCEPT !.focused = x] = [panes |-> o, focused |-> x]
         /\ r.panes = o /\ r.focused = f
  OBVIOUS

LEMMA ModelSplits ==
  ASSUME NEW o, NEW f, NEW r, r = [panes |-> o, focused |-> f], NEW p, NEW q
  PROVE  Tab!PaneSplit(r, p, q) =
           [panes |-> Tab!InsertAt(o, Tab!LeafOf(r, p) + 1, q), focused |-> q]
<1> DEFINE a == Tab!InsertAt(r.panes, Tab!LeafOf(r, p) + 1, q)
           s == [r EXCEPT !.panes = a]
<1>1. Tab!PaneSplit(r, p, q) = [s EXCEPT !.focused = q]
  BY Zenon DEF Tab!PaneSplit
<1>2. a = Tab!InsertAt(o, Tab!LeafOf(r, p) + 1, q)
  <2>1. r.panes = o
    BY TabFields
  <2>2. QED
    BY <2>1, Zenon
<1> HIDE DEF a
<1>3. s = [panes |-> a, focused |-> f]
  BY TabFields
<1> HIDE DEF s
<1>4. QED
  BY <1>1, <1>2, <1>3, TabFields

LEMMA ModelRemoves ==
  ASSUME NEW o, NEW f, NEW r, r = [panes |-> o, focused |-> f], NEW p, NEW i,
         Tab!LeafOf(r, p) = i
  PROVE  Tab!PaneRemoved(r, p) =
           [panes |-> Tab!RemoveAt(o, i),
            focused |-> IF f # p THEN f ELSE o[IF i < Len(o) THEN i + 1 ELSE i - 1]]
<1> DEFINE a == Tab!RemoveAt(r.panes, i)
           s == [r EXCEPT !.panes = a]
           b == IF r.focused # p THEN r.focused
                ELSE r.panes[IF i < Len(r.panes) THEN i + 1 ELSE i - 1]
<1>1. Tab!PaneRemoved(r, p) = [s EXCEPT !.focused = b]
  BY Zenon DEF Tab!PaneRemoved
<1>2. a = Tab!RemoveAt(o, i) /\ b = IF f # p THEN f ELSE o[IF i < Len(o) THEN i + 1 ELSE i - 1]
  <2>1. r.panes = o /\ r.focused = f
    BY TabFields
  <2>2. QED
    BY <2>1, Zenon
<1> HIDE DEF a, b
<1>3. s = [panes |-> a, focused |-> f]
  BY TabFields
<1> HIDE DEF s
<1>4. QED
  BY <1>1, <1>2, <1>3, TabFields

LEMMA ModelSwaps ==
  ASSUME NEW o, NEW f, NEW r, r = [panes |-> o, focused |-> f], NEW p, NEW q, NEW i, NEW j,
         Tab!LeafOf(r, p) = i, Tab!LeafOf(r, q) = j
  PROVE  Tab!PanesSwapped(r, p, q) =
           [panes |-> [o EXCEPT ![i] = q, ![j] = p], focused |-> f]
<1> DEFINE a == [r.panes EXCEPT ![i] = q]
           s == [r EXCEPT !.panes = a]
           b == [s.panes EXCEPT ![j] = p]
<1>1. Tab!PanesSwapped(r, p, q) = [s EXCEPT !.panes = b]
  BY Zenon DEF Tab!PanesSwapped
<1>2. s = [panes |-> a, focused |-> f]
  <2> HIDE DEF a
  <2>1. QED
    BY TabFields
<1>3. b = [o EXCEPT ![i] = q, ![j] = p]
  <2>1. s.panes = a /\ r.panes = o
    BY <1>2, TabFields
  <2>2. QED
    BY <2>1, Zenon
<1> HIDE DEF s, b
<1>4. QED
  BY <1>1, <1>2, <1>3, TabFields

LEMMA SplitAsModel ==
  ASSUME IInv, NEW axis \in Axes, NEW new \in Fresh, SplitFocused(axis, new)
  PROVE  SplitInModel
<1> DEFINE i == Tab!LeafOf(tab, focused)
<1>1. Sound(root) /\ focused \in Within(root)
  BY TabParts
<1>2. new \in Panes \ Within(root)
  BY DEF Fresh
<1>3. root' = SplitAt(root, focused, axis, new) /\ focused' = new
  BY DEF SplitFocused
<1>4. i \in 1 .. Len(Order) /\ Order[i] = focused
  BY <1>1, PanesOfOrder, PlaceInTab
<1>5. Replaced(<<focused>>, <<focused>> \o <<new>>, Order, PaneIds(root'))
  BY <1>1, <1>2, <1>3, SplitOrder DEF Order
<1>6. Tab!PaneSplit(tab, focused, new) =
        [panes |-> Tab!InsertAt(Order, i + 1, new), focused |-> new]
  <2>1. tab = [panes |-> Order, focused |-> focused]
    BY DEF tab
  <2>2. QED
    BY <2>1, ModelSplits
<1> HIDE DEF i
<1>7. PaneIds(root') = Tab!InsertAt(Order, i + 1, new)
  BY <1>1, <1>2, <1>4, <1>5, InsertedAfter
<1>8. tab' = Tab!PaneSplit(tab, focused, new)
  BY <1>3, <1>6, <1>7, TabAfter
<1>9. QED
  BY <1>1, <1>2, <1>8, PanesOfOrder DEF SplitInModel

LEMMA CloseAsModel ==
  ASSUME IInv, NEW i \in DOMAIN Order, ClosePane(i)
  PROVE  RemovedInModel
<1> DEFINE p == Order[i]
           next == IF i < Len(Order) THEN i + 1 ELSE i - 1
<1>1. Sound(root) /\ IsTree(root) /\ focused \in Within(root)
  BY TabParts DEF Sound
<1>2. /\ Len(Order) > 1 /\ root' = Without(root, p)
      /\ focused' = IF focused # p THEN focused ELSE Order[next]
  BY DEF ClosePane
<1>3. i \in 1 .. Len(Order) /\ p \in Within(root)
  BY <1>1, OrderLists
<1>4. WayTo(root, p) # << >>
  BY <1>1, <1>2, <1>3, NotAlone
<1>5. Replaced(<<p>>, << >>, Order, PaneIds(root'))
  BY <1>1, <1>2, <1>3, <1>4, WithoutOrder DEF Order
<1>6. PaneIds(root') = Tab!RemoveAt(Order, i)
  BY <1>1, <1>3, <1>5, RemovedThere
<1>7. Tab!LeafOf(tab, p) = i
  <2>1. /\ Tab!LeafOf(tab, p) \in 1 .. Len(Order) /\ Order[Tab!LeafOf(tab, p)] = p
    BY <1>1, <1>3, PanesOfOrder, PlaceInTab
  <2>2. QED
    BY <1>1, <1>3, <2>1, OrderLists
<1>8. Tab!PaneRemoved(tab, p) =
        [panes |-> Tab!RemoveAt(Order, i),
         focused |-> IF focused # p THEN focused ELSE Order[next]]
  <2>1. tab = [panes |-> Order, focused |-> focused]
    BY DEF tab
  <2> HIDE DEF p
  <2>2. QED
    BY <1>7, <2>1, ModelRemoves
<1> HIDE DEF p, next
<1>9. tab' = Tab!PaneRemoved(tab, p)
  BY <1>2, <1>6, <1>8, TabAfter
<1>10. QED
  BY <1>1, <1>2, <1>3, <1>9, PanesOfOrder DEF RemovedInModel

LEMMA SwapAsModel ==
  ASSUME IInv, NEW p \in Within(root), NEW q \in Within(root), SwapPanes(p, q)
  PROVE  SwappedInModel
<1> DEFINE there == [tab EXCEPT !.focused = p]
           i == Tab!LeafOf(there, p)
           j == Tab!LeafOf(there, q)
<1>1. Sound(root)
  BY TabParts
<1>2. p # q /\ root' = Swapped(root, p, q) /\ focused' = p
  BY DEF SwapPanes
<1>3. there = [panes |-> Order, focused |-> p] /\ there.panes = Order
  BY DEF tab
<1> HIDE DEF there
<1>4. /\ i \in 1 .. Len(Order) /\ Order[i] = p
      /\ j \in 1 .. Len(Order) /\ Order[j] = q
  BY <1>1, <1>3, PlaceInTab
<1>5. Tab!PanesSwapped(there, p, q) =
        [panes |-> [Order EXCEPT ![i] = q, ![j] = p], focused |-> p]
  BY <1>3, ModelSwaps
<1> HIDE DEF i, j
<1>6. Exchanged(p, q, Order, PaneIds(root'))
  BY <1>1, <1>2, SwapOrder DEF Order
<1>7. PaneIds(root') = [Order EXCEPT ![i] = q, ![j] = p]
  BY <1>1, <1>2, <1>4, <1>6, ExchangedThere
<1>8. tab' = Tab!PanesSwapped(there, p, q)
  BY <1>2, <1>5, <1>7, TabAfter
<1>9. p \in ToSet(tab.panes) /\ q \in ToSet(tab.panes)
  BY <1>1, PanesOfOrder
<1>10. Tab!CanSwap(tab, p, q)
  BY <1>2, <1>9 DEF Tab!CanSwap, Tab!ToSet, ToSet
<1>11. QED
  BY <1>8, <1>9, <1>10 DEF SwappedInModel, there

\* The operations on the tree are, on the order of its panes and the focus, those the
\* hierarchy model takes them for, for trees of any shape and size: a split puts the new
\* pane right after the old one, a removal hands the focus on to the next, and only a swap
\* changes the order (split_pane, remove_pane, swap_panes and pane_ids).
THEOREM TabImplementsModel == Spec => TabKept
<1>1. ASSUME IInv, [Next]_vars
      PROVE  [\/ UNCHANGED tab \/ Refocused \/ SplitInModel \/ RemovedInModel
              \/ SwappedInModel]_vars
  <2>1. Sound(root) /\ focused' \in Within(root')
    BY <1>1, TabParts, TabStepKeeps, TabPartsNext
  <2>2. ASSUME root' = root PROVE UNCHANGED tab \/ Refocused
    <3>1. focused' \in ToSet(tab.panes)
      BY <2>1, <2>2, PanesOfOrder
    <3>2. tab' = [tab EXCEPT !.focused = focused']
      BY <2>2, TabAfter DEF tab, Order
    <3>3. QED
      BY <3>1, <3>2 DEF Refocused
  <2>3. ASSUME NEW way, NEW x, RatioSet(way, x) PROVE UNCHANGED tab
    <3>1. PaneIds(root') = PaneIds(root) /\ focused' = focused
      BY <2>1, <2>3, RatioOrder DEF RatioSet
    <3>2. QED
      BY <3>1, TabAfter DEF tab, Order
  <2>4. ASSUME NEW axis \in Axes, NEW new \in Fresh, SplitFocused(axis, new)
        PROVE  SplitInModel
    BY <1>1, <2>4, SplitAsModel
  <2>5. ASSUME NEW i \in DOMAIN Order, ClosePane(i) PROVE RemovedInModel
    BY <1>1, <2>5, CloseAsModel
  <2>6. ASSUME NEW p \in Within(root), NEW q \in Within(root), SwapPanes(p, q)
        PROVE  SwappedInModel
    BY <1>1, <2>6, SwapAsModel
  <2>7. ASSUME NEW direction \in Directions, ResizeFocused(direction) PROVE UNCHANGED tab
    BY <1>1, <2>3, <2>7, ResizeSets
  <2>8. ASSUME NEW way \in Splits(root), NEW pointer \in Pointers, DragDivider(way, pointer)
        PROVE  UNCHANGED tab
    BY <1>1, <2>3, <2>8, DragSets
  <2>9. ASSUME \/ \E direction \in {1, -1} : CycleFocus(direction)
               \/ \E p \in Within(root) : FocusPane(p)
               \/ \E direction \in Directions : MoveFocus(direction)
               \/ ToggleZoom
               \/ \E rect \in Rects : ResizeWindow(rect)
               \/ UNCHANGED vars
        PROVE  root' = root
    BY <2>9 DEF CycleFocus, FocusPane, MoveFocus, ToggleZoom, ResizeWindow, vars
  <2>10. QED
    BY <1>1, <2>2, <2>4, <2>5, <2>6, <2>7, <2>8, <2>9 DEF Next, Axes
<1>2. QED
  BY <1>1, TabInductive, PTL
     DEF Spec, TabKept, Refocused, SplitInModel, RemovedInModel, SwappedInModel

--------------------------------------------------------------------------------
(* What a resize does to the layout. *)

\* Every other split shares a rectangle out as it did.
LEMMA HalvesKept ==
  ASSUME NEW t, NEW s, NEW m, NEW x, HasRatio(s, t, m, x), NEW w \in Splits(t), w # m, NEW rect
  PROVE  FirstRect(s, w, rect) = FirstRect(t, w, rect)
         /\ SecondRect(s, w, rect) = SecondRect(t, w, rect)
<1>1. FirstMinimum(s, w) = FirstMinimum(t, w) /\ SecondMinimum(s, w) = SecondMinimum(t, w)
  BY HalfMinimumsKept
<1>2. s[w] = t[w]
  BY DEF HasRatio, Splits
<1>3. FirstLength(s, w, rect) = FirstLength(t, w, rect)
  BY <1>1, <1>2 DEF FirstLength
<1>4. QED
  BY <1>2, <1>3 DEF FirstRect, SecondRect

\* What is not below the split stays where it was.
LEMMA FramesKept ==
  ASSUME NEW t, NEW s, NEW m, NEW x, HasRatio(s, t, m, x), NEW rect \in Boxes,
         NEW w \in DOMAIN t, IsPrefix(m, w) => w = m
  PROVE  Layout(s, rect)[w] = Layout(t, rect)[w]
<1> DEFINE F == Layout(t, rect)
           G == Layout(s, rect)
           S == {v \in DOMAIN t : (IsPrefix(m, v) => v = m) => G[v] = F[v]}
<1>1. /\ IsTree(t) /\ Shallow(t) /\ IsTree(s) /\ Shallow(s)
      /\ m \in Ways /\ Splits(s) = Splits(t)
  BY TreeSteps DEF HasRatio, Ways
<1>2. /\ G[<< >>] = rect /\ F[<< >>] = rect
      /\ \A v \in Splits(t) :
           /\ F[First(v)] = FirstRect(t, v, F[v]) /\ F[Second(v)] = SecondRect(t, v, F[v])
           /\ G[First(v)] = FirstRect(s, v, G[v]) /\ G[Second(v)] = SecondRect(s, v, G[v])
  BY <1>1, LayoutOf
<1> HIDE DEF F, G
<1>3. << >> \in S
  BY <1>1, <1>2 DEF IsTree
<1>4. ASSUME NEW v \in Splits(t), v \in S PROVE First(v) \in S /\ Second(v) \in S
  <2>1. v \in DOMAIN t /\ v \in Ways /\ First(v) \in DOMAIN t /\ Second(v) \in DOMAIN t
    BY <1>1, TreeSteps DEF Splits, Ways
  <2>2. /\ IsPrefix(m, First(v)) <=> IsPrefix(m, v) \/ m = First(v)
        /\ IsPrefix(m, Second(v)) <=> IsPrefix(m, v) \/ m = Second(v)
    BY <1>1, <2>1, PrefixOfAppend DEF First, Second, Halves
  <2>3. ~ IsPrefix(First(v), v) /\ ~ IsPrefix(Second(v), v)
    BY <2>1, PrefixOfHalves
  <2>4. CASE IsPrefix(m, v)
    BY <2>1, <2>2, <2>3, <2>4
  <2>5. CASE ~ IsPrefix(m, v)
    <3>1. v # m /\ G[v] = F[v]
      <4>1. IsPrefix(m, m)
        BY <1>1, PrefixFacts
      <4>2. QED
        BY <1>4, <2>5, <4>1
    <3>2. G[First(v)] = F[First(v)] /\ G[Second(v)] = F[Second(v)]
      BY <1>2, <3>1, HalvesKept
    <3>3. QED
      BY <2>1, <3>2
  <2>6. QED
    BY <2>4, <2>5
<1> HIDE DEF S
<1>5. DOMAIN t \subseteq S
  BY <1>1, <1>3, <1>4, Downward
<1>6. G[w] = F[w]
  BY <1>5 DEF S
<1>7. QED
  BY <1>6 DEF F, G

\* What is below a half of the split that gets no shorter gets no shorter either.
LEMMA BelowGrows ==
  ASSUME NEW t, NEW s, NEW m, NEW x, HasRatio(s, t, m, x), NEW rect \in Boxes, NEW a \in Axes,
         NEW h \in {First(m), Second(m)},
         Along(a, Layout(t, rect)[h]) <= Along(a, Layout(s, rect)[h]),
         NEW w \in DOMAIN t, IsPrefix(h, w)
  PROVE  Along(a, Layout(t, rect)[w]) <= Along(a, Layout(s, rect)[w])
<1> DEFINE F == Layout(t, rect)
           G == Layout(s, rect)
           S == {v \in DOMAIN t : IsPrefix(h, v) => Along(a, F[v]) <= Along(a, G[v])}
<1>1. /\ IsTree(t) /\ Shallow(t) /\ IsTree(s) /\ Shallow(s)
      /\ m \in Splits(t) /\ m \in Ways /\ h \in DOMAIN t /\ h \in Ways
      /\ Splits(s) = Splits(t) /\ DOMAIN s = DOMAIN t
  <2>1. /\ IsTree(t) /\ Shallow(t) /\ IsTree(s) /\ Shallow(s)
        /\ m \in Splits(t) /\ m \in DOMAIN t /\ Splits(s) = Splits(t) /\ DOMAIN s = DOMAIN t
    BY DEF HasRatio
  <2>2. h \in DOMAIN t
    BY <2>1, TreeSteps
  <2>3. QED
    BY <2>1, <2>2, TreeSteps DEF Ways
<1>2. /\ \A v \in DOMAIN t : F[v] \in Boxes /\ G[v] \in Boxes
      /\ \A v \in Splits(t) :
           /\ F[First(v)] = FirstRect(t, v, F[v]) /\ F[Second(v)] = SecondRect(t, v, F[v])
           /\ G[First(v)] = FirstRect(s, v, G[v]) /\ G[Second(v)] = SecondRect(s, v, G[v])
  BY <1>1, LayoutOf
<1>3. ~ IsPrefix(h, m)
  BY <1>1, PrefixOfHalves
<1>4. Along(a, F[h]) <= Along(a, G[h])
  OBVIOUS
<1> HIDE DEF F, G
<1>5. << >> \in S
  <2>1. h # << >>
    BY <1>1, Extended DEF First, Second, Halves, Ways
  <2>2. ~ IsPrefix(h, << >>)
    BY <1>1, <2>1, PrefixFacts
  <2>3. QED
    BY <1>1, <2>2 DEF IsTree
<1>6. ASSUME NEW v \in Splits(t), v \in S PROVE First(v) \in S /\ Second(v) \in S
  <2>1. v \in DOMAIN t /\ v \in Ways /\ First(v) \in DOMAIN t /\ Second(v) \in DOMAIN t
    BY <1>1, TreeSteps DEF Splits, Ways
  <2>2. /\ IsPrefix(h, First(v)) <=> IsPrefix(h, v) \/ h = First(v)
        /\ IsPrefix(h, Second(v)) <=> IsPrefix(h, v) \/ h = Second(v)
    BY <1>1, <2>1, PrefixOfAppend DEF First, Second, Halves
  <2>3. ASSUME IsPrefix(h, v)
        PROVE  /\ Along(a, F[First(v)]) <= Along(a, G[First(v)])
               /\ Along(a, F[Second(v)]) <= Along(a, G[Second(v)])
    <3>1. v # m /\ Along(a, F[v]) <= Along(a, G[v]) /\ F[v] \in Boxes /\ G[v] \in Boxes
      BY <1>2, <1>3, <1>6, <2>1, <2>3
    <3>2. G[First(v)] = FirstRect(t, v, G[v]) /\ G[Second(v)] = SecondRect(t, v, G[v])
      BY <1>2, <3>1, HalvesKept
    <3>3. QED
      BY <1>1, <1>2, <3>1, <3>2, HalvesGrow
  <2>4. QED
    BY <1>4, <2>1, <2>2, <2>3
<1> HIDE DEF S
<1>7. DOMAIN t \subseteq S
  BY <1>1, <1>5, <1>6, Downward
<1>8. Along(a, F[w]) <= Along(a, G[w])
  BY <1>7 DEF S
<1>9. QED
  BY <1>8 DEF F, G

\* A ratio that is moved forward takes nothing from the first half, even when the bounds
\* take some of it back; a ratio that is moved back takes nothing from the second.
LEMMA MovedForward ==
  ASSUME NEW u \in Nat \ {0}, NEW f \in Nat \ {0}, NEW s \in Nat \ {0},
         Lower(u, f) <= Upper(u, s), NEW r \in Tenth .. Scale - Tenth, NEW d \in Nat
  PROVE  Share(u, r, f, s) <= Share(u, Bounded(r + d, Lower(u, f), Upper(u, s)), f, s)
<1> DEFINE other == (s * Scale) \div u
           q == Bounded(r + d, Lower(u, f), Upper(u, s))
<1>1. /\ other \in Nat /\ Lower(u, f) \in Nat /\ Upper(u, s) \in Int /\ Upper(u, s) <= Scale
      /\ Upper(u, s) = IF Scale - Tenth <= Scale - other THEN Scale - Tenth ELSE Scale - other
  BY BoundValues
<1>2. Scale \in Nat \ {0} /\ Tenth \in Nat /\ r \in Int /\ r + d \in Int /\ r \in 0 .. Scale
  BY RatioAssumption, TenthTyped
<1>3. q \in 0 .. Scale /\ (r <= q \/ (q = Upper(u, s) /\ q < r))
  BY <1>1, <1>2, BoundedValue
<1>4. other \in Int /\ u * other <= s * Scale
  BY <1>2, Quotient
<1> HIDE DEF q, other
<1>5. CASE r <= q
  BY <1>2, <1>3, <1>5, ShareFollowsRatio DEF q
<1>6. CASE q = Scale - other /\ u >= f + s
  <2>1. u - s \in Int /\ u * q \in Int /\ u * r \in Int /\ s * Scale \in Int
    BY <1>2, <1>3
  <2>2. Scale * (u - s) = u * Scale - s * Scale /\ u * q = u * Scale - u * other
    BY <1>1, <1>2, <1>6
  <2>3. 2 * (Scale * (u - s)) <= 2 * (u * q) + Scale
    <3>1. u * Scale \in Int /\ u * other \in Int
      BY <1>1, <1>2
    <3>2. QED
      BY <1>2, <1>4, <2>1, <2>2, <3>1
  <2>4. u - s <= Rounded(u * q, Scale) /\ Rounded(u * q, Scale) \in Int
    BY <1>2, <2>1, <2>3, RoundedAtLeast
  <2>5. Share(u, q, f, s) = u - s
    BY <1>6, <2>1, <2>4, BoundedValue DEF Share
  <2>6. Share(u, r, f, s) \in 0 .. u /\ u - Share(u, r, f, s) >= s
    BY <1>2, <1>6, ShareBounds
  <2>7. Share(u, r, f, s) <= u - s
    BY <2>6
  <2>8. QED
    BY <2>5, <2>7 DEF q
<1>7. CASE ~ (u >= f + s)
  <2>1. Share(u, r, f, s) = Share(u, q, f, s)
    BY <1>7 DEF Share
  <2>2. Share(u, r, f, s) \in Int
    BY <1>2, ShareBounds
  <2>3. QED
    BY <2>1, <2>2 DEF q
<1>8. QED
  BY <1>1, <1>2, <1>3, <1>5, <1>6, <1>7

LEMMA MovedBack ==
  ASSUME NEW u \in Nat \ {0}, NEW f \in Nat \ {0}, NEW s \in Nat \ {0},
         Lower(u, f) <= Upper(u, s), NEW r \in Tenth .. Scale - Tenth, NEW d \in Nat
  PROVE  Share(u, Bounded(r - d, Lower(u, f), Upper(u, s)), f, s) <= Share(u, r, f, s)
<1> DEFINE one == (f * Scale) \div u
           q == Bounded(r - d, Lower(u, f), Upper(u, s))
<1>1. /\ one \in Nat /\ Lower(u, f) \in Nat /\ Upper(u, s) \in Int /\ Upper(u, s) <= Scale
      /\ Lower(u, f) = IF Tenth >= one THEN Tenth ELSE one
  BY BoundValues
<1>2. Scale \in Nat \ {0} /\ Tenth \in Nat /\ r \in Int /\ r - d \in Int /\ r \in 0 .. Scale
  BY RatioAssumption, TenthTyped
<1>3. q \in 0 .. Scale /\ (q <= r \/ (q = Lower(u, f) /\ q > r))
  BY <1>1, <1>2, BoundedValue
<1>4. one \in Int /\ u * one <= f * Scale
  BY <1>2, Quotient
<1> HIDE DEF q, one
<1>5. CASE q <= r
  BY <1>2, <1>3, <1>5, ShareFollowsRatio DEF q
<1>6. CASE q = one /\ u >= f + s
  <2>1. u * q \in Int /\ f * Scale \in Int /\ u * q <= f * Scale
    BY <1>2, <1>3, <1>4, <1>6
  <2>2. Rounded(u * q, Scale) <= f
    <3>1. Rounded(u * q, Scale) <= Rounded(f * Scale, Scale)
      BY <1>2, <2>1, RoundedMonotonic
    <3>2. Rounded(f * Scale, Scale) = f
      <4>1. 2 * (Scale * f) <= 2 * (f * Scale) + Scale
        BY <1>2
      <4>2. 2 * (f * Scale) + Scale < 2 * (Scale * f) + 2 * Scale
        BY <1>2
      <4>3. QED
        BY <1>2, <2>1, <4>1, <4>2, RoundedIs
    <3>3. QED
      BY <3>1, <3>2
  <2>3. Rounded(u * q, Scale) \in Int
    BY <1>2, <2>1, RoundedAtLeast
  <2>4. Share(u, q, f, s) = f
    <3>1. u - s \in Int /\ f <= u - s
      BY <1>6
    <3>2. QED
      BY <1>6, <2>2, <2>3, <3>1, BoundedValue DEF Share
  <2>5. Share(u, r, f, s) >= f
    BY <1>2, <1>6, ShareBounds
  <2>6. QED
    BY <2>4, <2>5 DEF q
<1>7. CASE ~ (u >= f + s)
  <2>1. Share(u, r, f, s) = Share(u, q, f, s)
    BY <1>7 DEF Share
  <2>2. Share(u, r, f, s) \in Int
    BY <1>2, ShareBounds
  <2>3. QED
    BY <2>1, <2>2 DEF q
<1>8. QED
  BY <1>1, <1>2, <1>3, <1>5, <1>6, <1>7

\* The half that holds the resized pane is the one that the divider moves away from.
LEMMA ResizeGrows ==
  ASSUME IInv, RatiosInv, NEW direction \in Directions, ResizeFocused(direction)
  PROVE  Along(AxisOf(direction), Frames'[focused]) >= Along(AxisOf(direction), Frames[focused])
<1> DEFINE m     == Innermost(Movable(focused, direction))
           rect  == Frame(m)
           d     == IF Forward(direction) THEN Step ELSE -Step
           x     == BoundedRatio(root, m, rect, root[m].ratio + d)
           a     == AxisOf(direction)
           h     == IF Forward(direction) THEN First(m) ELSE Second(m)
<1>1. /\ Sound(root) /\ IsTree(root) /\ Shallow(root) /\ OncePerPane(root)
      /\ focused \in Within(root) /\ view \in Boxes
  BY TabParts, ViewIsBox DEF Sound
<1>2. /\ Movable(focused, direction) # {} /\ HasBounds(root, m, rect)
      /\ root' = WithRatio(root, m, x) /\ view' = view
  BY DEF ResizeFocused
<1>3. m \in Splits(root) /\ root[m].axis = a /\ focused \in PanesBelow(root, h)
  BY <1>2, ResizedSplit DEF Movable
<1>4. m \in DOMAIN root /\ rect \in Boxes /\ a \in Axes /\ h \in {First(m), Second(m)}
      /\ h \in DOMAIN root
  <2>1. m \in DOMAIN root /\ First(m) \in DOMAIN root /\ Second(m) \in DOMAIN root
    BY <1>1, <1>3, TreeSteps DEF Splits
  <2>2. view \in Rects
    BY TabParts
  <2>3. rect \in Boxes
    BY <1>1, <2>1, <2>2, FramesTyped
  <2>4. QED
    BY <2>1, <2>3 DEF AxisOf, Axes
<1>5. rect = Layout(root, view)[m]
  BY DEF Frame
<1> HIDE DEF m, rect, a
<1>6. root[m].ratio \in Tenth .. Scale - Tenth /\ d \in Int /\ root[m].ratio + d \in Int
  <2>1. root[m].ratio \in Tenth .. Scale - Tenth
    BY <1>3 DEF RatiosInv
  <2>2. QED
    BY <2>1, TenthTyped, RatioAssumption
<1>7. x \in 0 .. Scale
  BY <1>1, <1>2, <1>3, <1>4, <1>6, BoundedWithin
<1> DEFINE u == Usable(root[m], rect)
           f == FirstMinimum(root, m)
           s == SecondMinimum(root, m)
<1>8. /\ u \in Nat \ {0} /\ f \in Nat \ {0} /\ s \in Nat \ {0}
      /\ Lower(u, f) <= Upper(u, s)
      /\ x = Bounded(root[m].ratio + d, Lower(u, f), Upper(u, s))
  BY <1>1, <1>2, <1>3, <1>4, <1>6, RatioBounds
<1> HIDE DEF x
<1>9. HasRatio(root', root, m, x)
  BY <1>1, <1>2, <1>3, <1>7, RatioNodes
<1>10. IsTree(root') /\ Shallow(root') /\ OncePerPane(root') /\ Within(root') = Within(root)
       /\ m \in Splits(root')
  BY <1>1, <1>2, <1>3, <1>7, <1>9, RatioKeeps DEF Sound, HasRatio
<1>11. Layout(root', view)[m] = rect
  BY <1>1, <1>4, <1>5, <1>9, FramesKept
<1>12. /\ FirstLength(root, m, rect) = Share(u, root[m].ratio, f, s)
       /\ FirstLength(root', m, rect) = Share(u, x, f, s)
       /\ Usable(root'[m], rect) = u
  <2>1. /\ FirstMinimum(root', m) = f /\ SecondMinimum(root', m) = s
        /\ root'[m].axis = root[m].axis /\ root'[m].ratio = x
    BY <1>3, <1>9, HalfMinimumsKept DEF HasRatio
  <2>2. Usable(root'[m], rect) = u
    BY <2>1 DEF Usable
  <2>3. QED
    BY <1>1, <1>3, <1>4, <1>10, <2>1, <2>2, LengthIsShare
<1>13. /\ Layout(root, view)[First(m)] = FirstRect(root, m, rect)
       /\ Layout(root, view)[Second(m)] = SecondRect(root, m, rect)
       /\ Layout(root', view)[First(m)] = FirstRect(root', m, rect)
       /\ Layout(root', view)[Second(m)] = SecondRect(root', m, rect)
  BY <1>1, <1>3, <1>5, <1>10, <1>11, LayoutOf
<1>14. root'[m].axis = a
  BY <1>3, <1>9 DEF HasRatio
<1>15. /\ Along(a, Layout(root, view)[First(m)]) = Share(u, root[m].ratio, f, s)
       /\ Along(a, Layout(root', view)[First(m)]) = Share(u, x, f, s)
       /\ Along(a, Layout(root, view)[Second(m)]) = u - Share(u, root[m].ratio, f, s)
       /\ Along(a, Layout(root', view)[Second(m)]) = u - Share(u, x, f, s)
  BY <1>1, <1>3, <1>4, <1>10, <1>12, <1>13, <1>14, HalvesAlong
<1> HIDE DEF u, f, s
<1>16. Along(a, Layout(root, view)[h]) <= Along(a, Layout(root', view)[h])
  <2>1. /\ Share(u, root[m].ratio, f, s) \in Int /\ Share(u, x, f, s) \in Int
    <3>1. root[m].ratio \in 0 .. Scale
      BY <1>6, TenthTyped, RatioAssumption
    <3>2. \A r \in 0 .. Scale : Share(u, r, f, s) \in 0 .. u
      BY <1>8, ShareBounds
    <3>3. QED
      BY <1>7, <1>8, <3>1, <3>2
  <2>2. CASE Forward(direction)
    <3>1. d = Step /\ h = First(m)
      BY <2>2
    <3>2. Share(u, root[m].ratio, f, s) <= Share(u, x, f, s)
      BY <1>6, <1>8, <3>1, RatioAssumption, MovedForward
    <3>3. QED
      BY <1>15, <3>1, <3>2
  <2>3. CASE ~ Forward(direction)
    <3>1. root[m].ratio + d = root[m].ratio - Step /\ h = Second(m)
      BY <1>6, <2>3, TenthTyped, RatioAssumption
    <3>2. Share(u, x, f, s) <= Share(u, root[m].ratio, f, s)
      BY <1>6, <1>8, <3>1, RatioAssumption, MovedBack
    <3>3. QED
      BY <1>8, <1>15, <2>1, <3>1, <3>2
  <2>4. QED
    BY <2>2, <2>3
<1> DEFINE w == WayTo(root, focused)
<1>17. w \in Leaves(root) /\ w \in DOMAIN root /\ root[w].id = focused /\ IsPrefix(h, w)
  <2>1. w \in Leaves(root) /\ root[w].id = focused
    BY <1>1, WayToPane
  <2>2. PICK v \in Leaves(root) : IsPrefix(h, v) /\ root[v].id = focused
    BY <1>3 DEF PanesBelow
  <2>3. v = w
    BY <1>1, <2>1, <2>2 DEF OncePerPane
  <2>4. QED
    BY <2>1, <2>2, <2>3 DEF Leaves
<1>18. WayTo(root', focused) = w
  <2>1. w \in Leaves(root') /\ root'[w].id = focused
    BY <1>3, <1>9, <1>17 DEF HasRatio, Leaves
  <2>2. WayTo(root', focused) \in Leaves(root') /\ root'[WayTo(root', focused)].id = focused
    BY <1>1, <1>10, WayToPane
  <2>3. QED
    BY <1>10, <2>1, <2>2 DEF OncePerPane
<1> HIDE DEF w, h
<1>19. Along(a, Layout(root, view)[w]) <= Along(a, Layout(root', view)[w])
  BY <1>1, <1>4, <1>9, <1>16, <1>17, BelowGrows
<1>20. Frames[focused] = Layout(root, view)[w]
  BY <1>1 DEF Frames, Frame, w
<1>21. Frames'[focused] = Layout(root', view)[w]
  BY <1>1, <1>2, <1>10, <1>18 DEF Frames, Frame
<1>22. /\ Along(a, Layout(root, view)[w]) \in Int /\ Along(a, Layout(root', view)[w]) \in Int
  <2>1. Layout(root, view)[w] \in Boxes /\ Layout(root', view)[w] \in Boxes
    BY <1>1, <1>9, <1>10, <1>17, LayoutOf DEF HasRatio
  <2>2. QED
    BY <2>1, BoxParts
<1>23. QED
  BY <1>19, <1>20, <1>21, <1>22 DEF a

\* Resizing a pane towards a side never makes it shorter along that axis, however deep it
\* is in the tree and whatever the bounds do to the ratio (resize_target, adjust_ratio,
\* ratio_bounds and fill_layout).
THEOREM ResizeKeepsLength == Spec => ResizeNeverShrinks
<1>1. ASSUME IInv, RatiosInv
      PROVE  \A direction \in Directions :
               root' # root /\ ResizeFocused(direction) =>
                 Along(AxisOf(direction), Frames'[focused])
                   >= Along(AxisOf(direction), Frames[focused])
  BY <1>1, ResizeGrows
<1>2. QED
  BY <1>1, TabInductive, RatiosBounded, PTL DEF ResizeNeverShrinks

--------------------------------------------------------------------------------
(* Where a dragged divider comes to rest. *)

\* Lengths of pixels survive the way to a ratio and back.
Fine(u) == u \in Nat \ {0} /\ 2 * u <= Scale

LEMMA ThereAndBack ==
  ASSUME NEW u, Fine(u), NEW k \in Int
  PROVE  /\ (k * Scale) \div u \in Int
         /\ Rounded(u * ((k * Scale) \div u), Scale) = k
         /\ Rounded(u * (Scale - (k * Scale) \div u), Scale) = u - k
<1> DEFINE n == (k * Scale) \div u
<1>1. u \in Nat \ {0} /\ Scale \in Nat \ {0} /\ 2 * u <= Scale /\ k * Scale \in Int
      /\ Scale * k = k * Scale /\ Scale * k \in Int /\ u * Scale \in Int
  BY RatioAssumption DEF Fine
<1>2. n \in Int /\ u * n <= k * Scale
  BY <1>1, Quotient
<1>3. ~ (u * (n + 1) <= k * Scale)
  BY <1>1, Quotient
<1>4. u * (n + 1) = u * n + u /\ u * n \in Int /\ u * (Scale - n) = u * Scale - u * n
      /\ Scale * (u - k) = u * Scale - k * Scale
  BY <1>1, <1>2
<1> HIDE DEF n
<1>5. Rounded(u * n, Scale) = k
  <2>1. 2 * (Scale * k) <= 2 * (u * n) + Scale
    BY <1>1, <1>2, <1>3, <1>4
  <2>2. 2 * (u * n) + Scale < 2 * (Scale * k) + 2 * Scale
    BY <1>1, <1>2, <1>4
  <2>3. QED
    BY <1>1, <1>4, <2>1, <2>2, RoundedIs
<1>6. Rounded(u * (Scale - n), Scale) = u - k
  <2>1. 2 * (Scale * (u - k)) <= 2 * (u * (Scale - n)) + Scale
    BY <1>1, <1>2, <1>3, <1>4
  <2>2. 2 * (u * (Scale - n)) + Scale < 2 * (Scale * (u - k)) + 2 * Scale
    BY <1>1, <1>2, <1>3, <1>4
  <2>3. u * (Scale - n) \in Int /\ u - k \in Int
    BY <1>1, <1>2
  <2>4. QED
    BY <1>1, <2>1, <2>2, <2>3, RoundedIs
<1>7. QED
  BY <1>2, <1>5, <1>6 DEF n

\* The pixels that a ratio of u of them comes to.
Pixels(u, r) == Rounded(u * r, Scale)

LEMMA PixelsGrow ==
  ASSUME NEW u \in Nat, NEW r \in Int, NEW q \in Int, r <= q
  PROVE  Pixels(u, r) <= Pixels(u, q) /\ Pixels(u, r) \in Int /\ Pixels(u, q) \in Int
<1>1. Scale \in Nat \ {0} /\ u * r \in Int /\ u * q \in Int
  BY RatioAssumption
<1>2. u * r <= u * q
  BY TimesMonotonic
<1>3. QED
  BY <1>1, <1>2, RoundedMonotonic, RoundedAtLeast DEF Pixels

LEMMA PixelsOfTenth ==
  ASSUME NEW u \in Nat
  PROVE  Pixels(u, Tenth) = Rounded(u, 10) /\ Pixels(u, Scale - Tenth) = Rounded(9 * u, 10)
<1>1. Tenth \in Nat \ {0} /\ Scale = 10 * Tenth
  BY RatioAssumption, FineAssumption DEF Tenth
<1>2. u \in Int /\ 9 * u \in Int /\ 10 \in Nat \ {0}
  OBVIOUS
<1>3. Rounded(u * Tenth, 10 * Tenth) = Rounded(u, 10)
  BY <1>1, <1>2, RoundedReduced
<1>4. Rounded((9 * u) * Tenth, 10 * Tenth) = Rounded(9 * u, 10)
  BY <1>1, <1>2, RoundedReduced
<1>5. u * (Scale - Tenth) = (9 * u) * Tenth
  <2>1. Scale - Tenth = 9 * Tenth
    BY <1>1
  <2>2. u * (9 * Tenth) = (9 * u) * Tenth
    BY <1>1
  <2>3. QED
    BY <2>1, <2>2
<1>6. QED
  BY <1>1, <1>3, <1>4, <1>5 DEF Pixels

\* The first half of a dragged split has the pixels up to the pointer, as far as a tenth and
\* the minimums of the halves leave room.
LEMMA DraggedShare ==
  ASSUME NEW u, Fine(u), NEW f \in Nat \ {0}, NEW s \in Nat \ {0},
         Lower(u, f) <= Upper(u, s), NEW k \in Int
  PROVE  Share(u, Bounded((k * Scale) \div u, Lower(u, f), Upper(u, s)), f, s) =
           Bounded(k, Max({f, Rounded(u, 10)}), Min({u - s, Rounded(9 * u, 10)}))
<1> DEFINE one   == (f * Scale) \div u
           other == (s * Scale) \div u
           q     == (k * Scale) \div u
           l     == Lower(u, f)
           h     == Upper(u, s)
           x     == Bounded(q, l, h)
           low   == Rounded(u, 10)
           high  == Rounded(9 * u, 10)
<1>1. u \in Nat \ {0} /\ u \in Nat /\ Scale \in Nat \ {0} /\ Tenth \in Nat
  BY RatioAssumption, TenthTyped DEF Fine
<1>2. /\ one \in Nat /\ other \in Nat
      /\ l = IF Tenth >= one THEN Tenth ELSE one
      /\ h = IF Scale - Tenth <= Scale - other THEN Scale - Tenth ELSE Scale - other
      /\ l \in Nat /\ h \in Int /\ l <= h
  BY <1>1, BoundValues
<1>3. /\ q \in Int
      /\ Pixels(u, q) = k /\ Pixels(u, one) = f /\ Pixels(u, Scale - other) = u - s
  <2>1. \A j \in Int : /\ (j * Scale) \div u \in Int
                       /\ Pixels(u, (j * Scale) \div u) = j
                       /\ Pixels(u, Scale - (j * Scale) \div u) = u - j
    BY <1>1, ThereAndBack DEF Pixels
  <2>2. f \in Int /\ s \in Int
    OBVIOUS
  <2>3. QED
    BY <2>1, <2>2
<1>4. Pixels(u, Tenth) = low /\ Pixels(u, Scale - Tenth) = high
  BY <1>1, PixelsOfTenth
<1>5. low \in Int /\ high \in Int
  <2>1. 9 * u \in Int /\ u \in Int /\ 10 \in Nat \ {0}
    BY <1>1
  <2>2. QED
    BY <2>1, RoundedAtLeast
<1>6. x = IF q <= h THEN IF l >= q THEN l ELSE q ELSE h
  <2> HIDE DEF q, l, h
  <2>1. QED
    BY <1>2, <1>3, BoundedValue
<1> HIDE DEF one, other, q, l, h, x, low, high
<1>7. /\ Scale - Tenth \in Int /\ Scale - other \in Int /\ Tenth \in Int /\ one \in Int
      /\ l \in Int /\ h \in Int /\ x \in Int
  BY <1>1, <1>2, <1>3, <1>6
<1>8. \A r, t \in Int : r <= t => Pixels(u, r) <= Pixels(u, t)
  BY <1>1, PixelsGrow
<1>9. Pixels(u, l) = (IF f >= low THEN f ELSE low) /\ Pixels(u, l) \in Int
  <2>1. Tenth >= one => low >= f
    BY <1>3, <1>4, <1>7, <1>8
  <2>2. one >= Tenth => f >= low
    BY <1>3, <1>4, <1>7, <1>8
  <2>3. Pixels(u, l) = IF Tenth >= one THEN low ELSE f
    BY <1>2, <1>3, <1>4
  <2>4. QED
    BY <1>5, <1>7, <2>1, <2>2, <2>3
<1>10. Pixels(u, h) = (IF u - s <= high THEN u - s ELSE high) /\ Pixels(u, h) \in Int
  <2>1. Scale - Tenth <= Scale - other => high <= u - s
    BY <1>3, <1>4, <1>7, <1>8
  <2>2. Scale - other <= Scale - Tenth => u - s <= high
    BY <1>3, <1>4, <1>7, <1>8
  <2>3. Pixels(u, h) = IF Scale - Tenth <= Scale - other THEN high ELSE u - s
    BY <1>2, <1>3, <1>4
  <2>4. u - s \in Int
    BY <1>1
  <2>5. QED
    BY <1>5, <1>7, <2>1, <2>2, <2>3, <2>4
<1> DEFINE ll == Pixels(u, l)
           hh == Pixels(u, h)
<1>11. ll <= hh
  BY <1>2, <1>7, <1>8
<1>12. u >= f + s
  <2> HIDE DEF ll, hh
  <2>1. ll = (IF f >= low THEN f ELSE low) /\ hh = (IF u - s <= high THEN u - s ELSE high)
    BY <1>9, <1>10 DEF ll, hh
  <2>2. QED
    BY <1>1, <1>5, <1>11, <2>1
<1>13. Pixels(u, x) = IF k <= hh THEN IF ll >= k THEN ll ELSE k ELSE hh
  <2>1. Pixels(u, x) = IF q <= h THEN IF l >= q THEN ll ELSE k ELSE hh
    BY <1>3, <1>6
  <2>2. (q <= h => k <= hh) /\ (l >= q => ll >= k) /\ (h <= q => hh <= k) /\ (q >= l => k >= ll)
    BY <1>3, <1>7, <1>8
  <2>3. ll \in Int /\ hh \in Int
    BY <1>9, <1>10
  <2> HIDE DEF ll, hh
  <2>4. QED
    BY <1>2, <1>3, <1>7, <1>11, <2>1, <2>2, <2>3
<1>14. Max({f, low}) = ll /\ Min({u - s, high}) = hh
  BY <1>1, <1>5, <1>9, <1>10, MaxOfTwo, MinOfTwo
<1>15. Bounded(k, ll, hh) = Pixels(u, x)
  <2>1. ll \in Int /\ hh \in Int
    BY <1>9, <1>10
  <2> HIDE DEF ll, hh
  <2>2. Bounded(k, ll, hh) = IF k <= hh THEN IF ll >= k THEN ll ELSE k
                             ELSE IF ll >= hh THEN ll ELSE hh
    BY <2>1, BoundedValue
  <2>3. QED
    BY <1>11, <1>13, <2>1, <2>2
<1>16. Share(u, x, f, s) = Bounded(Pixels(u, x), f, u - s)
  BY <1>12 DEF Share, Pixels
<1>17. Bounded(Pixels(u, x), f, u - s) = Pixels(u, x)
  <2>1. /\ ll = (IF f >= low THEN f ELSE low) /\ hh = (IF u - s <= high THEN u - s ELSE high)
        /\ ll \in Int /\ hh \in Int
    BY <1>9, <1>10
  <2> HIDE DEF ll, hh
  <2>2. f <= ll /\ hh <= u - s
    BY <1>1, <1>5, <2>1
  <2> DEFINE p == Pixels(u, x)
  <2>3. p = IF k <= hh THEN IF ll >= k THEN ll ELSE k ELSE hh
    BY <1>13
  <2> HIDE DEF p
  <2>4. p \in Int /\ ll <= p /\ p <= hh
    BY <1>11, <2>1, <2>3
  <2>5. u - s \in Int /\ f <= p /\ p <= u - s
    BY <1>1, <2>1, <2>2, <2>4
  <2>6. Bounded(p, f, u - s) = p
    BY <2>4, <2>5, BoundedValue
  <2>7. QED
    BY <2>6 DEF p
<1>18. QED
  BY <1>14, <1>15, <1>16, <1>17 DEF x, q, l, h, low, high

\* What is laid out for a node is no longer than the view.
LEMMA FramesFine ==
  ASSUME Sound(root), view \in Rects, NEW w \in DOMAIN root, NEW axis \in Axes
  PROVE  2 * Along(axis, Frame(w)) <= Scale
<1>1. view \in Boxes /\ Frame(w) \in Boxes
  BY ViewIsBox, FramesTyped
<1>2. Inside(Frame(w), view)
  BY <1>1, FramesInside DEF Frame, Sound
<1>3. 2 * Along(axis, view) <= Scale
  BY FineAssumption DEF Rects, Along
<1>4. /\ Start(axis, view) \in Int /\ Along(axis, view) \in Nat
      /\ Start(axis, Frame(w)) \in Int /\ Along(axis, Frame(w)) \in Nat
  BY <1>1, BoxParts
<1>5. /\ Start(axis, Frame(w)) >= Start(axis, view)
      /\ Start(axis, Frame(w)) + Along(axis, Frame(w)) <= Start(axis, view) + Along(axis, view)
  BY <1>2 DEF Inside, End
<1>6. QED
  BY <1>3, <1>4, <1>5, RatioAssumption

\* Where a dragged divider begins.
Dropped(way, pointer) ==
  LET axis   == root[way].axis
      rect   == Frame(way)
      usable == Along(axis, rect) - Gap
      low    == Max({FirstMinimum(root, way), Rounded(usable, 10)})
      high   == usable - SecondMinimum(root, way)
      tenth  == Rounded(9 * usable, 10)
  IN  Start(axis, DividerRect(root', way, rect))
        = Bounded(pointer, Start(axis, rect) + low,
                  Start(axis, rect) + Min({high, tenth}))

LEMMA DragDrops ==
  ASSUME IInv, NEW way \in Splits(root), NEW pointer \in Pointers, DragDivider(way, pointer)
  PROVE  Dropped(way, pointer)
<1> DEFINE axis  == root[way].axis
           rect  == Frame(way)
           along == Along(axis, rect)
           start == Start(axis, rect)
           u     == along - Gap
           f     == FirstMinimum(root, way)
           s     == SecondMinimum(root, way)
           q     == ((pointer - start) * Scale) \div Max({u, 1})
           x     == BoundedRatio(root, way, rect, q)
<1>1. /\ Sound(root) /\ IsTree(root) /\ Shallow(root) /\ view \in Rects
      /\ way \in DOMAIN root /\ axis \in Axes /\ rect \in Boxes
  <2>1. Sound(root) /\ IsTree(root) /\ Shallow(root) /\ view \in Rects
    BY TabParts DEF Sound
  <2>2. QED
    BY <2>1, TreeNodes, FramesTyped DEF Splits
<1>2. HasBounds(root, way, rect) /\ root' = WithRatio(root, way, x)
  BY DEF DragDivider
<1>3. /\ u \in Nat \ {0} /\ f \in Nat \ {0} /\ s \in Nat \ {0}
      /\ Usable(root[way], rect) = u
      /\ Lower(u, f) <= Upper(u, s)
      /\ \A r \in Int : BoundedRatio(root, way, rect, r) = Bounded(r, Lower(u, f), Upper(u, s))
  BY <1>1, <1>2, RatioBounds
<1>4. 2 * along <= Scale /\ along \in Nat /\ start \in Int
  BY <1>1, FramesFine, BoxParts
<1> HIDE DEF rect, axis, along, start
<1>5. Fine(u)
  BY <1>3, <1>4, SizesAssumption, RatioAssumption DEF Fine
<1>6. pointer \in Int /\ pointer - start \in Int
  BY <1>4, RatioAssumption
<1> DEFINE k == pointer - start
<1>7. q = (k * Scale) \div u
  <2>1. Max({u, 1}) = u
    BY <1>3, MaxOfTwo
  <2>2. QED
    BY <2>1
<1> HIDE DEF u, f, s, k
<1>8. (k * Scale) \div u \in Int
  BY <1>5, <1>6, ThereAndBack DEF k
<1>9. x = Bounded((k * Scale) \div u, Lower(u, f), Upper(u, s))
  BY <1>3, <1>7, <1>8
<1>10. x \in 0 .. Scale
  <2>1. q \in Int
    BY <1>7, <1>8
  <2>2. QED
    BY <1>1, <1>2, <2>1, BoundedWithin
<1> HIDE DEF q, x
<1>11. HasRatio(root', root, way, x)
  BY <1>1, <1>2, <1>10, RatioNodes
<1>12. /\ IsTree(root') /\ Shallow(root') /\ way \in Splits(root')
       /\ root'[way].ratio = x /\ root'[way].axis = axis
       /\ FirstMinimum(root', way) = f /\ SecondMinimum(root', way) = s
  BY <1>11, HalfMinimumsKept DEF HasRatio, axis, f, s
<1>13. Usable(root'[way], rect) = u
  BY <1>3, <1>12 DEF Usable, axis
<1>14. FirstLength(root', way, rect) = Share(u, x, f, s)
  BY <1>1, <1>12, <1>13, LengthIsShare
<1>15. Start(axis, DividerRect(root', way, rect)) = start + Share(u, x, f, s)
  BY <1>1, <1>12, <1>14, SplitLaidOut DEF start
<1> DEFINE low  == Max({f, Rounded(u, 10)})
           high == Min({u - s, Rounded(9 * u, 10)})
<1>16. Share(u, x, f, s) = Bounded(k, low, high)
  BY <1>3, <1>5, <1>6, <1>9, DraggedShare DEF k
<1>17. low \in Int /\ high \in Int
  <2>1. 9 * u \in Int /\ u \in Int /\ 10 \in Nat \ {0} /\ u - s \in Int
    BY <1>3
  <2>2. Rounded(u, 10) \in Int /\ Rounded(9 * u, 10) \in Int
    BY <2>1, RoundedAtLeast
  <2>3. QED
    BY <1>3, <2>1, <2>2, MaxOfTwo, MinOfTwo
<1> HIDE DEF low, high
<1>18. start + Bounded(k, low, high) = Bounded(pointer, start + low, start + high)
  <2>1. k \in Int /\ start + low \in Int /\ start + high \in Int
    BY <1>4, <1>6, <1>17 DEF k
  <2>2. /\ Bounded(k, low, high) = IF k <= high THEN IF low >= k THEN low ELSE k
                                   ELSE IF low >= high THEN low ELSE high
        /\ Bounded(pointer, start + low, start + high) =
             IF pointer <= start + high
             THEN IF start + low >= pointer THEN start + low ELSE pointer
             ELSE IF start + low >= start + high THEN start + low ELSE start + high
    BY <1>6, <1>17, <2>1, BoundedValue
  <2>3. QED
    BY <1>4, <1>6, <1>17, <2>2 DEF k
<1>19. Start(axis, DividerRect(root', way, rect)) = Bounded(pointer, start + low, start + high)
  BY <1>15, <1>16, <1>18
<1>20. QED
  BY <1>19 DEF Dropped, low, high, u, f, s, start, along, axis, rect

\* A dragged divider begins at the pixel of the pointer, unless a tenth of the split or the
\* minimum of a half is in the way: the way from pixels to a ratio (resize_divider), the
\* bounds (ratio_bounds) and the way back (fill_layout) lose nothing, for any sizes.
THEOREM DragsFollowPointer == Spec => DragFollowsPointer
<1>1. ASSUME IInv
      PROVE  \A way \in Splits(root), pointer \in Pointers :
               root' # root /\ DragDivider(way, pointer) => Dropped(way, pointer)
  BY <1>1, DragDrops
<1>2. QED
  BY <1>1, TabInductive, PTL DEF DragFollowsPointer, Dropped

--------------------------------------------------------------------------------
(* Frames that meet. *)

\* What is below a node lies in its frame.
LEMMA FramesNested ==
  ASSUME NEW t, IsTree(t), Shallow(t), NEW rect \in Boxes, NEW u \in DOMAIN t,
         NEW v \in DOMAIN t, IsPrefix(u, v)
  PROVE  Inside(Layout(t, rect)[v], Layout(t, rect)[u])
<1> DEFINE F == Layout(t, rect)
           S == {w \in DOMAIN t : IsPrefix(u, w) => Inside(F[w], F[u])}
<1>1. u \in Ways /\ \A w \in DOMAIN t : F[w] \in Boxes /\ w \in Ways
  BY LayoutOf, TreeSteps DEF Ways
<1>2. \A w \in Splits(t) : F[First(w)] = FirstRect(t, w, F[w]) /\ F[Second(w)] = SecondRect(t, w, F[w])
  BY LayoutOf
<1> HIDE DEF F
<1>3. Inside(F[u], F[u])
  BY <1>1, BoxParts DEF Inside, End
<1>4. << >> \in S
  BY <1>1, <1>3, PrefixFacts DEF IsTree
<1>5. ASSUME NEW w \in Splits(t), w \in S PROVE First(w) \in S /\ Second(w) \in S
  <2>1. w \in DOMAIN t /\ w \in Ways /\ First(w) \in DOMAIN t /\ Second(w) \in DOMAIN t
    BY <1>1, TreeSteps DEF Splits
  <2>2. /\ IsPrefix(u, First(w)) <=> IsPrefix(u, w) \/ u = First(w)
        /\ IsPrefix(u, Second(w)) <=> IsPrefix(u, w) \/ u = Second(w)
    BY <1>1, <2>1, PrefixOfAppend DEF First, Second, Halves
  <2>3. Inside(F[First(w)], F[w]) /\ Inside(F[Second(w)], F[w])
    BY <1>1, <1>2, <2>1, SplitLaidOut
  <2>4. IsPrefix(u, w) => Inside(F[First(w)], F[u]) /\ Inside(F[Second(w)], F[u])
    BY <1>1, <1>5, <2>1, <2>3, InsideTransitive
  <2>5. QED
    BY <1>3, <2>1, <2>2, <2>4
<1> HIDE DEF S
<1>6. DOMAIN t \subseteq S
  BY <1>4, <1>5, Downward
<1>7. QED
  BY <1>6 DEF S, F

\* Of two nodes that share a pixel one is below the other.
LEMMA PixelShared ==
  ASSUME NEW t, IsTree(t), Shallow(t), NEW rect \in Boxes, NEW x \in Int, NEW y \in Int,
         NEW v \in DOMAIN t, InFrame(t, rect, v, x, y),
         NEW w \in DOMAIN t, InFrame(t, rect, w, x, y)
  PROVE  IsPrefix(w, v) \/ IsPrefix(v, w)
<1> DEFINE In(u) == InFrame(t, rect, u, x, y)
           S == {u \in DOMAIN t : In(u) => IsPrefix(u, v) \/ IsPrefix(v, u)}
<1>1. \A u \in DOMAIN t : u \in Ways /\ Layout(t, rect)[u] \in Boxes
  BY TreeSteps, LayoutOf DEF Ways
<1>2. \A u \in DOMAIN t : IsPrefix(u, v) => In(u)
  <2>1. ASSUME NEW a \in Boxes, NEW b \in Boxes, Inside(a, b), Covers(a, x, y)
        PROVE  Covers(b, x, y)
    <3>1. /\ a.x \in Int /\ a.y \in Int /\ a.w \in Nat /\ a.h \in Nat
          /\ b.x \in Int /\ b.y \in Int /\ b.w \in Nat /\ b.h \in Nat
      BY BoxParts
    <3>2. QED
      BY <2>1, <3>1 DEF Inside, Start, End, Along, Axes, Covers
  <2>2. QED
    BY <1>1, <2>1, FramesNested DEF InFrame
<1>3. \A u \in Splits(t) : /\ In(First(u)) => In(u)
                           /\ In(Second(u)) => In(u)
                           /\ ~ (In(First(u)) /\ In(Second(u)))
  BY PixelOfSplit
<1> HIDE DEF In
<1>4. << >> \in S
  BY <1>1, PrefixFacts DEF IsTree
<1>5. ASSUME NEW u \in Splits(t), u \in S PROVE First(u) \in S /\ Second(u) \in S
  <2>1. /\ u \in DOMAIN t /\ First(u) \in DOMAIN t /\ Second(u) \in DOMAIN t
        /\ u \in Ways /\ First(u) \in Ways /\ Second(u) \in Ways /\ v \in Ways
    BY <1>1, TreeSteps DEF Splits
  <2>2. IsPrefix(u, First(u)) /\ IsPrefix(u, Second(u))
    BY <2>1, PrefixOfHalves, PrefixFacts
  <2>3. ASSUME NEW h \in {First(u), Second(u)}, In(h) PROVE IsPrefix(h, v) \/ IsPrefix(v, h)
    <3>1. In(u) /\ (IsPrefix(u, v) \/ IsPrefix(v, u))
      BY <1>3, <1>5, <2>3
    <3>2. CASE IsPrefix(v, u)
      BY <2>1, <2>2, <3>2, PrefixFacts
    <3>3. CASE IsPrefix(u, v)
      <4>1. v = u \/ IsPrefix(First(u), v) \/ IsPrefix(Second(u), v)
        BY <2>1, <3>3, PrefixOfHalves
      <4>2. CASE v = u
        BY <2>2, <4>2
      <4>3. CASE IsPrefix(First(u), v) \/ IsPrefix(Second(u), v)
        BY <1>2, <1>3, <2>1, <2>3, <4>3
      <4>4. QED
        BY <4>1, <4>2, <4>3
    <3>4. QED
      BY <3>1, <3>2, <3>3
  <2>4. QED
    BY <2>1, <2>3
<1> HIDE DEF S
<1>6. DOMAIN t \subseteq S
  BY <1>4, <1>5, Downward
<1>7. QED
  BY <1>6 DEF S, In

\* The same of two nodes that overlap along both axes.
Meet(axis, a, b) == Start(axis, a) < End(axis, b) /\ Start(axis, b) < End(axis, a)

LEMMA OverlapIsMeeting ==
  ASSUME NEW a \in Boxes, NEW b \in Boxes, NEW axis, Along(axis, a) > 0, Along(axis, b) > 0
  PROVE  Overlap(axis, a, b) <=> Meet(axis, a, b)
<1>1. /\ Start(axis, a) \in Int /\ Start(axis, b) \in Int
      /\ Along(axis, a) \in Nat /\ Along(axis, b) \in Nat
  BY BoxParts
<1>2. End(axis, a) \in Int /\ End(axis, b) \in Int
      /\ Start(axis, a) < End(axis, a) /\ Start(axis, b) < End(axis, b)
  BY <1>1 DEF End
<1>3. QED
  BY <1>1, <1>2, MaxOfTwo, MinOfTwo DEF Overlap, Meet

LEMMA FramesMeet ==
  ASSUME NEW t, IsTree(t), Shallow(t), NEW rect \in Boxes,
         NEW v \in DOMAIN t, NEW w \in DOMAIN t,
         \A axis \in Axes : /\ Along(axis, Layout(t, rect)[v]) > 0
                            /\ Along(axis, Layout(t, rect)[w]) > 0
                            /\ Meet(axis, Layout(t, rect)[v], Layout(t, rect)[w])
  PROVE  IsPrefix(w, v) \/ IsPrefix(v, w)
<1> DEFINE a == Layout(t, rect)[v]
           b == Layout(t, rect)[w]
           x == IF a.x >= b.x THEN a.x ELSE b.x
           y == IF a.y >= b.y THEN a.y ELSE b.y
<1>1. a \in Boxes /\ b \in Boxes
  BY LayoutOf
<1>2. /\ a.x \in Int /\ a.y \in Int /\ a.w \in Nat /\ a.h \in Nat
      /\ b.x \in Int /\ b.y \in Int /\ b.w \in Nat /\ b.h \in Nat
  BY <1>1, BoxParts
<1>3. \A axis \in Axes : Along(axis, a) > 0 /\ Along(axis, b) > 0 /\ Meet(axis, a, b)
  OBVIOUS
<1> HIDE DEF a, b
<1>4. /\ a.w > 0 /\ b.w > 0 /\ a.x < b.x + b.w /\ b.x < a.x + a.w
      /\ a.h > 0 /\ b.h > 0 /\ a.y < b.y + b.h /\ b.y < a.y + a.h
  BY <1>3 DEF Axes, Along, Meet, Start, End
<1>5. x \in Int /\ y \in Int /\ Covers(a, x, y) /\ Covers(b, x, y)
  BY <1>2, <1>4 DEF Covers
<1>6. InFrame(t, rect, v, x, y) /\ InFrame(t, rect, w, x, y)
  BY <1>5 DEF InFrame, a, b
<1> HIDE DEF x, y
<1>7. QED
  BY <1>5, <1>6, PixelShared

--------------------------------------------------------------------------------
(* A layout, seen in a direction. *)

\* Where the halves of a split lie that has room: they meet at a divider of full width.
Beside(axis, rect, one, other) ==
  /\ Start(axis, one) = Start(axis, rect) /\ End(axis, other) = End(axis, rect)
  /\ Start(axis, other) = End(axis, one) + Gap
Level(axis, rect, r) == Start(axis, r) = Start(axis, rect) /\ End(axis, r) = End(axis, rect)

LEMMA HalvesBeside ==
  ASSUME NEW t, IsTree(t), Shallow(t), NEW w \in Splits(t), NEW rect \in Boxes, Fits(t, w, rect),
         NEW a \in Axes
  PROVE  LET one   == FirstRect(t, w, rect)
             other == SecondRect(t, w, rect)
         IN  /\ a = t[w].axis => Beside(a, rect, one, other)
             /\ a # t[w].axis => Level(a, rect, one) /\ Level(a, rect, other)
<1> DEFINE axis   == t[w].axis
           along  == Along(axis, rect)
           usable == Usable(t[w], rect)
           l      == FirstLength(t, w, rect)
           one    == FirstRect(t, w, rect)
           other  == SecondRect(t, w, rect)
<1>1. w \in DOMAIN t /\ axis \in Axes
  BY TreeNodes DEF Splits
<1>2. /\ along \in Nat /\ usable \in 0 .. along /\ l \in 0 .. usable
      /\ usable = IF Gap <= along THEN along - Gap ELSE 0
  BY LengthsOf
<1>3. along >= Gap
  <2> DEFINE m      == MinimumAlong(t, w, axis)
             first  == MinimumAlong(t, First(w), axis)
             second == MinimumAlong(t, Second(w), axis)
  <2>1. first \in Nat /\ second \in Nat /\ m = first + Gap + second
    BY <1>1, MinimumOf
  <2>2. along >= m
    BY <1>1 DEF Fits
  <2> HIDE DEF m, first, second, along
  <2>3. QED
    BY <1>2, <2>1, <2>2, SizesAssumption
<1>4. one = Strip(axis, rect, 0, l) /\ other = Strip(axis, rect, (along - usable) + l, usable - l)
  BY DEF FirstRect, SecondRect
<1>5. Along(axis, rect) = along
  OBVIOUS
<1> HIDE DEF axis, along, usable, l, one, other
<1>6. along - usable = Gap /\ l \in Nat /\ usable - l \in Nat /\ Gap + l \in Nat
      /\ Gap + l + (usable - l) = along
  BY <1>2, <1>3, SizesAssumption
<1>7. rect.x \in Int /\ rect.y \in Int /\ rect.w \in Nat /\ rect.h \in Nat
  BY BoxParts
<1>8. other = Strip(axis, rect, Gap + l, usable - l)
  BY <1>4, <1>6
<1>9. \A o \in Nat, k \in Nat :
        LET r == Strip(axis, rect, o, k)
        IN  /\ axis = "leftRight" => r.x = rect.x + o /\ r.w = k /\ r.y = rect.y /\ r.h = rect.h
            /\ axis = "topBottom" => r.x = rect.x /\ r.w = rect.w /\ r.y = rect.y + o /\ r.h = k
  BY <1>1, StripFields
<1>10. /\ axis = "leftRight" => one.x = rect.x + 0 /\ one.w = l /\ one.y = rect.y /\ one.h = rect.h
       /\ axis = "topBottom" => one.x = rect.x /\ one.w = rect.w /\ one.y = rect.y + 0 /\ one.h = l
  BY <1>4, <1>6, <1>9
<1>11. /\ axis = "leftRight" => /\ other.x = rect.x + (Gap + l) /\ other.w = usable - l
                                /\ other.y = rect.y /\ other.h = rect.h
       /\ axis = "topBottom" => /\ other.x = rect.x /\ other.w = rect.w
                                /\ other.y = rect.y + (Gap + l) /\ other.h = usable - l
  BY <1>6, <1>8, <1>9
<1>12. CASE axis = "leftRight"
  <2>1. rect.x + 0 = rect.x /\ (rect.x + (Gap + l)) + (usable - l) = rect.x + rect.w
        /\ rect.x + (Gap + l) = (rect.x + l) + Gap
    BY <1>2, <1>5, <1>6, <1>7, <1>12, SizesAssumption DEF Along
  <2>2. a = axis => Beside(a, rect, one, other)
    BY <1>10, <1>11, <1>12, <2>1 DEF Beside, Start, End, Along
  <2>3. a # axis => Level(a, rect, one) /\ Level(a, rect, other)
    BY <1>10, <1>11, <1>12 DEF Level, Start, End, Along, Axes
  <2>4. QED
    BY <2>2, <2>3 DEF axis, one, other
<1>13. CASE axis = "topBottom"
  <2>1. rect.y + 0 = rect.y /\ (rect.y + (Gap + l)) + (usable - l) = rect.y + rect.h
        /\ rect.y + (Gap + l) = (rect.y + l) + Gap
    BY <1>2, <1>5, <1>6, <1>7, <1>13, SizesAssumption DEF Along
  <2>2. a = axis => Beside(a, rect, one, other)
    BY <1>10, <1>11, <1>13, <2>1 DEF Beside, Start, End, Along
  <2>3. a # axis => Level(a, rect, one) /\ Level(a, rect, other)
    BY <1>10, <1>11, <1>13 DEF Level, Start, End, Along, Axes
  <2>4. QED
    BY <2>2, <2>3 DEF axis, one, other
<1>14. QED
  BY <1>1, <1>12, <1>13 DEF Axes

\* The sides of a frame as one comes upon them going in a direction.
Near(d, r) == IF Forward(d) THEN Start(AxisOf(d), r) ELSE -End(AxisOf(d), r)
Far(d, r)  == IF Forward(d) THEN End(AxisOf(d), r) ELSE -Start(AxisOf(d), r)
Behind(d, w) == IF Forward(d) THEN First(w) ELSE Second(w)
Beyond(d, w) == IF Forward(d) THEN Second(w) ELSE First(w)

LEMMA AxisTyped ==
  ASSUME NEW d \in Directions
  PROVE  /\ AxisOf(d) \in Axes /\ Across(AxisOf(d)) \in Axes /\ Across(AxisOf(d)) # AxisOf(d)
         /\ \A a \in Axes : a = AxisOf(d) \/ a = Across(AxisOf(d))
  BY DEF AxisOf, Axes, Across

LEMMA SidesOf ==
  ASSUME NEW d \in Directions, NEW a \in Boxes
  PROVE  /\ Near(d, a) \in Int /\ Far(d, a) \in Int /\ Along(AxisOf(d), a) \in Nat
         /\ Far(d, a) = Near(d, a) + Along(AxisOf(d), a)
<1>1. /\ Along(AxisOf(d), a) \in Nat /\ Start(AxisOf(d), a) \in Int
      /\ End(AxisOf(d), a) = Start(AxisOf(d), a) + Along(AxisOf(d), a)
  BY BoxParts DEF End
<1>2. QED
  BY <1>1 DEF Near, Far

LEMMA SidesCompared ==
  ASSUME NEW d \in Directions, NEW a \in Boxes, NEW b \in Boxes
  PROVE  /\ Ahead(d, a, b) = Near(d, b) - Far(d, a)
         /\ (IF Forward(d) THEN Centre2(AxisOf(d), b) > Centre2(AxisOf(d), a)
             ELSE Centre2(AxisOf(d), b) < Centre2(AxisOf(d), a))
              <=> Near(d, b) + Far(d, b) > Near(d, a) + Far(d, a)
         /\ Meet(AxisOf(d), a, b) <=> Near(d, a) < Far(d, b) /\ Near(d, b) < Far(d, a)
         /\ Inside(a, b) => Near(d, a) >= Near(d, b) /\ Far(d, a) <= Far(d, b)
<1> DEFINE x == AxisOf(d)
<1>1. /\ Along(x, a) \in Nat /\ Start(x, a) \in Int /\ Along(x, b) \in Nat /\ Start(x, b) \in Int
      /\ End(x, a) = Start(x, a) + Along(x, a) /\ End(x, b) = Start(x, b) + Along(x, b)
      /\ x \in Axes
  BY BoxParts, AxisTyped DEF End
<1> HIDE DEF x
<1>2. Ahead(d, a, b) = Near(d, b) - Far(d, a)
  BY <1>1 DEF Ahead, Near, Far, x
<1>3. Centre2(x, a) = 2 * Start(x, a) + Along(x, a) /\ Centre2(x, b) = 2 * Start(x, b) + Along(x, b)
  BY DEF Centre2
<1>4. /\ Near(d, a) = IF Forward(d) THEN Start(x, a) ELSE -End(x, a)
      /\ Far(d, a) = IF Forward(d) THEN End(x, a) ELSE -Start(x, a)
      /\ Near(d, b) = IF Forward(d) THEN Start(x, b) ELSE -End(x, b)
      /\ Far(d, b) = IF Forward(d) THEN End(x, b) ELSE -Start(x, b)
  BY DEF Near, Far, x
<1>5. (IF Forward(d) THEN Centre2(x, b) > Centre2(x, a) ELSE Centre2(x, b) < Centre2(x, a))
         <=> Near(d, b) + Far(d, b) > Near(d, a) + Far(d, a)
  BY <1>1, <1>3, <1>4
<1>6. Meet(x, a, b) <=> Near(d, a) < Far(d, b) /\ Near(d, b) < Far(d, a)
  BY <1>1, <1>4 DEF Meet
<1>7. Inside(a, b) => Near(d, a) >= Near(d, b) /\ Far(d, a) <= Far(d, b)
  <2> SUFFICES ASSUME Inside(a, b) PROVE Near(d, a) >= Near(d, b) /\ Far(d, a) <= Far(d, b)
    OBVIOUS
  <2>1. Start(x, a) >= Start(x, b) /\ End(x, a) <= End(x, b)
    BY <1>1 DEF Inside
  <2>2. QED
    BY <1>1, <1>4, <2>1
<1>8. QED
  BY <1>2, <1>5, <1>6, <1>7 DEF x

\* The halves of a split in a layout that has room, as one comes upon them.
LEMMA HalvesInDirection ==
  ASSUME NEW t, IsTree(t), Shallow(t), NEW rect \in Boxes, Fits(t, << >>, rect),
         NEW d \in Directions, NEW w \in Splits(t)
  PROVE  LET frame == Layout(t, rect)
             x     == Across(AxisOf(d))
         IN  /\ t[w].axis = AxisOf(d) =>
                  /\ Near(d, frame[Behind(d, w)]) = Near(d, frame[w])
                  /\ Far(d, frame[Beyond(d, w)]) = Far(d, frame[w])
                  /\ Near(d, frame[Beyond(d, w)]) = Far(d, frame[Behind(d, w)]) + Gap
                  /\ Level(x, frame[w], frame[First(w)]) /\ Level(x, frame[w], frame[Second(w)])
             /\ t[w].axis = x =>
                  /\ \A h \in {First(w), Second(w)} : /\ Near(d, frame[h]) = Near(d, frame[w])
                                                      /\ Far(d, frame[h]) = Far(d, frame[w])
                  /\ Beside(x, frame[w], frame[First(w)], frame[Second(w)])
<1> DEFINE frame == Layout(t, rect)
           x     == Across(AxisOf(d))
<1>1. w \in DOMAIN t /\ frame[w] \in Boxes /\ Fits(t, w, frame[w])
  BY LayoutOf, FramesInside DEF Splits
<1>2. /\ frame[First(w)] = FirstRect(t, w, frame[w])
      /\ frame[Second(w)] = SecondRect(t, w, frame[w])
      /\ frame[First(w)] \in Boxes /\ frame[Second(w)] \in Boxes
  <2>1. First(w) \in DOMAIN t /\ Second(w) \in DOMAIN t
    BY <1>1, TreeSteps
  <2>2. QED
    BY <2>1, LayoutOf
<1>3. AxisOf(d) \in Axes /\ x \in Axes /\ x # AxisOf(d)
  BY AxisTyped
<1> HIDE DEF frame, x
<1>4. \A a \in Axes :
        /\ a = t[w].axis => Beside(a, frame[w], frame[First(w)], frame[Second(w)])
        /\ a # t[w].axis => /\ Level(a, frame[w], frame[First(w)])
                            /\ Level(a, frame[w], frame[Second(w)])
  BY <1>1, <1>2, HalvesBeside
<1>5. ASSUME t[w].axis = AxisOf(d)
      PROVE  /\ Near(d, frame[Behind(d, w)]) = Near(d, frame[w])
             /\ Far(d, frame[Beyond(d, w)]) = Far(d, frame[w])
             /\ Near(d, frame[Beyond(d, w)]) = Far(d, frame[Behind(d, w)]) + Gap
             /\ Level(x, frame[w], frame[First(w)]) /\ Level(x, frame[w], frame[Second(w)])
  <2>1. Beside(AxisOf(d), frame[w], frame[First(w)], frame[Second(w)])
    BY <1>3, <1>4, <1>5
  <2>2. Level(x, frame[w], frame[First(w)]) /\ Level(x, frame[w], frame[Second(w)])
    BY <1>3, <1>4, <1>5
  <2>3. \A r \in Boxes : Start(AxisOf(d), r) \in Int /\ End(AxisOf(d), r) \in Int
    BY BoxParts DEF End
  <2>4. QED
    BY <1>1, <1>2, <2>1, <2>2, <2>3, SizesAssumption DEF Beside, Near, Far, Behind, Beyond
<1>6. ASSUME t[w].axis = x
      PROVE  /\ \A h \in {First(w), Second(w)} : /\ Near(d, frame[h]) = Near(d, frame[w])
                                                 /\ Far(d, frame[h]) = Far(d, frame[w])
             /\ Beside(x, frame[w], frame[First(w)], frame[Second(w)])
  <2>1. /\ Level(AxisOf(d), frame[w], frame[First(w)])
        /\ Level(AxisOf(d), frame[w], frame[Second(w)])
    BY <1>3, <1>4, <1>6
  <2>2. Beside(x, frame[w], frame[First(w)], frame[Second(w)])
    BY <1>3, <1>4, <1>6
  <2>3. QED
    BY <2>1, <2>2 DEF Level, Near, Far
<1>7. QED
  BY <1>5, <1>6 DEF frame, x

\* Below a node there is a pane at its far side.
LEMMA EdgePane ==
  ASSUME NEW t, IsTree(t), Shallow(t), NEW rect \in Boxes, Fits(t, << >>, rect),
         NEW d \in Directions, NEW v \in DOMAIN t
  PROVE  \E u \in Leaves(t) : /\ IsPrefix(v, u)
                              /\ Far(d, Layout(t, rect)[u]) = Far(d, Layout(t, rect)[v])
<1> DEFINE F == Layout(t, rect)
           S == {w \in DOMAIN t : \E u \in Leaves(t) : IsPrefix(w, u) /\ Far(d, F[u]) = Far(d, F[w])}
<1>1. \A w \in DOMAIN t : w \in Ways /\ IsPrefix(w, w)
  BY TreeSteps, PrefixFacts DEF Ways
<1>2. Leaves(t) \subseteq S
  BY <1>1 DEF Leaves
<1>3. ASSUME NEW w \in Splits(t), First(w) \in S, Second(w) \in S PROVE w \in S
  <2>1. w \in DOMAIN t /\ First(w) \in DOMAIN t /\ Second(w) \in DOMAIN t
    BY <1>3 DEF Splits
  <2>2. \E h \in {First(w), Second(w)} : Far(d, F[h]) = Far(d, F[w])
    <3>1. t[w].axis \in Axes
      BY <2>1, TreeNodes
    <3>2. CASE t[w].axis = AxisOf(d)
      BY <3>2, HalvesInDirection DEF Beyond
    <3>3. CASE t[w].axis = Across(AxisOf(d))
      BY <3>3, HalvesInDirection
    <3>4. QED
      BY <3>1, <3>2, <3>3, AxisTyped
  <2>3. PICK h \in {First(w), Second(w)} : Far(d, F[h]) = Far(d, F[w])
    BY <2>2
  <2> HIDE DEF F
  <2>4. PICK u \in Leaves(t) : IsPrefix(h, u) /\ Far(d, F[u]) = Far(d, F[h])
    BY <1>3
  <2>5. u \in Ways /\ IsPrefix(w, u)
    BY <1>1, <2>1, <2>4, PrefixOfHalves DEF Leaves
  <2>6. QED
    BY <2>1, <2>3, <2>4, <2>5
<1> HIDE DEF S
<1>4. DOMAIN t \subseteq S
  BY <1>2, <1>3, Upward
<1>5. QED
  BY <1>4 DEF S, F

\* Below a node there is a pane at its near side next to any stretch that is longer than a
\* divider is wide.
NextTo(x, r, low, high) == Start(x, r) < high /\ low < End(x, r)

LEMMA FacingPane ==
  ASSUME NEW t, IsTree(t), Shallow(t), NEW rect \in Boxes, Fits(t, << >>, rect),
         NEW d \in Directions, NEW v \in DOMAIN t,
         NEW low \in Int, NEW high \in Int, high - low > Gap,
         NextTo(Across(AxisOf(d)), Layout(t, rect)[v], low, high)
  PROVE  \E u \in Leaves(t) : /\ IsPrefix(v, u)
                              /\ Near(d, Layout(t, rect)[u]) = Near(d, Layout(t, rect)[v])
                              /\ NextTo(Across(AxisOf(d)), Layout(t, rect)[u], low, high)
<1> DEFINE F == Layout(t, rect)
           x == Across(AxisOf(d))
           Facing(w) == \E u \in Leaves(t) : /\ IsPrefix(w, u) /\ Near(d, F[u]) = Near(d, F[w])
                                             /\ NextTo(x, F[u], low, high)
           S == {w \in DOMAIN t : NextTo(x, F[w], low, high) => Facing(w)}
<1>1. \A w \in DOMAIN t : w \in Ways /\ IsPrefix(w, w) /\ F[w] \in Boxes
  BY TreeSteps, PrefixFacts, LayoutOf DEF Ways
<1>2. Leaves(t) \subseteq S
  BY <1>1 DEF Leaves
<1>3. ASSUME NEW w \in Splits(t), First(w) \in S, Second(w) \in S, NextTo(x, F[w], low, high)
      PROVE  Facing(w)
  <2>1. w \in DOMAIN t /\ First(w) \in DOMAIN t /\ Second(w) \in DOMAIN t
    BY <1>3 DEF Splits
  <2>2. \E h \in {First(w), Second(w)} : /\ Near(d, F[h]) = Near(d, F[w])
                                         /\ NextTo(x, F[h], low, high)
    <3>1. t[w].axis \in Axes
      BY <2>1, TreeNodes
    <3>2. CASE t[w].axis = AxisOf(d)
      <4>1. Near(d, F[Behind(d, w)]) = Near(d, F[w]) /\ Behind(d, w) \in {First(w), Second(w)}
            /\ Level(x, F[w], F[Behind(d, w)])
        BY <3>2, HalvesInDirection DEF Behind
      <4>2. QED
        BY <1>3, <4>1 DEF Level, NextTo
    <3>3. CASE t[w].axis = x
      <4>1. /\ Near(d, F[First(w)]) = Near(d, F[w]) /\ Near(d, F[Second(w)]) = Near(d, F[w])
            /\ Beside(x, F[w], F[First(w)], F[Second(w)])
        BY <3>3, HalvesInDirection
      <4>2. \A h \in {w, First(w), Second(w)} : Start(x, F[h]) \in Int /\ End(x, F[h]) \in Int
        <5>1. \A r \in Boxes : Start(x, r) \in Int /\ End(x, r) \in Int
          BY BoxParts DEF End
        <5>2. QED
          BY <1>1, <2>1, <5>1
      <4> HIDE DEF F, x
      <4>3. NextTo(x, F[First(w)], low, high) \/ NextTo(x, F[Second(w)], low, high)
        BY <1>3, <4>1, <4>2, SizesAssumption DEF NextTo, Beside
      <4>4. QED
        BY <4>1, <4>3
    <3>4. QED
      BY <3>1, <3>2, <3>3, AxisTyped
  <2>3. PICK h \in {First(w), Second(w)} : /\ Near(d, F[h]) = Near(d, F[w])
                                           /\ NextTo(x, F[h], low, high)
    BY <2>2
  <2> HIDE DEF F, x
  <2>4. PICK u \in Leaves(t) : /\ IsPrefix(h, u) /\ Near(d, F[u]) = Near(d, F[h])
                               /\ NextTo(x, F[u], low, high)
    BY <1>3, <2>3
  <2>5. u \in Ways /\ IsPrefix(w, u)
    BY <1>1, <2>1, <2>4, PrefixOfHalves DEF Leaves
  <2>6. QED
    BY <2>3, <2>4, <2>5
<1>4. ASSUME NEW w \in Splits(t), First(w) \in S, Second(w) \in S PROVE w \in S
  <2>1. NextTo(x, F[w], low, high) => Facing(w)
    BY <1>3, <1>4
  <2> HIDE DEF Facing
  <2>2. QED
    BY <1>4, <2>1 DEF Splits
<1> HIDE DEF S
<1>5. DOMAIN t \subseteq S
  BY <1>2, <1>4, Upward
<1>6. QED
  BY <1>5 DEF S, F, x

--------------------------------------------------------------------------------
(* Where the focus can be moved to. *)

\* A pane in a tab that has room is wider than a divider.
LEMMA PaneLength ==
  ASSUME NEW t, IsTree(t), Shallow(t), NEW rect \in Boxes, Fits(t, << >>, rect),
         NEW u \in Leaves(t), NEW axis \in Axes
  PROVE  Along(axis, Layout(t, rect)[u]) \in Nat /\ Along(axis, Layout(t, rect)[u]) > Gap
<1>1. u \in DOMAIN t /\ Layout(t, rect)[u] \in Boxes /\ Fits(t, u, Layout(t, rect)[u])
  BY LayoutOf, FramesInside DEF Leaves
<1>2. MinimumAlong(t, u, axis) = Smallest(axis)
  BY <1>1, MinimumOf
<1>3. /\ Along(axis, Layout(t, rect)[u]) \in Nat
      /\ Along(axis, Layout(t, rect)[u]) >= Smallest(axis)
  BY <1>1, <1>2, BoxParts DEF Fits
<1>4. QED
  BY <1>3, SizesAssumption, GapAssumption DEF Smallest

\* From somewhere behind a divider the focus moves across it.
LEMMA FocusCrosses ==
  ASSUME Sound(root), view \in Rects, Roomy, NEW d \in Directions,
         NEW w \in Splits(root), root[w].axis = AxisOf(d)
  PROVE  \E p \in PanesBelow(root, Behind(d, w)) :
           /\ InDirection(Frames, p, d) # {}
           /\ Neighbour(Frames, p, d) \in PanesBelow(root, Beyond(d, w))
<1> DEFINE F == Layout(root, view)
           a == AxisOf(d)
           x == Across(a)
           b == Behind(d, w)
           c == Beyond(d, w)
<1>1. /\ IsTree(root) /\ Shallow(root) /\ OncePerPane(root)
      /\ view \in Boxes /\ Fits(root, << >>, view)
  BY ViewIsBox DEF Sound, Roomy, Fits
<1>2. /\ \A v \in DOMAIN root : v \in Ways /\ F[v] \in Boxes
      /\ \A v \in Leaves(root) : v \in DOMAIN root /\ v \in Ways /\ F[v] \in Boxes
  BY <1>1, TreeSteps, LayoutOf DEF Ways, Leaves
<1>3. a \in Axes /\ x \in Axes /\ x # a /\ \A y \in Axes : y = a \/ y = x
  BY AxisTyped
<1>4. /\ {b, c} = {First(w), Second(w)}
      /\ w \in DOMAIN root /\ b \in DOMAIN root /\ c \in DOMAIN root
  BY <1>1, TreeSteps DEF Behind, Beyond, Splits
<1>5. /\ Near(d, F[b]) = Near(d, F[w]) /\ Far(d, F[c]) = Far(d, F[w])
      /\ Near(d, F[c]) = Far(d, F[b]) + Gap
      /\ Level(x, F[w], F[b]) /\ Level(x, F[w], F[c])
  BY <1>1, <1>4, HalvesInDirection
<1>6. \A v \in Leaves(root) : WayTo(root, root[v].id) = v /\ root[v].id \in Within(root)
  BY <1>1, WayToPane DEF OncePerPane, Within
<1>7. \A v \in Leaves(root) : Frames[root[v].id] = F[v]
  BY <1>6 DEF Frames, Frame
<1>8. DOMAIN Frames = Within(root) /\ \A p \in Within(root) : Frames[p] \in Boxes
  BY FramesTyped
<1>9. \A v \in Leaves(root), y \in Axes : Along(y, F[v]) \in Nat /\ Along(y, F[v]) > Gap
  BY <1>1, PaneLength
<1>10. \A v \in DOMAIN root : \A u \in DOMAIN root : IsPrefix(v, u) => Inside(F[u], F[v])
  BY <1>1, FramesNested
<1>11. PICK u \in Leaves(root) : IsPrefix(b, u) /\ Far(d, F[u]) = Far(d, F[b])
  BY <1>1, <1>4, EdgePane
<1>12. \A r \in Boxes : /\ Start(x, r) \in Int /\ End(x, r) \in Int
                        /\ End(x, r) = Start(x, r) + Along(x, r)
                        /\ Near(d, r) \in Int /\ Far(d, r) \in Int
                        /\ Far(d, r) = Near(d, r) + Along(a, r)
  BY BoxParts, SidesOf DEF End
<1>13. Inside(F[u], F[b])
  BY <1>2, <1>4, <1>10, <1>11
<1>14. \A q \in Within(root) : \A r \in Within(root) :
         r \in InDirection(Frames, q, d)
           <=> Near(d, Frames[r]) + Far(d, Frames[r]) > Near(d, Frames[q]) + Far(d, Frames[q])
  BY <1>8, SidesCompared DEF InDirection
<1> DEFINE p == root[u].id
<1>15. p \in PanesBelow(root, b) /\ p \in Within(root) /\ Frames[p] = F[u]
  BY <1>6, <1>7, <1>11 DEF PanesBelow
<1> HIDE DEF F, a, x, b, c, p
<1>16. PICK v \in Leaves(root) : /\ IsPrefix(c, v) /\ Near(d, F[v]) = Near(d, F[c])
                                 /\ NextTo(x, F[v], Start(x, F[u]), End(x, F[u]))
  <2>1. Start(x, F[u]) >= Start(x, F[b]) /\ End(x, F[u]) <= End(x, F[b])
    BY <1>3, <1>13 DEF Inside
  <2>2. /\ Start(x, F[u]) \in Int /\ End(x, F[u]) \in Int
        /\ End(x, F[u]) - Start(x, F[u]) > Gap
    BY <1>2, <1>3, <1>9, <1>12, SizesAssumption
  <2>3. NextTo(x, F[c], Start(x, F[u]), End(x, F[u]))
    BY <1>2, <1>4, <1>5, <1>12, <2>1, <2>2, SizesAssumption DEF NextTo, Level
  <2>4. QED
    BY <1>1, <1>4, <2>2, <2>3, FacingPane DEF F, a, x
<1> DEFINE q == root[v].id
<1>17. q \in Within(root) /\ Frames[q] = F[v]
  BY <1>6, <1>7
<1>18. /\ Near(d, F[u]) \in Int /\ Far(d, F[u]) \in Int /\ Near(d, F[v]) \in Int
       /\ Far(d, F[v]) \in Int /\ Near(d, F[u]) < Far(d, F[u]) /\ Near(d, F[v]) < Far(d, F[v])
       /\ Near(d, F[v]) = Far(d, F[u]) + Gap
  BY <1>2, <1>3, <1>5, <1>9, <1>11, <1>12, <1>16, SizesAssumption
<1>19. q \in InDirection(Frames, p, d)
  BY <1>14, <1>15, <1>17, <1>18, SizesAssumption
<1>20. Overlap(x, Frames[p], Frames[q])
  BY <1>2, <1>3, <1>9, <1>15, <1>16, <1>17, OverlapIsMeeting, SizesAssumption DEF Meet, NextTo
<1> DEFINE n == Neighbour(Frames, p, d)
<1>21. /\ n \in Within(root) /\ n \in InDirection(Frames, p, d)
       /\ Overlap(x, Frames[p], Frames[n])
       /\ Max({Ahead(d, Frames[p], Frames[n]), 0}) <= Max({Ahead(d, Frames[p], Frames[q]), 0})
  BY <1>8, <1>15, <1>19, <1>20, NeighbourFound DEF x, a
<1> DEFINE z == WayTo(root, n)
<1>22. z \in Leaves(root) /\ root[z].id = n /\ Frames[n] = F[z]
  BY <1>7, <1>21, WayToPane
<1> HIDE DEF q, n, z
<1>23. /\ Near(d, F[z]) \in Int /\ Far(d, F[z]) \in Int /\ Near(d, F[z]) < Far(d, F[z])
       /\ Near(d, F[z]) + Far(d, F[z]) > Near(d, F[u]) + Far(d, F[u])
  <2>1. Near(d, F[z]) + Far(d, F[z]) > Near(d, F[u]) + Far(d, F[u])
    BY <1>14, <1>15, <1>21, <1>22
  <2>2. QED
    BY <1>2, <1>3, <1>9, <1>12, <1>22, <2>1, SizesAssumption
<1>24. Near(d, F[z]) <= Near(d, F[c])
  <2>1. /\ Ahead(d, Frames[p], Frames[n]) = Near(d, F[z]) - Far(d, F[u])
        /\ Ahead(d, Frames[p], Frames[q]) = Near(d, F[v]) - Far(d, F[u])
    BY <1>2, <1>15, <1>17, <1>22, SidesCompared
  <2>2. /\ \A i \in Int : Max({i, 0}) \in Int /\ Max({i, 0}) >= i
        /\ Max({Gap, 0}) = Gap
    BY MaxOfTwo, SizesAssumption
  <2>3. Near(d, F[v]) - Far(d, F[u]) = Gap
    BY <1>18, SizesAssumption
  <2>4. Max({Near(d, F[z]) - Far(d, F[u]), 0}) <= Gap
    BY <1>21, <2>1, <2>2, <2>3
  <2>5. Near(d, F[z]) - Far(d, F[u]) <= Gap
    <3>1. Near(d, F[z]) - Far(d, F[u]) \in Int
      BY <1>18, <1>23
    <3>2. QED
      BY <2>2, <2>4, <3>1, SizesAssumption
  <2>6. QED
    BY <1>16, <1>18, <1>23, <2>5, SizesAssumption
<1>25. Start(x, F[z]) < End(x, F[u]) /\ Start(x, F[u]) < End(x, F[z])
  BY <1>2, <1>3, <1>9, <1>15, <1>21, <1>22, OverlapIsMeeting, SizesAssumption DEF Meet
<1>26. IsPrefix(w, u) /\ Inside(F[u], F[w])
  <2>1. IsPrefix(w, u)
    BY <1>2, <1>4, <1>11, PrefixOfHalves
  <2>2. QED
    BY <1>2, <1>4, <1>10, <2>1
<1>27. IsPrefix(w, z)
  <2>1. /\ Start(x, F[u]) >= Start(x, F[w]) /\ End(x, F[u]) <= End(x, F[w])
        /\ Near(d, F[u]) >= Near(d, F[w])
    BY <1>2, <1>3, <1>4, <1>26, SidesCompared DEF Inside
  <2>2. Meet(x, F[z], F[w])
    BY <1>2, <1>4, <1>12, <1>22, <1>25, <2>1 DEF Meet
  <2>3. Near(d, F[z]) < Far(d, F[w]) /\ Near(d, F[w]) < Far(d, F[z])
    <3>1. Far(d, F[v]) <= Far(d, F[w])
      BY <1>2, <1>4, <1>5, <1>10, <1>16, SidesCompared
    <3>2. Near(d, F[w]) \in Int /\ Far(d, F[w]) \in Int
      BY <1>2, <1>4, <1>12
    <3>3. QED
      BY <1>16, <1>18, <1>23, <1>24, <2>1, <3>1, <3>2
  <2>4. Meet(a, F[z], F[w])
    BY <1>2, <1>4, <1>22, <2>3, SidesCompared DEF a
  <2>5. \A y \in Axes : Along(y, F[z]) > 0 /\ Along(y, F[w]) > 0
    <3>1. \A y \in Axes : MinimumAlong(root, w, y) \in Nat \ {0}
      BY <1>1, <1>4, MinimumPositive
    <3>2. Fits(root, w, F[w])
      BY <1>1, <1>4, FramesInside DEF F
    <3>3. \A y \in Axes : Along(y, F[w]) \in Nat /\ Along(y, F[w]) >= MinimumAlong(root, w, y)
      BY <1>2, <1>4, <3>2, BoxParts DEF Fits
    <3>4. QED
      BY <1>9, <1>22, <3>1, <3>3, SizesAssumption
  <2>6. \A y \in Axes : Along(y, F[z]) > 0 /\ Along(y, F[w]) > 0 /\ Meet(y, F[z], F[w])
    BY <1>3, <2>2, <2>4, <2>5
  <2>7. IsPrefix(w, z) \/ IsPrefix(z, w)
    BY <1>1, <1>2, <1>4, <1>22, <2>6, FramesMeet DEF F
  <2>8. ASSUME IsPrefix(z, w) PROVE FALSE
    <3>1. z # w
      BY <1>22 DEF Leaves
    <3>2. z \in Splits(root)
      BY <1>1, <1>2, <1>4, <1>22, <2>8, <3>1, BelowIsSplit
    <3>3. QED
      BY <1>22, <3>2 DEF Leaves
  <2>9. QED
    BY <2>7, <2>8
<1>28. ~ IsPrefix(b, z)
  <2> SUFFICES ASSUME IsPrefix(b, z) PROVE FALSE
    OBVIOUS
  <2>1. Inside(F[z], F[b])
    BY <1>2, <1>4, <1>10, <1>22
  <2>2. Far(d, F[z]) <= Far(d, F[u])
    BY <1>2, <1>4, <1>11, <1>22, <2>1, SidesCompared
  <2>3. Near(d, F[u]) < Far(d, F[z]) /\ Near(d, F[z]) < Far(d, F[u])
    BY <1>18, <1>23, <2>2
  <2>4. Meet(a, F[u], F[z]) /\ Meet(x, F[u], F[z])
    BY <1>2, <1>22, <1>25, <2>3, SidesCompared DEF a, Meet
  <2>5. \A y \in Axes : Along(y, F[u]) > 0 /\ Along(y, F[z]) > 0 /\ Meet(y, F[u], F[z])
    BY <1>3, <1>9, <1>22, <2>4, SizesAssumption
  <2>6. IsPrefix(z, u) \/ IsPrefix(u, z)
    BY <1>1, <1>2, <1>22, <2>5, FramesMeet DEF F
  <2>7. z = u
    BY <1>1, <1>2, <1>22, <2>6, BelowIsSplit DEF Leaves
  <2>8. QED
    BY <1>18, <1>23, <2>7
<1>29. IsPrefix(c, z)
  <2>1. z # w
    BY <1>22 DEF Leaves
  <2>2. IsPrefix(First(w), z) \/ IsPrefix(Second(w), z)
    BY <1>2, <1>4, <1>22, <1>27, <2>1, PrefixOfHalves
  <2>3. QED
    BY <1>4, <1>28, <2>2
<1>30. n \in PanesBelow(root, c)
  BY <1>22, <1>29 DEF PanesBelow
<1>31. QED
  BY <1>15, <1>21, <1>30 DEF n, b, c

\* So no set of panes but all of them is closed under moving the focus: going up the tree,
\* the panes below a node are all in it or all out of it.
LEMMA ReachableAlways ==
  ASSUME Sound(root), view \in Rects
  PROVE  AllReachable
<1> DEFINE ways(p) == {d \in Directions : InDirection(Frames, p, d) # {}}
           to(p)   == {Neighbour(Frames, p, d) : d \in ways(p)}
<1> SUFFICES ASSUME Roomy, NEW some \in (SUBSET Within(root)) \ {{}, Within(root)},
                    \A p \in some : to(p) \subseteq some
             PROVE  FALSE
  BY DEF AllReachable
<1>1. IsTree(root) /\ Shallow(root) /\ OncePerPane(root)
  BY DEF Sound
<1> DEFINE P(w) == PanesBelow(root, w)
           S == {w \in DOMAIN root : P(w) \subseteq some \/ P(w) \intersect some = {}}
<1>2. Leaves(root) \subseteq S
  BY <1>1, PanesOfNode DEF Leaves
<1>3. ASSUME NEW d \in Directions, NEW w \in Splits(root), root[w].axis = AxisOf(d),
             P(Behind(d, w)) \subseteq some
      PROVE  P(Beyond(d, w)) \intersect some # {}
  <2>1. PICK p \in P(Behind(d, w)) : /\ InDirection(Frames, p, d) # {}
                                     /\ Neighbour(Frames, p, d) \in P(Beyond(d, w))
    BY <1>3, FocusCrosses
  <2>2. p \in some /\ Neighbour(Frames, p, d) \in to(p)
    BY <1>3, <2>1
  <2>3. QED
    BY <2>1, <2>2
<1>4. ASSUME NEW w \in Splits(root), First(w) \in S, Second(w) \in S PROVE w \in S
  <2>1. w \in DOMAIN root /\ P(w) = P(First(w)) \union P(Second(w)) /\ root[w].axis \in Axes
    BY <1>1, PanesOfNode, TreeNodes DEF Splits
  <2>2. \E d \in Directions : AxisOf(d) = root[w].axis /\ Forward(d)
    <3>1. CASE root[w].axis = "leftRight"
      BY <3>1 DEF Directions, AxisOf, Forward
    <3>2. CASE root[w].axis = "topBottom"
      BY <3>2 DEF Directions, AxisOf, Forward
    <3>3. QED
      BY <2>1, <3>1, <3>2 DEF Axes
  <2>3. \E d \in Directions : AxisOf(d) = root[w].axis /\ ~ Forward(d)
    <3>1. CASE root[w].axis = "leftRight"
      BY <3>1 DEF Directions, AxisOf, Forward
    <3>2. CASE root[w].axis = "topBottom"
      BY <3>2 DEF Directions, AxisOf, Forward
    <3>3. QED
      BY <2>1, <3>1, <3>2 DEF Axes
  <2>4. P(First(w)) \subseteq some => P(Second(w)) \intersect some # {}
    BY <1>3, <2>2 DEF Behind, Beyond
  <2>5. P(Second(w)) \subseteq some => P(First(w)) \intersect some # {}
    BY <1>3, <2>3 DEF Behind, Beyond
  <2> HIDE DEF P
  <2>6. QED
    BY <1>4, <2>1, <2>4, <2>5
<1> HIDE DEF S
<1>5. DOMAIN root \subseteq S
  BY <1>1, <1>2, <1>4, Upward
<1>6. << >> \in DOMAIN root /\ P(<< >>) = Within(root)
  BY <1>1, PanesOfNode DEF IsTree
<1>7. QED
  BY <1>5, <1>6 DEF S

\* In a window that has room the focus commands lead from every pane to every other one,
\* however the tree was split and its dividers moved.
THEOREM PanesReachable == Spec => []AllReachable
<1>1. IInv => AllReachable
  BY TabParts, ReachableAlways
<1>2. QED
  BY <1>1, TabInductive, PTL

================================================================================
