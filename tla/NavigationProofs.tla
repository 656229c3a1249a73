---------------------------- MODULE NavigationProofs ---------------------------
(***************************************************************************)
(* The hierarchy and its sessions, for any panes: the hierarchy stays well *)
(* formed, the active surface has a session, closing stays near, moving    *)
(* keeps the focus.                                                        *)
(*                                                                         *)
(* A container is judged by its elements and by the panes each of them     *)
(* holds, so that one set of lemmas serves workspaces, groups and tabs.    *)
(* An operation is then a change of one container, on the selected way     *)
(* down, that keeps its name and takes no pane of another; a pane that is  *)
(* named is brought onto that way first.  The invariant adds to the shape  *)
(* only that the active surface has a session: the focused pane may lack   *)
(* one, and reconciling then leaves sessions and active surface alone.     *)
(***************************************************************************)
EXTENDS Navigation, SequenceTheorems, TLAPS

--------------------------------------------------------------------------------
(* Sequences: what removing, inserting and looking up do. *)

LEMMA Least == \A k \in Int : Min({k}) = k
<1> SUFFICES ASSUME NEW k \in Int PROVE Min({k}) = k
  OBVIOUS
<1>1. k \in {k} /\ \A y \in {k} : k =< y
  OBVIOUS
<1>2. QED
  BY <1>1 DEF Min

LEMMA Lesser ==
  ASSUME NEW i \in Int, NEW j \in Int
  PROVE  Min({i, j}) = IF i <= j THEN i ELSE j
<1>1. \E x \in {i, j} : \A y \in {i, j} : x =< y
  OBVIOUS
<1>2. Min({i, j}) \in {i, j} /\ \A y \in {i, j} : Min({i, j}) =< y
  BY <1>1 DEF Min
<1>3. QED
  BY <1>2

LEMMA AfterRemoval ==
  ASSUME NEW S, NEW s \in Seq(S), NEW i \in 1 .. Len(s)
  PROVE  /\ RemoveAt(s, i) \in Seq(S)
         /\ Len(RemoveAt(s, i)) = Len(s) - 1
         /\ \A j \in 1 .. Len(s) - 1 : RemoveAt(s, i)[j] = s[IF j < i THEN j ELSE j + 1]
<1> DEFINE a == SubSeq(s, 1, i - 1)
           b == SubSeq(s, i + 1, Len(s))
           n == Len(s)
<1>1. n \in Nat /\ \A j \in 1 .. n : s[j] \in S
  BY ElementOfSeq, LenProperties
<1>2. a \in Seq(S) /\ Len(a) = i - 1 /\ \A j \in 1 .. i - 1 : a[j] = s[j]
  <2>1. \A j \in 1 .. i - 1 : s[j] \in S
    BY <1>1
  <2>2. /\ a \in Seq(S)
        /\ Len(a) = IF 1 <= i - 1 THEN i - 1 - 1 + 1 ELSE 0
        /\ \A j \in 1 .. i - 1 - 1 + 1 : a[j] = s[1 + j - 1]
    BY <2>1, <1>1, SubSeqProperties
  <2>3. QED
    BY <2>2, <1>1
<1>3. b \in Seq(S) /\ Len(b) = n - i /\ \A j \in 1 .. n - i : b[j] = s[i + j]
  <2>1. \A j \in i + 1 .. n : s[j] \in S
    BY <1>1
  <2>2. /\ b \in Seq(S)
        /\ Len(b) = IF i + 1 <= n THEN n - (i + 1) + 1 ELSE 0
        /\ \A j \in 1 .. n - (i + 1) + 1 : b[j] = s[i + 1 + j - 1]
    BY <2>1, <1>1, SubSeqProperties
  <2>3. \A j \in 1 .. n - i : j \in 1 .. n - (i + 1) + 1 /\ i + 1 + j - 1 = i + j
    BY <1>1
  <2>4. QED
    BY <2>2, <2>3, <1>1
<1> HIDE DEF a, b
<1>4. /\ a \o b \in Seq(S) /\ Len(a \o b) = Len(a) + Len(b)
      /\ \A j \in 1 .. Len(a) + Len(b) :
           (a \o b)[j] = IF j <= Len(a) THEN a[j] ELSE b[j - Len(a)]
  BY <1>2, <1>3, ConcatProperties
<1>5. ASSUME NEW j \in 1 .. n - 1 PROVE (a \o b)[j] = s[IF j < i THEN j ELSE j + 1]
  <2>1. CASE j < i
    BY <2>1, <1>1, <1>2, <1>3, <1>4
  <2>2. CASE ~ (j < i)
    <3>1. j - (i - 1) \in 1 .. n - i /\ i + (j - (i - 1)) = j + 1
      BY <2>2, <1>1
    <3>2. b[j - (i - 1)] = s[j + 1]
      BY <3>1, <1>3
    <3>3. QED
      BY <2>2, <3>2, <1>1, <1>2, <1>3, <1>4
  <2>3. QED
    BY <2>1, <2>2
<1>6. RemoveAt(s, i) = a \o b
  BY DEF RemoveAt, a, b
<1>7. Len(a) + Len(b) = n - 1
  BY <1>1, <1>2, <1>3
<1>8. QED
  BY <1>4, <1>5, <1>6, <1>7

\* r is the sequence s over S with e put in at the place i.
Inserted(r, S, s, i, e) ==
  /\ r \in Seq(S) /\ Len(r) = Len(s) + 1
  /\ \A j \in 1 .. Len(s) + 1 :
       r[j] = IF j < i THEN s[j] ELSE IF j = i THEN e ELSE s[j - 1]

LEMMA AfterInsertion ==
  ASSUME NEW S, NEW s \in Seq(S), NEW e \in S, NEW i \in 1 .. Len(s) + 1
  PROVE  Inserted(InsertAt(s, i, e), S, s, i, e)
<1> DEFINE a == SubSeq(s, 1, i - 1)
           b == SubSeq(s, i, Len(s))
           n == Len(s)
<1>1. n \in Nat /\ \A j \in 1 .. n : s[j] \in S
  BY ElementOfSeq, LenProperties
<1>2. a \in Seq(S) /\ Len(a) = i - 1 /\ \A j \in 1 .. i - 1 : a[j] = s[j]
  <2>1. \A j \in 1 .. i - 1 : s[j] \in S
    BY <1>1
  <2>2. /\ a \in Seq(S)
        /\ Len(a) = IF 1 <= i - 1 THEN i - 1 - 1 + 1 ELSE 0
        /\ \A j \in 1 .. i - 1 - 1 + 1 : a[j] = s[1 + j - 1]
    BY <2>1, <1>1, SubSeqProperties
  <2>3. QED
    BY <2>2, <1>1
<1>3. b \in Seq(S) /\ Len(b) = n - i + 1 /\ \A j \in 1 .. n - i + 1 : b[j] = s[i + j - 1]
  <2>1. \A j \in i .. n : s[j] \in S
    BY <1>1
  <2>2. /\ b \in Seq(S)
        /\ Len(b) = IF i <= n THEN n - i + 1 ELSE 0
        /\ \A j \in 1 .. n - i + 1 : b[j] = s[i + j - 1]
    BY <2>1, <1>1, SubSeqProperties
  <2>3. QED
    BY <2>2, <1>1
<1>4. <<e>> \in Seq(S) /\ Len(<<e>>) = 1 /\ <<e>>[1] = e
  OBVIOUS
<1> DEFINE c == a \o <<e>>
<1> HIDE DEF a, b
<1>5. /\ c \in Seq(S) /\ Len(c) = i
      /\ \A j \in 1 .. i : c[j] = IF j < i THEN s[j] ELSE e
  <2>1. /\ c \in Seq(S) /\ Len(c) = Len(a) + Len(<<e>>)
        /\ \A j \in 1 .. Len(a) + Len(<<e>>) :
             c[j] = IF j <= Len(a) THEN a[j] ELSE <<e>>[j - Len(a)]
    BY <1>2, <1>4, ConcatProperties
  <2>2. Len(a) + Len(<<e>>) = i
    BY <1>2, <1>4
  <2>3. ASSUME NEW j \in 1 .. i PROVE c[j] = IF j < i THEN s[j] ELSE e
    <3>1. CASE j < i
      BY <3>1, <2>1, <2>2, <1>2
    <3>2. CASE j = i
      <4>1. j - Len(a) = 1 /\ ~ (j <= Len(a))
        BY <3>2, <1>2
      <4>2. QED
        BY <3>2, <4>1, <2>1, <2>2, <1>4
    <3>3. j < i \/ j = i
      BY <1>1
    <3>4. QED
      BY <3>1, <3>2, <3>3
  <2>4. QED
    BY <2>1, <2>2, <2>3
<1> HIDE DEF c
<1>6. /\ c \o b \in Seq(S) /\ Len(c \o b) = Len(c) + Len(b)
      /\ \A j \in 1 .. Len(c) + Len(b) :
           (c \o b)[j] = IF j <= Len(c) THEN c[j] ELSE b[j - Len(c)]
  BY <1>3, <1>5, ConcatProperties
<1>7. Len(c) + Len(b) = n + 1
  BY <1>1, <1>3, <1>5
<1>8. ASSUME NEW j \in 1 .. n + 1
      PROVE  (c \o b)[j] = IF j < i THEN s[j] ELSE IF j = i THEN e ELSE s[j - 1]
  <2>1. CASE j <= i
    BY <2>1, <1>5, <1>6, <1>7
  <2>2. CASE ~ (j <= i)
    <3>1. j - i \in 1 .. n - i + 1 /\ i + (j - i) - 1 = j - 1
      BY <2>2, <1>1
    <3>2. b[j - i] = s[j - 1]
      BY <3>1, <1>3
    <3>3. QED
      BY <2>2, <3>2, <1>1, <1>5, <1>6, <1>7
  <2>3. QED
    BY <2>1, <2>2
<1>9. InsertAt(s, i, e) = c \o b
  BY DEF InsertAt, a, b, c
<1>10. Inserted(c \o b, S, s, i, e)
  BY <1>6, <1>7, <1>8 DEF Inserted, n
<1>11. QED
  BY <1>9, <1>10

\* r takes its elements from the places K of s, each from its own and all of them.
Takes(r, s, from, K) ==
  /\ \A j \in 1 .. Len(r) : from[j] \in K /\ r[j] = s[from[j]]
  /\ \A j, k \in 1 .. Len(r) : from[j] = from[k] => j = k
  /\ \A k \in K : \E j \in 1 .. Len(r) : k = from[j]

\* A new element anywhere in a sequence without repetitions.
LEMMA InsertedDistinct ==
  ASSUME NEW S, NEW s \in Seq(S), NEW e \in S, NEW i \in 1 .. Len(s) + 1,
         Distinct(s), e \notin ToSet(s)
  PROVE  Distinct(InsertAt(s, i, e)) /\ ToSet(InsertAt(s, i, e)) = ToSet(s) \union {e}
<1> DEFINE n == Len(s)
           r == InsertAt(s, i, e)
<1>1. n \in Nat /\ DOMAIN s = 1 .. n /\ i \in 1 .. n + 1
  BY LenProperties
<1>2. /\ r \in Seq(S) /\ Len(r) = n + 1
      /\ \A j \in 1 .. n + 1 :
           r[j] = IF j < i THEN s[j] ELSE IF j = i THEN e ELSE s[j - 1]
  <2>1. Inserted(r, S, s, i, e)
    BY AfterInsertion
  <2> HIDE DEF r
  <2>2. QED
    BY <2>1 DEF Inserted
<1> HIDE DEF n, r
<1>3. DOMAIN r = 1 .. n + 1
  BY <1>2, LenProperties
<1>4. \A j \in 1 .. n : s[j] # e
  BY <1>1 DEF ToSet
<1>5. ASSUME NEW j \in 1 .. n + 1, j # i
      PROVE  (IF j < i THEN j ELSE j - 1) \in 1 .. n /\ r[j] = s[IF j < i THEN j ELSE j - 1]
  BY <1>1, <1>2, <1>5
<1>6. r[i] = e
  BY <1>1, <1>2
<1>7. ASSUME NEW j \in 1 .. n + 1, NEW k \in 1 .. n + 1, r[j] = r[k] PROVE j = k
  <2>1. CASE j # i /\ k # i
    <3>1. (IF j < i THEN j ELSE j - 1) = (IF k < i THEN k ELSE k - 1)
      BY <1>1, <1>5, <1>7, <2>1 DEF Distinct
    <3>2. QED
      BY <1>1, <2>1, <3>1
  <2>2. CASE j = i \/ k = i
    BY <1>4, <1>5, <1>6, <1>7, <2>2
  <2>3. QED
    BY <2>1, <2>2
<1>8. ASSUME NEW j \in 1 .. n PROVE \E k \in 1 .. n + 1 : r[k] = s[j]
  <2>1. CASE j < i
    BY <1>1, <1>2, <2>1
  <2>2. CASE ~ (j < i)
    <3>1. j + 1 \in 1 .. n + 1 /\ r[j + 1] = s[j]
      BY <1>1, <1>2, <2>2
    <3>2. QED
      BY <3>1
  <2>3. QED
    BY <2>1, <2>2
<1>9. ASSUME NEW j \in 1 .. n + 1 PROVE r[j] = e \/ \E k \in 1 .. n : r[j] = s[k]
  BY <1>5, <1>6
<1>10. ToSet(r) = ToSet(s) \union {e}
  <2>1. ASSUME NEW x \in ToSet(r) PROVE x \in ToSet(s) \union {e}
    BY <1>1, <1>3, <1>9 DEF ToSet
  <2>2. ASSUME NEW x \in ToSet(s) \union {e} PROVE x \in ToSet(r)
    BY <1>1, <1>3, <1>6, <1>8 DEF ToSet
  <2>3. QED
    BY <2>1, <2>2
<1>11. Distinct(r)
  BY <1>3, <1>7 DEF Distinct
<1>12. QED
  BY <1>10, <1>11 DEF r

ValuesAt(s, K) == {s[k] : k \in K}

LEMMA RemovalTakes ==
  ASSUME NEW S, NEW s \in Seq(S), NEW i \in 1 .. Len(s)
  PROVE  \E up : Takes(RemoveAt(s, i), s, up, (1 .. Len(s)) \ {i})
<1> DEFINE n == Len(s)
           r == RemoveAt(s, i)
           up == [j \in 1 .. Len(s) - 1 |-> IF j < i THEN j ELSE j + 1]
<1>1. n \in Nat /\ i \in 1 .. n
  BY LenProperties
<1>2. Len(r) = n - 1 /\ \A j \in 1 .. n - 1 : r[j] = s[IF j < i THEN j ELSE j + 1]
  BY AfterRemoval
<1>3. \A j \in 1 .. n - 1 : up[j] = IF j < i THEN j ELSE j + 1
  OBVIOUS
<1> HIDE DEF n, r, up
<1>4. \A j \in 1 .. n - 1 : up[j] \in (1 .. n) \ {i} /\ r[j] = s[up[j]]
  BY <1>1, <1>2, <1>3
<1>5. \A j, k \in 1 .. n - 1 : up[j] = up[k] => j = k
  BY <1>1, <1>3
<1>6. ASSUME NEW j \in (1 .. n) \ {i} PROVE \E k \in 1 .. n - 1 : j = up[k]
  <2>1. CASE j < i
    BY <1>1, <1>3, <2>1
  <2>2. CASE j > i
    <3>1. j - 1 \in 1 .. n - 1 /\ j = up[j - 1]
      BY <1>1, <1>3, <2>2
    <3>2. QED
      BY <3>1
  <2>3. j < i \/ j > i
    BY <1>1
  <2>4. QED
    BY <2>1, <2>2, <2>3
<1>7. Takes(r, s, up, (1 .. n) \ {i})
  BY <1>2, <1>4, <1>5, <1>6 DEF Takes
<1>8. QED
  BY <1>7 DEF r, n

\* A sequence made of distinct elements of one without repetitions has none.
LEMMA TakenDistinct ==
  ASSUME NEW S, NEW s \in Seq(S), NEW r \in Seq(S), Distinct(s),
         NEW K \in SUBSET (1 .. Len(s)), NEW from, Takes(r, s, from, K)
  PROVE  Distinct(r) /\ ToSet(r) = ValuesAt(s, K)
<1>1. DOMAIN r = 1 .. Len(r) /\ DOMAIN s = 1 .. Len(s)
  BY LenProperties
<1>2. ASSUME NEW j \in DOMAIN r, NEW k \in DOMAIN r, r[j] = r[k] PROVE j = k
  <2>1. from[j] \in DOMAIN s /\ from[k] \in DOMAIN s /\ s[from[j]] = s[from[k]]
    BY <1>1, <1>2 DEF Takes
  <2>2. from[j] = from[k]
    BY <2>1 DEF Distinct
  <2>3. QED
    BY <1>1, <2>2 DEF Takes
<1>3. ASSUME NEW j \in DOMAIN r PROVE r[j] \in ValuesAt(s, K)
  <2>1. from[j] \in K /\ r[j] = s[from[j]]
    BY <1>1 DEF Takes
  <2>2. QED
    BY <2>1 DEF ValuesAt
<1>4. ASSUME NEW k \in K PROVE s[k] \in ToSet(r)
  <2>1. PICK j \in 1 .. Len(r) : k = from[j]
    BY DEF Takes
  <2>2. s[k] = r[j]
    BY <2>1 DEF Takes
  <2>3. QED
    BY <1>1, <2>2 DEF ToSet
<1>5. QED
  BY <1>2, <1>3, <1>4 DEF Distinct, ToSet, ValuesAt

\* Where an element of a sequence without repetitions is found.
LEMMA LeafFound ==
  ASSUME NEW tab, NEW S, tab.panes \in Seq(S), Distinct(tab.panes),
         NEW k \in 1 .. Len(tab.panes)
  PROVE  LeafOf(tab, tab.panes[k]) = k
<1> DEFINE I == {i \in 1 .. Len(tab.panes) : tab.panes[i] = tab.panes[k]}
<1>1. I = {k}
  BY LenProperties DEF Distinct
<1>2. LeafOf(tab, tab.panes[k]) = IF I # {} THEN Min(I) ELSE 0
  BY DEF LeafOf, SelectInSeq
<1>3. QED
  BY <1>1, <1>2, Least

LEMMA NodeFound ==
  ASSUME NEW c, NEW S, c.items \in Seq(S), Distinct(Ids(c)), NEW k \in 1 .. Len(c.items)
  PROVE  PositionOf(c, c.items[k].id) = k
<1> DEFINE I == {i \in 1 .. Len(c.items) : c.items[i].id = c.items[k].id}
<1>1. I = {k}
  BY ZenonT(40), LenProperties DEF Distinct, Ids
<1>2. PositionOf(c, c.items[k].id) = IF I # {} THEN Min(I) ELSE 0
  BY DEF PositionOf, SelectInSeq
<1>3. QED
  BY <1>1, <1>2, Least

LEMMA NodeSought ==
  ASSUME NEW c, NEW S, c.items \in Seq(S), Distinct(Ids(c)), NEW id, PositionOf(c, id) # 0
  PROVE  PositionOf(c, id) \in 1 .. Len(c.items) /\ c.items[PositionOf(c, id)].id = id
<1> DEFINE I == {i \in 1 .. Len(c.items) : c.items[i].id = id}
<1>1. PositionOf(c, id) = IF I # {} THEN Min(I) ELSE 0
  BY DEF PositionOf, SelectInSeq
<1>2. PICK k \in 1 .. Len(c.items) : c.items[k].id = id
  BY <1>1
<1>3. QED
  BY <1>2, NodeFound

--------------------------------------------------------------------------------
(* Containers, at any level: S is the set of well-formed elements, content *)
(* gives the panes an element holds.                                       *)

\* Every pane that the elements of a sequence hold, those at places K and all.
HeldAt(s, K, content) == UNION {content[s[k]] : k \in K}
Held(s, content) == HeldAt(s, DOMAIN s, content)

\* No two elements share a name or a pane.
Parted(s, content) ==
  \A i, j \in DOMAIN s :
    i # j => s[i].id # s[j].id /\ content[s[i]] \intersect content[s[j]] = {}

Nodes(S)   == [id : Panes, items : Seq(S), active : Nat]
Windows(S) == [items : Seq(S), active : Nat]

Good(c, content) ==
  /\ c.items # << >>
  /\ c.active \in DOMAIN c.items
  /\ Parted(c.items, content)

\* The fields of a container whose elements or whose selection are replaced.
LEMMA WithItems ==
  ASSUME NEW S, NEW c \in Nodes(S) \union Windows(S), NEW s \in Seq(S), NEW d,
         d = [c EXCEPT !.items = s]
  PROVE  /\ d.items = s /\ d.active = c.active
         /\ c \in Nodes(S) => d \in Nodes(S) /\ d.id = c.id
         /\ c \in Windows(S) => d \in Windows(S)
BY DEF Nodes, Windows

LEMMA WithActive ==
  ASSUME NEW S, NEW c \in Nodes(S) \union Windows(S), NEW i \in Nat, NEW d,
         d = [c EXCEPT !.active = i]
  PROVE  /\ d.items = c.items /\ d.active = i
         /\ c \in Nodes(S) => d \in Nodes(S) /\ d.id = c.id
         /\ c \in Windows(S) => d \in Windows(S)
BY DEF Nodes, Windows

Boxed(c, s, i) == [c EXCEPT !.items = s, !.active = i]

LEMMA WithBoth ==
  ASSUME NEW S, NEW c \in Nodes(S) \union Windows(S), NEW s \in Seq(S), NEW i \in Nat
  PROVE  /\ Boxed(c, s, i).items = s /\ Boxed(c, s, i).active = i
         /\ c \in Nodes(S) => Boxed(c, s, i) \in Nodes(S) /\ Boxed(c, s, i).id = c.id
         /\ c \in Windows(S) => Boxed(c, s, i) \in Windows(S)
<1> DEFINE e == [c EXCEPT !.items = s]
           d == Boxed(c, s, i)
<1>1. e.items = s /\ (c \in Nodes(S) => e \in Nodes(S) /\ e.id = c.id)
      /\ (c \in Windows(S) => e \in Windows(S))
  BY WithItems
<1>2. d = [e EXCEPT !.active = i]
  BY DEF Boxed
<1> HIDE DEF e, d
<1>3. e \in Nodes(S) \union Windows(S)
  BY <1>1
<1>4. /\ d.items = e.items /\ d.active = i
      /\ e \in Nodes(S) => d \in Nodes(S) /\ d.id = e.id
      /\ e \in Windows(S) => d \in Windows(S)
  BY <1>2, <1>3, WithActive
<1>5. QED
  BY <1>1, <1>4 DEF d

LEMMA Sized ==
  ASSUME NEW S, NEW c \in Nodes(S) \union Windows(S), NEW content, Good(c, content)
  PROVE  /\ c.items \in Seq(S)
         /\ Len(c.items) \in Nat \ {0}
         /\ DOMAIN c.items = 1 .. Len(c.items)
         /\ c.active \in 1 .. Len(c.items)
         /\ \A i \in 1 .. Len(c.items) : c.items[i] \in S
         /\ Current(c) \in S
<1>1. c.items \in Seq(S) /\ c.items # << >>
  BY DEF Nodes, Windows, Good
<1>2. Len(c.items) \in Nat \ {0} /\ DOMAIN c.items = 1 .. Len(c.items)
  BY <1>1, EmptySeq, LenProperties
<1>3. \A i \in 1 .. Len(c.items) : c.items[i] \in S
  BY <1>1, ElementOfSeq
<1>4. QED
  BY <1>1, <1>2, <1>3 DEF Good, Current

\* A sequence made of distinct elements of a parted one is parted, and holds what the
\* elements it took hold.
LEMMA Rearranged ==
  ASSUME NEW S, NEW content, NEW s \in Seq(S), NEW r \in Seq(S), Parted(s, content),
         NEW K \in SUBSET (1 .. Len(s)), NEW from, Takes(r, s, from, K)
  PROVE  /\ Parted(r, content)
         /\ Held(r, content) = HeldAt(s, K, content)
<1>1. DOMAIN r = 1 .. Len(r) /\ DOMAIN s = 1 .. Len(s)
  BY LenProperties
<1>2. ASSUME NEW j \in DOMAIN r, NEW k \in DOMAIN r, j # k
      PROVE  r[j].id # r[k].id /\ content[r[j]] \intersect content[r[k]] = {}
  <2>1. from[j] \in DOMAIN s /\ from[k] \in DOMAIN s /\ from[j] # from[k]
    BY <1>1, <1>2 DEF Takes
  <2>2. r[j] = s[from[j]] /\ r[k] = s[from[k]]
    BY <1>1 DEF Takes
  <2>3. QED
    BY <2>1, <2>2 DEF Parted
<1>3. ASSUME NEW p \in Held(r, content) PROVE p \in HeldAt(s, K, content)
  <2>1. PICK j \in 1 .. Len(r) : p \in content[r[j]]
    BY <1>1 DEF Held, HeldAt
  <2>2. from[j] \in K /\ p \in content[s[from[j]]]
    BY <2>1 DEF Takes
  <2>3. \E k \in K : p \in content[s[k]]
    BY <2>2
  <2>4. QED
    BY <2>3 DEF HeldAt
<1>4. ASSUME NEW k \in K, NEW p \in content[s[k]] PROVE p \in Held(r, content)
  <2>1. PICK j \in 1 .. Len(r) : k = from[j]
    BY DEF Takes
  <2>2. QED
    BY <1>1, <2>1 DEF Held, HeldAt, Takes
<1>5. Held(r, content) = HeldAt(s, K, content)
  BY <1>3, <1>4 DEF HeldAt
<1>6. QED
  BY <1>2, <1>5 DEF Parted

\* Selecting: nothing else changes.
LEMMA SelectedKeeps ==
  ASSUME NEW S, NEW c \in Nodes(S) \union Windows(S), NEW content, Good(c, content),
         NEW i \in DOMAIN c.items
  PROVE  LET d == Selected(c, i)
         IN  /\ c \in Nodes(S) => d \in Nodes(S) /\ d.id = c.id
             /\ c \in Windows(S) => d \in Windows(S)
             /\ Good(d, content)
             /\ d.items = c.items /\ d.active = i
<1>1. i \in Nat /\ c.items \in Seq(S)
  BY Sized
<1>2. QED
  BY <1>1, WithActive DEF Selected, Good

LEMMA WrappedInRange ==
  ASSUME NEW n \in Nat \ {0}, NEW i \in 1 .. n, NEW d \in Int
  PROVE  Wrapped(i, d, n) \in 1 .. n
BY DEF Wrapped

\* Replacing one element by one of the same name that takes no pane of the others.
LEMMA ReplacedKeeps ==
  ASSUME NEW S, NEW c \in Nodes(S) \union Windows(S), NEW content, Good(c, content),
         NEW i \in DOMAIN c.items, NEW x \in S, x.id = c.items[i].id,
         content[x] \intersect (Held(c.items, content) \ content[c.items[i]]) = {}
  PROVE  LET d == [c EXCEPT !.items[i] = x]
         IN  /\ c \in Nodes(S) => d \in Nodes(S) /\ d.id = c.id
             /\ c \in Windows(S) => d \in Windows(S)
             /\ Good(d, content)
             /\ d.active = c.active
             /\ d.items = [c.items EXCEPT ![i] = x]
             /\ Held(d.items, content) =
                  (Held(c.items, content) \ content[c.items[i]]) \union content[x]
<1> DEFINE n == Len(c.items)
           r == [c.items EXCEPT ![i] = x]
           d == [c EXCEPT !.items[i] = x]
<1>1. /\ c.items \in Seq(S) /\ n \in Nat \ {0} /\ DOMAIN c.items = 1 .. n /\ c.active \in 1 .. n
      /\ c.active \in Nat
  BY Sized
<1>2. /\ r \in Seq(S) /\ Len(r) = n /\ DOMAIN r = 1 .. n
      /\ \A j \in 1 .. n : r[j] = IF j = i THEN x ELSE c.items[j]
  <2>1. i \in 1 .. Len(c.items)
    BY <1>1
  <2>2. QED
    BY <1>1, <2>1, ExceptSeq, LenProperties
<1>3. d = [c EXCEPT !.items = r]
  OBVIOUS
<1> HIDE DEF r, d
<1>4. /\ d.items = r /\ d.active = c.active
      /\ c \in Nodes(S) => d \in Nodes(S) /\ d.id = c.id
      /\ c \in Windows(S) => d \in Windows(S)
  BY <1>2, <1>3, WithItems
<1>5. Parted(r, content)
  <2>1. \A j \in 1 .. n : content[c.items[j]] \subseteq Held(c.items, content)
    BY <1>1 DEF Held, HeldAt
  <2>2. \A j \in 1 .. n : j # i => content[c.items[j]] \intersect content[c.items[i]] = {}
    BY <1>1 DEF Good, Parted
  <2>3. \A j \in 1 .. n : j # i => content[c.items[j]] \intersect content[x] = {}
    BY <2>1, <2>2
  <2>4. \A j, k \in 1 .. n : j # k => r[j].id # r[k].id
    BY <1>1, <1>2 DEF Good, Parted
  <2>5. \A j, k \in 1 .. n : j # k => content[r[j]] \intersect content[r[k]] = {}
    BY <1>1, <1>2, <2>3 DEF Good, Parted
  <2>6. QED
    BY <1>2, <2>4, <2>5 DEF Parted
<1>6. Held(r, content) = (Held(c.items, content) \ content[c.items[i]]) \union content[x]
  <2>1. \A j \in 1 .. n : j # i => content[c.items[j]] \intersect content[c.items[i]] = {}
    BY <1>1 DEF Good, Parted
  <2>2. ASSUME NEW p
        PROVE  p \in Held(r, content)
                 <=> p \in (Held(c.items, content) \ content[c.items[i]]) \union content[x]
    BY <1>1, <1>2, <2>1 DEF Held, HeldAt
  <2>3. QED
    BY <2>2
<1>7. r # << >>
  BY <1>1, <1>2, EmptySeq
<1>8. Good(d, content)
  BY <1>1, <1>2, <1>4, <1>5, <1>7 DEF Good
<1>9. QED
  BY <1>4, <1>6, <1>8 DEF r, d

\* Adding an element of a new name and with new panes: it is selected.
LEMMA AppendedKeeps ==
  ASSUME NEW S, NEW c \in Nodes(S) \union Windows(S), NEW content, Good(c, content),
         NEW x \in S, \A i \in DOMAIN c.items : c.items[i].id # x.id,
         content[x] \intersect Held(c.items, content) = {}
  PROVE  LET d == Appended(c, x)
         IN  /\ c \in Nodes(S) => d \in Nodes(S) /\ d.id = c.id
             /\ c \in Windows(S) => d \in Windows(S)
             /\ Good(d, content)
             /\ Held(d.items, content) = Held(c.items, content) \union content[x]
             /\ Current(d) = x
<1> DEFINE n == Len(c.items)
           r == Append(c.items, x)
           d == Appended(c, x)
<1>1. c.items \in Seq(S) /\ n \in Nat \ {0} /\ DOMAIN c.items = 1 .. n
  BY Sized
<1>2. /\ r \in Seq(S) /\ Len(r) = n + 1 /\ DOMAIN r = 1 .. n + 1 /\ r # << >>
      /\ (\A j \in 1 .. n : r[j] = c.items[j]) /\ r[n + 1] = x
  BY <1>1, AppendProperties, LenProperties
<1>3. d = Boxed(c, r, n + 1)
  BY DEF Appended, Boxed
<1> HIDE DEF r, d
<1>4. /\ d.items = r /\ d.active = n + 1
      /\ c \in Nodes(S) => d \in Nodes(S) /\ d.id = c.id
      /\ c \in Windows(S) => d \in Windows(S)
  <2>1. n + 1 \in Nat
    BY <1>1
  <2>2. QED
    BY <1>2, <1>3, <2>1, WithBoth
<1>5. 1 .. n + 1 = (1 .. n) \union {n + 1} /\ n + 1 \notin 1 .. n
  BY <1>1
<1>6. Parted(r, content)
  <2>1. \A j \in 1 .. n : content[c.items[j]] \intersect content[x] = {}
    BY <1>1 DEF Held, HeldAt
  <2>2. \A j, k \in 1 .. n + 1 : j # k => r[j].id # r[k].id
    BY <1>1, <1>2, <1>5 DEF Good, Parted
  <2>3. \A j, k \in 1 .. n + 1 : j # k => content[r[j]] \intersect content[r[k]] = {}
    BY <1>1, <1>2, <1>5, <2>1 DEF Good, Parted
  <2>4. QED
    BY <1>2, <2>2, <2>3 DEF Parted
<1>7. Held(r, content) = Held(c.items, content) \union content[x]
  BY <1>1, <1>2, <1>5 DEF Held, HeldAt
<1>8. Good(d, content) /\ Current(d) = x
  BY <1>1, <1>2, <1>4, <1>5, <1>6 DEF Good, Current
<1>9. QED
  BY <1>4, <1>7, <1>8 DEF d

\* Removing an element: the others stay, and one of them is selected, the one that was
\* unless it is the one removed.
LEMMA RemovedKeeps ==
  ASSUME NEW S, NEW c \in Nodes(S) \union Windows(S), NEW content, Good(c, content),
         NEW i, CanRemove(c, i)
  PROVE  LET d == Removed(c, i)
         IN  /\ c \in Nodes(S) => d \in Nodes(S) /\ d.id = c.id
             /\ c \in Windows(S) => d \in Windows(S)
             /\ Good(d, content)
             /\ Held(d.items, content) = Held(c.items, content) \ content[c.items[i]]
             /\ \E k \in DOMAIN c.items :
                  Current(d) = c.items[k] /\ k # i /\ (c.active # i => k = c.active)
<1> DEFINE n == Len(c.items)
           r == RemoveAt(c.items, i)
           a == IF c.active = i THEN Min({i, n - 1})
                ELSE IF i < c.active THEN c.active - 1 ELSE c.active
           d == Removed(c, i)
           K == (1 .. n) \ {i}
<1>1. /\ c.items \in Seq(S) /\ n \in Nat \ {0} /\ DOMAIN c.items = 1 .. n
      /\ c.active \in 1 .. n /\ i \in 1 .. n /\ n > 1
  BY Sized DEF CanRemove
<1>2. /\ r \in Seq(S) /\ Len(r) = n - 1
      /\ \A j \in 1 .. n - 1 : r[j] = c.items[IF j < i THEN j ELSE j + 1]
  BY <1>1, AfterRemoval
<1>3. PICK up : Takes(r, c.items, up, K)
  BY <1>1, RemovalTakes
<1>4. d = Boxed(c, r, a)
  BY DEF Removed, Boxed
<1>5. a = IF c.active = i THEN (IF i <= n - 1 THEN i ELSE n - 1)
          ELSE IF i < c.active THEN c.active - 1 ELSE c.active
  BY <1>1, Lesser
<1>6. K \in SUBSET (1 .. Len(c.items)) /\ Parted(c.items, content)
  BY DEF Good
<1> HIDE DEF n, r, d, a, K
<1>7. /\ Parted(r, content)
      /\ Held(r, content) = HeldAt(c.items, K, content)
  BY <1>1, <1>2, <1>3, <1>6, Rearranged
<1>8. Held(r, content) = Held(c.items, content) \ content[c.items[i]]
  <2>1. \A j \in 1 .. n : j # i => content[c.items[j]] \intersect content[c.items[i]] = {}
    BY <1>1, <1>6 DEF Parted
  <2>2. QED
    BY <1>1, <1>7, <2>1 DEF Held, HeldAt, K
<1>9. a \in 1 .. n - 1 /\ a \in Nat
  BY <1>1, <1>5
<1>10. /\ d.items = r /\ d.active = a
       /\ c \in Nodes(S) => d \in Nodes(S) /\ d.id = c.id
       /\ c \in Windows(S) => d \in Windows(S)
  BY <1>2, <1>4, <1>9, WithBoth
<1>11. \E k \in DOMAIN c.items :
         Current(d) = c.items[k] /\ k # i /\ (c.active # i => k = c.active)
  <2> DEFINE k == IF a < i THEN a ELSE a + 1
  <2>1. k \in 1 .. n /\ k # i /\ (c.active # i => k = c.active)
    BY <1>1, <1>5, <1>9
  <2>2. Current(d) = c.items[k]
    BY <1>2, <1>9, <1>10 DEF Current
  <2> HIDE DEF k
  <2>3. QED
    BY <1>1, <2>1, <2>2
<1>12. DOMAIN r = 1 .. n - 1 /\ r # << >>
  BY <1>1, <1>2, EmptySeq, LenProperties
<1>13. Good(d, content)
  BY <1>7, <1>9, <1>10, <1>12 DEF Good
<1>14. QED
  BY <1>8, <1>10, <1>11, <1>13 DEF d

\* Moving an element: the same ones, in another order, and the same one selected.
LEMMA MovedKeeps ==
  ASSUME NEW S, NEW c \in Nodes(S) \union Windows(S), NEW content, Good(c, content),
         NEW id, NEW target, CanMove(c, id, target)
  PROVE  LET d == Moved(c, id, target)
         IN  /\ c \in Nodes(S) => d \in Nodes(S) /\ d.id = c.id
             /\ c \in Windows(S) => d \in Windows(S)
             /\ Good(d, content)
             /\ Held(d.items, content) = Held(c.items, content)
             /\ Current(d) = Current(c)
<1> DEFINE n == Len(c.items)
           i == PositionOf(c, id)
           q == RemoveAt(c.items, i)
           r == InsertAt(q, target, c.items[i])
           m == [c EXCEPT !.items = r]
           d == Moved(c, id, target)
           less(j) == IF j < target THEN j ELSE j - 1
           up == [j \in 1 .. Len(c.items) |->
                    IF j = target THEN PositionOf(c, id)
                    ELSE IF less(j) < PositionOf(c, id) THEN less(j) ELSE less(j) + 1]
<1>1. /\ c.items \in Seq(S) /\ n \in Nat \ {0} /\ DOMAIN c.items = 1 .. n
      /\ c.active \in 1 .. n /\ target \in 1 .. n
      /\ \A j \in 1 .. n : c.items[j] \in S
  BY Sized DEF CanMove
<1>2. Distinct(Ids(c))
  BY DEF Good, Parted, Distinct, Ids
<1>3. i \in 1 .. n /\ i # target /\ n > 1
  BY <1>1, <1>2, NodeSought DEF CanMove
<1>4. /\ q \in Seq(S) /\ Len(q) = n - 1
      /\ \A j \in 1 .. n - 1 : q[j] = c.items[IF j < i THEN j ELSE j + 1]
  BY <1>1, <1>3, AfterRemoval
<1>5. \A j \in 1 .. n : up[j] = IF j = target THEN i
                               ELSE IF j < target THEN (IF j < i THEN j ELSE j + 1)
                               ELSE (IF j - 1 < i THEN j - 1 ELSE j)
  BY <1>1, <1>3
<1> HIDE DEF q
<1>6. /\ r \in Seq(S) /\ Len(r) = n
      /\ \A j \in 1 .. n : r[j] = IF j < target THEN q[j] ELSE IF j = target THEN c.items[i]
                                  ELSE q[j - 1]
  <2>1. target \in 1 .. Len(q) + 1 /\ Len(q) + 1 = n /\ c.items[i] \in S
    BY <1>1, <1>3, <1>4
  <2>2. Inserted(r, S, q, target, c.items[i])
    BY <1>4, <2>1, AfterInsertion
  <2>3. QED
    BY <2>1, <2>2 DEF Inserted
<1>7. m = [c EXCEPT !.items = r] /\ d = Selected(m, PositionOf(m, Current(c).id))
  BY DEF Moved, q
<1> HIDE DEF n, i, r, m, d, up
<1>8. /\ \A j \in 1 .. n : up[j] \in 1 .. n /\ r[j] = c.items[up[j]]
      /\ \A j, k \in 1 .. n : up[j] = up[k] => j = k
  <2>1. ASSUME NEW j \in 1 .. n PROVE up[j] \in 1 .. n /\ r[j] = c.items[up[j]]
    <3>1. CASE j < target
      <4>1. j \in 1 .. n - 1 /\ up[j] = (IF j < i THEN j ELSE j + 1) /\ r[j] = q[j]
        BY <1>1, <1>5, <1>6, <3>1
      <4>2. QED
        BY <1>1, <1>3, <1>4, <4>1
    <3>2. CASE j = target
      BY <1>1, <1>3, <1>5, <1>6, <3>2
    <3>3. CASE j > target
      <4>1. j - 1 \in 1 .. n - 1 /\ up[j] = (IF j - 1 < i THEN j - 1 ELSE j) /\ r[j] = q[j - 1]
        BY <1>1, <1>5, <1>6, <3>3
      <4>2. q[j - 1] = c.items[IF j - 1 < i THEN j - 1 ELSE j - 1 + 1]
        BY <1>4, <4>1
      <4>3. QED
        BY <1>1, <1>3, <4>1, <4>2
    <3>4. QED
      BY <1>1, <3>1, <3>2, <3>3
  <2>2. \A j, k \in 1 .. n : up[j] = up[k] => j = k
    BY <1>1, <1>3, <1>5
  <2>3. QED
    BY <2>1, <2>2
<1>9. ASSUME NEW k \in 1 .. n PROVE \E j \in 1 .. n : k = up[j]
  <2>1. CASE k = i
    BY <1>1, <1>5, <2>1
  <2>2. CASE k # i
    <3>1. CASE k < i /\ k < target
      BY <1>1, <1>3, <1>5, <3>1
    <3>2. CASE k < i /\ k >= target
      <4>1. k + 1 \in 1 .. n /\ up[k + 1] = k
        BY <1>1, <1>3, <1>5, <3>2
      <4>2. QED
        BY <4>1
    <3>3. CASE k > i /\ k - 1 < target
      <4>1. k - 1 \in 1 .. n /\ up[k - 1] = k
        BY <1>1, <1>3, <1>5, <3>3
      <4>2. QED
        BY <4>1
    <3>4. CASE k > i /\ k - 1 >= target
      <4>1. k \in 1 .. n /\ up[k] = k
        BY <1>1, <1>3, <1>5, <3>4
      <4>2. QED
        BY <4>1
    <3>5. QED
      BY <1>1, <1>3, <2>2, <3>1, <3>2, <3>3, <3>4
  <2>3. QED
    BY <2>1, <2>2
<1>10. Parted(r, content) /\ Held(r, content) = Held(c.items, content)
  <2>1. Parted(c.items, content) /\ n = Len(c.items)
    BY DEF Good, n
  <2> DEFINE K == 1 .. n
  <2>2. /\ K \in SUBSET (1 .. Len(c.items))
        /\ Takes(r, c.items, up, K)
    BY <1>6, <1>8, <1>9, <2>1 DEF Takes
  <2> HIDE DEF K
  <2>3. Parted(r, content) /\ Held(r, content) = HeldAt(c.items, K, content)
    BY <1>1, <1>6, <2>1, <2>2, Rearranged
  <2>4. QED
    BY <1>1, <2>3 DEF Held, HeldAt, K
<1>11. /\ m.items = r /\ m.active = c.active
       /\ c \in Nodes(S) => m \in Nodes(S) /\ m.id = c.id
       /\ c \in Windows(S) => m \in Windows(S)
  BY <1>6, <1>7, WithItems
<1>12. DOMAIN r = 1 .. n /\ r # << >>
  BY <1>1, <1>6, EmptySeq, LenProperties
<1>13. Good(m, content)
  BY <1>1, <1>10, <1>11, <1>12 DEF Good
<1>14. PICK k \in 1 .. n : r[k] = Current(c)
  <2>1. PICK k \in 1 .. n : c.active = up[k]
    BY <1>1, <1>9
  <2>2. r[k] = c.items[c.active]
    BY <1>8, <2>1
  <2>3. QED
    BY <2>2 DEF Current
<1>15. PositionOf(m, Current(c).id) = k
  <2>1. Distinct(Ids(m))
    BY <1>13 DEF Good, Parted, Distinct, Ids
  <2>2. m.items \in Seq(S) /\ k \in 1 .. Len(m.items) /\ m.items[k] = Current(c)
    BY <1>6, <1>11, <1>14
  <2>3. QED
    BY <2>1, <2>2, NodeFound
<1>16. /\ m \in Nodes(S) => d \in Nodes(S) /\ d.id = m.id
       /\ m \in Windows(S) => d \in Windows(S)
       /\ Good(d, content)
       /\ d.items = m.items /\ d.active = k
  <2>1. m \in Nodes(S) \union Windows(S) /\ k \in DOMAIN m.items /\ d = Selected(m, k)
    BY <1>7, <1>11, <1>12, <1>15
  <2>2. QED
    BY <1>13, <2>1, SelectedKeeps
<1>17. Current(d) = Current(c)
  BY <1>11, <1>14, <1>16 DEF Current
<1>18. QED
  BY <1>10, <1>11, <1>16, <1>17 DEF d

--------------------------------------------------------------------------------
(* Tabs: what changes the leaves and the focus of one. *)

TabRecords == [id : Panes, panes : Seq(Panes), focused : Panes]

TabSet ==
  {t \in TabRecords :
     t.panes # << >> /\ t.focused \in ToSet(t.panes) /\ Distinct(t.panes)}

TabPanes == [t \in TabSet |-> ToSet(t.panes)]

\* A tab whose leaves, or whose focus, are replaced.
Leaved(t, s, p) == [id |-> t.id, panes |-> s, focused |-> p]

LEMMA TabWith ==
  ASSUME NEW t \in TabRecords, NEW s, NEW p
  PROVE  /\ [t EXCEPT !.focused = p] = Leaved(t, t.panes, p)
         /\ [t EXCEPT !.panes = s] = Leaved(t, s, t.focused)
<1>1. t = [id |-> t.id, panes |-> t.panes, focused |-> t.focused]
  BY DEF TabRecords
<1>2. [t EXCEPT !.focused = p] = Leaved(t, t.panes, p)
  BY <1>1 DEF Leaved
<1>3. [t EXCEPT !.panes = s] = Leaved(t, s, t.focused)
  BY <1>1 DEF Leaved
<1>4. QED
  BY <1>2, <1>3

LEMMA TabWithBoth ==
  ASSUME NEW t \in TabRecords, NEW s, NEW p, NEW u,
         u = [[t EXCEPT !.panes = s] EXCEPT !.focused = p]
  PROVE  u = Leaved(t, s, p)
<1>1. [t EXCEPT !.panes = s] = Leaved(t, s, t.focused)
  BY TabWith
<1>2. [Leaved(t, s, t.focused) EXCEPT !.focused = p] = Leaved(t, s, p)
  BY DEF Leaved
<1>3. QED
  BY <1>1, <1>2

LEMMA LeavedIsTab ==
  ASSUME NEW t \in TabRecords, NEW s \in Seq(Panes), s # << >>, Distinct(s), NEW p \in ToSet(s)
  PROVE  /\ Leaved(t, s, p) \in TabSet
         /\ TabPanes[Leaved(t, s, p)] = ToSet(s)
         /\ Leaved(t, s, p).id = t.id /\ Leaved(t, s, p).panes = s
         /\ Leaved(t, s, p).focused = p
<1>1. DOMAIN s = 1 .. Len(s) /\ p \in Panes
  BY LenProperties, ElementOfSeq DEF ToSet
<1>2. Leaved(t, s, p) \in TabRecords
  BY <1>1 DEF Leaved, TabRecords
<1>3. Leaved(t, s, p).id = t.id /\ Leaved(t, s, p).panes = s /\ Leaved(t, s, p).focused = p
  BY DEF Leaved
<1>4. QED
  BY <1>2, <1>3 DEF TabSet, TabPanes

LEMMA TabParts ==
  ASSUME NEW t \in TabSet
  PROVE  /\ t \in TabRecords /\ t.id \in Panes /\ t.focused \in Panes
         /\ t.panes \in Seq(Panes) /\ Len(t.panes) \in Nat \ {0}
         /\ DOMAIN t.panes = 1 .. Len(t.panes)
         /\ TabPanes[t] = ToSet(t.panes)
         /\ ToSet(t.panes) \subseteq Panes
         /\ \A p \in ToSet(t.panes) :
              LeafOf(t, p) \in 1 .. Len(t.panes) /\ t.panes[LeafOf(t, p)] = p
<1>1. t \in TabRecords /\ t.id \in Panes /\ t.focused \in Panes
      /\ t.panes \in Seq(Panes) /\ t.panes # << >>
      /\ Distinct(t.panes) /\ TabPanes[t] = ToSet(t.panes)
  BY DEF TabSet, TabRecords, TabPanes
<1>2. Len(t.panes) \in Nat \ {0} /\ DOMAIN t.panes = 1 .. Len(t.panes)
  BY <1>1, EmptySeq, LenProperties
<1>3. ASSUME NEW p \in ToSet(t.panes)
      PROVE  p \in Panes /\ LeafOf(t, p) \in 1 .. Len(t.panes) /\ t.panes[LeafOf(t, p)] = p
  <2>1. PICK k \in 1 .. Len(t.panes) : t.panes[k] = p
    BY <1>2 DEF ToSet
  <2>2. QED
    BY <1>1, <2>1, LeafFound, ElementOfSeq
<1>4. QED
  BY <1>1, <1>2, <1>3

LEMMA NewTabIsTab ==
  ASSUME NEW p \in Panes
  PROVE  NewTab(p) \in TabSet /\ TabPanes[NewTab(p)] = {p} /\ NewTab(p).id = p
<1>1. <<p>> \in Seq(Panes) /\ DOMAIN <<p>> = {1} /\ <<p>>[1] = p /\ <<p>> # << >>
  OBVIOUS
<1>2. ToSet(<<p>>) = {p} /\ Distinct(<<p>>)
  BY <1>1 DEF ToSet, Distinct
<1>3. NewTab(p) \in TabRecords /\ NewTab(p).panes = <<p>>
      /\ NewTab(p).focused = p /\ NewTab(p).id = p
  BY <1>1 DEF NewTab, TabRecords
<1>4. QED
  BY <1>1, <1>2, <1>3 DEF TabSet, TabPanes

\* Focusing one of a tab's panes leaves the tab well formed.
LEMMA FocusedKeeps ==
  ASSUME NEW t \in TabSet, NEW p \in ToSet(t.panes)
  PROVE  LET u == [t EXCEPT !.focused = p]
         IN  u \in TabSet /\ TabPanes[u] = TabPanes[t] /\ u.id = t.id /\ u.focused = p
             /\ u.panes = t.panes
<1>1. t \in TabRecords /\ t.panes \in Seq(Panes) /\ t.panes # << >> /\ Distinct(t.panes)
      /\ TabPanes[t] = ToSet(t.panes)
  BY TabParts DEF TabSet
<1>2. [t EXCEPT !.focused = p] = Leaved(t, t.panes, p)
  BY <1>1, TabWith
<1>3. QED
  BY <1>1, <1>2, LeavedIsTab

LEMMA FocusCycledKeeps ==
  ASSUME NEW t \in TabSet, NEW d \in Int
  PROVE  LET u == FocusCycled(t, d)
         IN  u \in TabSet /\ TabPanes[u] = TabPanes[t] /\ u.id = t.id
<1> DEFINE k == Wrapped(LeafOf(t, t.focused), d, Len(t.panes))
           p == t.panes[k]
<1>1. t.focused \in ToSet(t.panes)
  BY DEF TabSet
<1>2. k \in 1 .. Len(t.panes)
  BY <1>1, TabParts, WrappedInRange
<1>3. p \in ToSet(t.panes)
  BY <1>2, TabParts DEF ToSet
<1>4. FocusCycled(t, d) = [t EXCEPT !.focused = p]
  BY DEF FocusCycled
<1> HIDE DEF p
<1>5. QED
  BY <1>3, <1>4, FocusedKeeps

\* A split adds the new pane to the leaves, focused.
LEMMA PaneSplitKeeps ==
  ASSUME NEW t \in TabSet, NEW p \in ToSet(t.panes), NEW new \in Panes \ ToSet(t.panes)
  PROVE  LET u == PaneSplit(t, p, new)
         IN  /\ u \in TabSet /\ TabPanes[u] = TabPanes[t] \union {new}
             /\ u.id = t.id /\ u.focused = new
<1> DEFINE i == LeafOf(t, p) + 1
           s == InsertAt(t.panes, i, new)
<1>1. /\ t \in TabRecords /\ t.panes \in Seq(Panes) /\ TabPanes[t] = ToSet(t.panes)
      /\ i \in 1 .. Len(t.panes) + 1 /\ Len(t.panes) \in Nat /\ new \in Panes
  BY TabParts
<1>2. PaneSplit(t, p, new) = [t EXCEPT !.panes = s, !.focused = new]
  BY DEF PaneSplit
<1> HIDE DEF i, s
<1>3. s \in Seq(Panes) /\ Len(s) = Len(t.panes) + 1
  BY <1>1, AfterInsertion DEF s, Inserted
<1>4. Distinct(s) /\ ToSet(s) = ToSet(t.panes) \union {new}
  BY <1>1, InsertedDistinct DEF s, TabSet
<1>5. PaneSplit(t, p, new) = Leaved(t, s, new)
  BY <1>1, <1>2, TabWithBoth
<1>6. s # << >> /\ new \in ToSet(s)
  BY <1>1, <1>3, <1>4, EmptySeq
<1>7. QED
  BY <1>1, <1>3, <1>4, <1>5, <1>6, LeavedIsTab

\* A swap changes the order of the leaves only.
LEMMA PanesSwappedKeeps ==
  ASSUME NEW t \in TabSet, NEW p, NEW q, CanSwap(t, p, q)
  PROVE  LET u == PanesSwapped(t, p, q)
         IN  u \in TabSet /\ TabPanes[u] = TabPanes[t] /\ u.id = t.id /\ u.focused = t.focused
<1> DEFINE n == Len(t.panes)
           i == LeafOf(t, p)
           k == LeafOf(t, q)
           s == [[t.panes EXCEPT ![i] = q] EXCEPT ![k] = p]
<1>1. /\ t \in TabRecords /\ t.panes \in Seq(Panes) /\ n \in Nat \ {0} /\ DOMAIN t.panes = 1 .. n
      /\ TabPanes[t] = ToSet(t.panes) /\ i \in 1 .. n /\ k \in 1 .. n
      /\ t.panes[i] = p /\ t.panes[k] = q /\ p # q /\ p \in Panes /\ q \in Panes
  BY TabParts DEF CanSwap
<1>2. Distinct(t.panes) /\ t.focused \in ToSet(t.panes)
  BY DEF TabSet
<1>3. PanesSwapped(t, p, q) = Leaved(t, s, t.focused)
  BY <1>1, TabWith DEF PanesSwapped
<1>4. /\ s \in Seq(Panes) /\ Len(s) = n /\ DOMAIN s = 1 .. n
      /\ \A j \in 1 .. n : s[j] = IF j = k THEN p ELSE IF j = i THEN q ELSE t.panes[j]
  BY <1>1, ExceptSeq, LenProperties
<1> HIDE DEF n, i, k, s
<1>5. Distinct(s)
  BY <1>1, <1>2, <1>4 DEF Distinct
<1>6. ToSet(s) = ToSet(t.panes)
  BY <1>1, <1>4 DEF ToSet
<1>7. s # << >>
  BY <1>1, <1>4, EmptySeq
<1>8. QED
  BY <1>1, <1>2, <1>3, <1>4, <1>5, <1>6, <1>7, LeavedIsTab

\* A tab with several panes keeps the others, and focuses one of them.
LEMMA PaneRemovedKeeps ==
  ASSUME NEW t \in TabSet, NEW p \in ToSet(t.panes), Len(t.panes) > 1
  PROVE  LET u == PaneRemoved(t, p)
         IN  /\ u \in TabSet /\ TabPanes[u] = TabPanes[t] \ {p}
             /\ u.id = t.id
<1> DEFINE n == Len(t.panes)
           i == LeafOf(t, p)
           s == RemoveAt(t.panes, i)
           f == IF t.focused # p THEN t.focused ELSE t.panes[IF i < n THEN i + 1 ELSE i - 1]
<1>1. /\ t \in TabRecords /\ t.panes \in Seq(Panes) /\ n \in Nat \ {0} /\ DOMAIN t.panes = 1 .. n
      /\ TabPanes[t] = ToSet(t.panes) /\ i \in 1 .. n /\ t.panes[i] = p /\ n > 1
  BY TabParts
<1>2. Distinct(t.panes) /\ t.focused \in ToSet(t.panes)
  BY DEF TabSet
<1>3. /\ s \in Seq(Panes) /\ Len(s) = n - 1
      /\ \A j \in 1 .. n - 1 : s[j] = t.panes[IF j < i THEN j ELSE j + 1]
  BY <1>1, AfterRemoval
<1>4. PaneRemoved(t, p) = Leaved(t, s, f)
  <2>1. PaneRemoved(t, p) = [t EXCEPT !.panes = s, !.focused = f]
    BY DEF PaneRemoved
  <2> HIDE DEF s, f
  <2>2. QED
    BY <1>1, <2>1, TabWithBoth
<1>5. f = IF t.focused # p THEN t.focused ELSE t.panes[IF i < n THEN i + 1 ELSE i - 1]
  OBVIOUS
<1> HIDE DEF n, i, s, f
<1>6. DOMAIN s = 1 .. n - 1 /\ s # << >>
  BY <1>1, <1>3, EmptySeq, LenProperties
<1>7. Distinct(s) /\ ToSet(s) = ValuesAt(t.panes, (1 .. n) \ {i})
  <2>1. PICK up : Takes(s, t.panes, up, (1 .. n) \ {i})
    BY <1>1, RemovalTakes DEF s, n
  <2>2. (1 .. n) \ {i} \in SUBSET (1 .. Len(t.panes))
    BY DEF n
  <2>3. QED
    BY ZenonT(40), <1>1, <1>2, <1>3, <2>1, <2>2, TakenDistinct
<1>8. ToSet(s) = ToSet(t.panes) \ {p}
  <2>1. \A j \in 1 .. n : j # i <=> t.panes[j] # p
    BY <1>1, <1>2 DEF Distinct
  <2>2. QED
    BY <1>1, <1>7, <2>1 DEF ToSet, ValuesAt
<1>9. f \in ToSet(s)
  <2>1. CASE t.focused # p
    BY <1>2, <1>5, <1>8, <2>1
  <2>2. CASE t.focused = p
    <3>1. PICK k \in 1 .. n : k # i /\ f = t.panes[k]
      BY <1>1, <1>5, <2>2
    <3>2. QED
      BY <1>1, <1>2, <1>8, <3>1 DEF ToSet, Distinct
  <2>3. QED
    BY <2>1, <2>2
<1>10. /\ Leaved(t, s, f) \in TabSet /\ TabPanes[Leaved(t, s, f)] = ToSet(s)
       /\ Leaved(t, s, f).id = t.id
  BY <1>1, <1>3, <1>6, <1>7, <1>9, LeavedIsTab
<1>11. QED
  BY <1>1, <1>4, <1>8, <1>10

--------------------------------------------------------------------------------
(* The three levels. *)

NodeSet(S, content)   == {c \in Nodes(S) : Good(c, content)}
NodePanes(S, content) == [c \in NodeSet(S, content) |-> Held(c.items, content)]

GroupSet       == NodeSet(TabSet, TabPanes)
GroupPanes     == NodePanes(TabSet, TabPanes)
WorkspaceSet   == NodeSet(GroupSet, GroupPanes)
WorkspacePanes == NodePanes(GroupSet, GroupPanes)

Hierarchies == {a \in Windows(WorkspaceSet) : Good(a, WorkspacePanes)}
Owned(a)    == Held(a.items, WorkspacePanes)

LEMMA NodeParts ==
  ASSUME NEW S, NEW content, NEW c \in NodeSet(S, content)
  PROVE  /\ c \in Nodes(S) \union Windows(S) /\ c \in Nodes(S) /\ Good(c, content)
         /\ Current(c) \in S
         /\ c.active \in DOMAIN c.items
         /\ \A i \in DOMAIN c.items : c.items[i] \in S
         /\ NodePanes(S, content)[c] = Held(c.items, content)
<1>1. c \in Nodes(S) \union Windows(S) /\ c \in Nodes(S) /\ Good(c, content)
      /\ NodePanes(S, content)[c] = Held(c.items, content)
  BY DEF NodeSet, NodePanes
<1>2. QED
  BY <1>1, Sized DEF Good

LEMMA HierarchyParts ==
  ASSUME NEW a \in Hierarchies
  PROVE  /\ a \in Nodes(WorkspaceSet) \union Windows(WorkspaceSet)
         /\ a \in Windows(WorkspaceSet) /\ Good(a, WorkspacePanes)
         /\ Current(a) \in WorkspaceSet
         /\ a.active \in DOMAIN a.items
         /\ \A i \in DOMAIN a.items : a.items[i] \in WorkspaceSet
<1>1. a \in Nodes(WorkspaceSet) \union Windows(WorkspaceSet)
      /\ a \in Windows(WorkspaceSet) /\ Good(a, WorkspacePanes)
  BY DEF Hierarchies
<1>2. QED
  BY <1>1, Sized DEF Good

LEMMA WorkspaceParts ==
  ASSUME NEW w \in WorkspaceSet
  PROVE  /\ w \in Nodes(GroupSet) \union Windows(GroupSet)
         /\ w \in Nodes(GroupSet) /\ Good(w, GroupPanes)
         /\ Current(w) \in GroupSet
         /\ w.active \in DOMAIN w.items
         /\ \A i \in DOMAIN w.items : w.items[i] \in GroupSet
         /\ WorkspacePanes[w] = Held(w.items, GroupPanes)
BY NodeParts DEF WorkspaceSet, WorkspacePanes

LEMMA GroupParts ==
  ASSUME NEW g \in GroupSet
  PROVE  /\ g \in Nodes(TabSet) \union Windows(TabSet)
         /\ g \in Nodes(TabSet) /\ Good(g, TabPanes)
         /\ Current(g) \in TabSet
         /\ g.active \in DOMAIN g.items
         /\ \A i \in DOMAIN g.items : g.items[i] \in TabSet
         /\ GroupPanes[g] = Held(g.items, TabPanes)
BY NodeParts DEF GroupSet, GroupPanes

LEMMA HeldOf ==
  ASSUME NEW s, NEW content, NEW i \in DOMAIN s
  PROVE  content[s[i]] \subseteq Held(s, content)
BY DEF Held, HeldAt

\* The way down to the focused pane, and the panes on it.
LEMMA DownTheActive ==
  ASSUME NEW a \in Hierarchies
  PROVE  /\ ActiveTab(a) = Current(Current(Current(a))) /\ ActiveTab(a) \in TabSet
         /\ Focused(a) \in TabPanes[ActiveTab(a)]
         /\ TabPanes[ActiveTab(a)] \subseteq GroupPanes[Current(Current(a))]
         /\ GroupPanes[Current(Current(a))] \subseteq WorkspacePanes[Current(a)]
         /\ WorkspacePanes[Current(a)] \subseteq Owned(a)
         /\ Current(a) \in WorkspaceSet /\ Current(Current(a)) \in GroupSet
         /\ Focused(a) \in Panes
<1>1. Current(a) \in WorkspaceSet /\ Current(Current(a)) \in GroupSet
      /\ Current(Current(Current(a))) \in TabSet
  BY HierarchyParts, WorkspaceParts, GroupParts
<1>2. ActiveTab(a) = Current(Current(Current(a)))
  BY DEF ActiveTab, ActivePlace, TabAt, Current
<1>3. WorkspacePanes[Current(a)] \subseteq Owned(a)
  BY HierarchyParts, HeldOf DEF Owned, Current
<1>4. GroupPanes[Current(Current(a))] \subseteq WorkspacePanes[Current(a)]
  <2> DEFINE w == Current(a)
  <2>1. w.active \in DOMAIN w.items /\ WorkspacePanes[w] = Held(w.items, GroupPanes)
    BY <1>1, WorkspaceParts
  <2>2. GroupPanes[w.items[w.active]] \subseteq Held(w.items, GroupPanes)
    BY <2>1, HeldOf
  <2>3. QED
    BY <2>1, <2>2 DEF Current
<1>5. TabPanes[Current(Current(Current(a)))] \subseteq GroupPanes[Current(Current(a))]
  <2> DEFINE g == Current(Current(a))
  <2>1. g.active \in DOMAIN g.items /\ GroupPanes[g] = Held(g.items, TabPanes)
    BY <1>1, GroupParts
  <2>2. TabPanes[g.items[g.active]] \subseteq Held(g.items, TabPanes)
    BY <2>1, HeldOf
  <2>3. QED
    BY <2>1, <2>2 DEF Current
<1>6. Focused(a) \in TabPanes[ActiveTab(a)] /\ Focused(a) \in Panes
  BY <1>1, <1>2 DEF Focused, TabSet, TabPanes, TabRecords
<1>7. QED
  BY <1>1, <1>2, <1>3, <1>4, <1>5, <1>6

\* A node of the way down is replaced by one of the same name: the rest stays.
LEMMA WithWorkspaceKeeps ==
  ASSUME NEW a \in Hierarchies, NEW x \in WorkspaceSet, x.id = Current(a).id,
         WorkspacePanes[x] \intersect (Owned(a) \ WorkspacePanes[Current(a)]) = {}
  PROVE  LET b == WithWorkspace(a, x)
         IN  /\ b \in Hierarchies /\ b.active = a.active /\ Current(b) = x
             /\ Owned(b) = (Owned(a) \ WorkspacePanes[Current(a)]) \union WorkspacePanes[x]
<1> DEFINE b == WithWorkspace(a, x)
           i == a.active
<1>1. /\ a \in Nodes(WorkspaceSet) \union Windows(WorkspaceSet)
      /\ a \in Windows(WorkspaceSet) /\ Good(a, WorkspacePanes) /\ i \in DOMAIN a.items
  BY HierarchyParts
<1>2. b = [a EXCEPT !.items[i] = x]
  BY DEF WithWorkspace
<1>3. /\ b \in Windows(WorkspaceSet) /\ Good(b, WorkspacePanes) /\ b.active = a.active
      /\ b.items = [a.items EXCEPT ![i] = x]
      /\ Held(b.items, WorkspacePanes) =
           (Held(a.items, WorkspacePanes) \ WorkspacePanes[a.items[i]]) \union WorkspacePanes[x]
  BY <1>1, <1>2, ReplacedKeeps DEF Owned, Current
<1>4. Current(b) = x
  BY <1>1, <1>3 DEF Current
<1>5. QED
  BY <1>3, <1>4 DEF Hierarchies, Owned, Current

LEMMA WorkspaceWith ==
  ASSUME NEW w \in WorkspaceSet, NEW i \in DOMAIN w.items, NEW x \in GroupSet,
         x.id = w.items[i].id,
         GroupPanes[x] \intersect (WorkspacePanes[w] \ GroupPanes[w.items[i]]) = {}
  PROVE  LET v == [w EXCEPT !.items[i] = x]
         IN  /\ v \in WorkspaceSet /\ v.id = w.id /\ v.active = w.active
             /\ v.items = [w.items EXCEPT ![i] = x]
             /\ WorkspacePanes[v] =
                  (WorkspacePanes[w] \ GroupPanes[w.items[i]]) \union GroupPanes[x]
<1> DEFINE v == [w EXCEPT !.items[i] = x]
<1>1. /\ w \in Nodes(GroupSet) \union Windows(GroupSet)
      /\ w \in Nodes(GroupSet) /\ Good(w, GroupPanes)
      /\ WorkspacePanes[w] = Held(w.items, GroupPanes)
  BY WorkspaceParts
<1>2. /\ v \in Nodes(GroupSet) /\ v.id = w.id /\ Good(v, GroupPanes) /\ v.active = w.active
      /\ v.items = [w.items EXCEPT ![i] = x]
      /\ Held(v.items, GroupPanes) =
           (Held(w.items, GroupPanes) \ GroupPanes[w.items[i]]) \union GroupPanes[x]
  BY <1>1, ReplacedKeeps
<1> HIDE DEF v
<1>3. v \in WorkspaceSet
  BY <1>2 DEF WorkspaceSet, NodeSet
<1>4. WorkspacePanes[v] = Held(v.items, GroupPanes)
  BY <1>3, WorkspaceParts
<1>5. QED
  BY <1>1, <1>2, <1>3, <1>4 DEF v

LEMMA GroupWith ==
  ASSUME NEW w \in GroupSet, NEW i \in DOMAIN w.items, NEW x \in TabSet,
         x.id = w.items[i].id,
         TabPanes[x] \intersect (GroupPanes[w] \ TabPanes[w.items[i]]) = {}
  PROVE  LET v == [w EXCEPT !.items[i] = x]
         IN  /\ v \in GroupSet /\ v.id = w.id /\ v.active = w.active
             /\ v.items = [w.items EXCEPT ![i] = x]
             /\ GroupPanes[v] =
                  (GroupPanes[w] \ TabPanes[w.items[i]]) \union TabPanes[x]
<1> DEFINE v == [w EXCEPT !.items[i] = x]
<1>1. /\ w \in Nodes(TabSet) \union Windows(TabSet)
      /\ w \in Nodes(TabSet) /\ Good(w, TabPanes)
      /\ GroupPanes[w] = Held(w.items, TabPanes)
  BY GroupParts
<1>2. /\ v \in Nodes(TabSet) /\ v.id = w.id /\ Good(v, TabPanes) /\ v.active = w.active
      /\ v.items = [w.items EXCEPT ![i] = x]
      /\ Held(v.items, TabPanes) =
           (Held(w.items, TabPanes) \ TabPanes[w.items[i]]) \union TabPanes[x]
  BY <1>1, ReplacedKeeps
<1> HIDE DEF v
<1>3. v \in GroupSet
  BY <1>2 DEF GroupSet, NodeSet
<1>4. GroupPanes[v] = Held(v.items, TabPanes)
  BY <1>3, GroupParts
<1>5. QED
  BY <1>1, <1>2, <1>3, <1>4 DEF v

LEMMA WithGroupKeeps ==
  ASSUME NEW a \in Hierarchies, NEW x \in GroupSet, x.id = Current(Current(a)).id,
         GroupPanes[x] \intersect (Owned(a) \ GroupPanes[Current(Current(a))]) = {}
  PROVE  LET b == WithGroup(a, x)
         IN  /\ b \in Hierarchies /\ Current(Current(b)) = x
             /\ Owned(b) = (Owned(a) \ GroupPanes[Current(Current(a))]) \union GroupPanes[x]
             /\ WorkspacePanes[Current(b)] =
                  (WorkspacePanes[Current(a)] \ GroupPanes[Current(Current(a))])
                    \union GroupPanes[x]
<1> DEFINE w == Current(a)
           g == Current(w)
           v == [w EXCEPT !.items[w.active] = x]
           b == WithGroup(a, x)
<1>1. /\ w \in WorkspaceSet /\ w.active \in DOMAIN w.items /\ g = w.items[w.active]
      /\ GroupPanes[g] \subseteq WorkspacePanes[w] /\ WorkspacePanes[w] \subseteq Owned(a)
  BY DownTheActive, WorkspaceParts DEF Current
<1>2. b = WithWorkspace(a, v)
  BY DEF WithGroup
<1> HIDE DEF b, g
<1>3. /\ v \in WorkspaceSet /\ v.id = w.id /\ v.active = w.active
      /\ v.items = [w.items EXCEPT ![w.active] = x]
      /\ WorkspacePanes[v] = (WorkspacePanes[w] \ GroupPanes[g]) \union GroupPanes[x]
  <2>1. x.id = w.items[w.active].id
    BY <1>1 DEF g
  <2>2. GroupPanes[x] \intersect (WorkspacePanes[w] \ GroupPanes[w.items[w.active]]) = {}
    BY <1>1 DEF g
  <2> HIDE DEF w
  <2>3. QED
    BY <1>1, <2>1, <2>2, WorkspaceWith
<1> HIDE DEF v
<1>4. WorkspacePanes[v] \intersect (Owned(a) \ WorkspacePanes[w]) = {}
  BY <1>1, <1>3 DEF g
<1>5. /\ b \in Hierarchies /\ Current(b) = v
      /\ Owned(b) = (Owned(a) \ WorkspacePanes[w]) \union WorkspacePanes[v]
  BY <1>2, <1>3, <1>4, WithWorkspaceKeeps
<1>6. Current(v) = x
  BY <1>1, <1>3 DEF Current
<1>7. Owned(b) = (Owned(a) \ GroupPanes[g]) \union GroupPanes[x]
  BY <1>1, <1>3, <1>5
<1>8. QED
  BY <1>3, <1>5, <1>6, <1>7 DEF b, g

LEMMA WithTabKeeps ==
  ASSUME NEW a \in Hierarchies, NEW x \in TabSet, x.id = ActiveTab(a).id,
         TabPanes[x] \intersect (Owned(a) \ TabPanes[ActiveTab(a)]) = {}
  PROVE  LET b == WithTab(a, x)
         IN  /\ b \in Hierarchies /\ ActiveTab(b) = x
             /\ Owned(b) = (Owned(a) \ TabPanes[ActiveTab(a)]) \union TabPanes[x]
<1> DEFINE g == Current(Current(a))
           t == ActiveTab(a)
           v == [g EXCEPT !.items[g.active] = x]
           b == WithTab(a, x)
<1>1. /\ g \in GroupSet /\ g.active \in DOMAIN g.items /\ t = g.items[g.active]
      /\ TabPanes[t] \subseteq GroupPanes[g] /\ GroupPanes[g] \subseteq Owned(a)
  BY DownTheActive, GroupParts DEF Current
<1>2. b = WithGroup(a, v)
  BY DEF WithTab
<1> HIDE DEF b, t
<1>3. /\ v \in GroupSet /\ v.id = g.id /\ v.active = g.active
      /\ v.items = [g.items EXCEPT ![g.active] = x]
      /\ GroupPanes[v] = (GroupPanes[g] \ TabPanes[t]) \union TabPanes[x]
  <2>1. x.id = g.items[g.active].id
    BY <1>1 DEF t
  <2>2. TabPanes[x] \intersect (GroupPanes[g] \ TabPanes[g.items[g.active]]) = {}
    BY <1>1 DEF t
  <2> HIDE DEF g
  <2>3. QED
    BY <1>1, <2>1, <2>2, GroupWith
<1> HIDE DEF v
<1>4. GroupPanes[v] \intersect (Owned(a) \ GroupPanes[g]) = {}
  BY <1>1, <1>3 DEF t
<1>5. /\ b \in Hierarchies /\ Current(Current(b)) = v
      /\ Owned(b) = (Owned(a) \ GroupPanes[g]) \union GroupPanes[v]
  BY <1>2, <1>3, <1>4, WithGroupKeeps
<1>6. ActiveTab(b) = x
  <2>1. Current(v) = x
    BY <1>1, <1>3 DEF Current
  <2>2. QED
    BY <1>5, <2>1, DownTheActive
<1>7. Owned(b) = (Owned(a) \ TabPanes[t]) \union TabPanes[x]
  BY <1>1, <1>3, <1>5
<1>8. QED
  BY <1>5, <1>6, <1>7 DEF b, t

\* The operations on a node, for workspaces and groups at once.
LEMMA NodeSelected ==
  ASSUME NEW S, NEW content, NEW c \in NodeSet(S, content), NEW i \in DOMAIN c.items
  PROVE  LET d == Selected(c, i)
         IN  /\ d \in NodeSet(S, content) /\ d.id = c.id /\ d.items = c.items /\ d.active = i
             /\ NodePanes(S, content)[d] = NodePanes(S, content)[c]
<1> DEFINE d == Selected(c, i)
<1>1. d \in Nodes(S) /\ d.id = c.id /\ Good(d, content) /\ d.items = c.items /\ d.active = i
  BY NodeParts, SelectedKeeps
<1> HIDE DEF d
<1>2. d \in NodeSet(S, content)
  BY <1>1 DEF NodeSet
<1>3. QED
  BY <1>1, <1>2, NodeParts DEF d

LEMMA NodeAppended ==
  ASSUME NEW S, NEW content, NEW c \in NodeSet(S, content),
         NEW x \in S, \A i \in DOMAIN c.items : c.items[i].id # x.id,
         content[x] \intersect NodePanes(S, content)[c] = {}
  PROVE  LET d == Appended(c, x)
         IN  /\ d \in NodeSet(S, content) /\ d.id = c.id /\ Current(d) = x
             /\ NodePanes(S, content)[d] = NodePanes(S, content)[c] \union content[x]
<1> DEFINE d == Appended(c, x)
<1>1. /\ c \in Nodes(S) \union Windows(S) /\ c \in Nodes(S) /\ Good(c, content)
      /\ NodePanes(S, content)[c] = Held(c.items, content)
  BY NodeParts
<1>2. /\ d \in Nodes(S) /\ d.id = c.id /\ Good(d, content) /\ Current(d) = x
      /\ Held(d.items, content) = Held(c.items, content) \union content[x]
  BY <1>1, AppendedKeeps
<1> HIDE DEF d
<1>3. d \in NodeSet(S, content)
  BY <1>2 DEF NodeSet
<1>4. QED
  BY <1>1, <1>2, <1>3, NodeParts DEF d

LEMMA NodeRemoved ==
  ASSUME NEW S, NEW content, NEW c \in NodeSet(S, content), NEW i, CanRemove(c, i)
  PROVE  LET d == Removed(c, i)
         IN  /\ d \in NodeSet(S, content) /\ d.id = c.id
             /\ NodePanes(S, content)[d] = NodePanes(S, content)[c] \ content[c.items[i]]
<1> DEFINE d == Removed(c, i)
<1>1. /\ c \in Nodes(S) \union Windows(S) /\ c \in Nodes(S) /\ Good(c, content)
      /\ NodePanes(S, content)[c] = Held(c.items, content)
  BY NodeParts
<1>2. /\ d \in Nodes(S) /\ d.id = c.id /\ Good(d, content)
      /\ Held(d.items, content) = Held(c.items, content) \ content[c.items[i]]
  BY <1>1, RemovedKeeps
<1> HIDE DEF d
<1>3. d \in NodeSet(S, content)
  BY <1>2 DEF NodeSet
<1>4. QED
  BY <1>1, <1>2, <1>3, NodeParts DEF d

LEMMA NodeMoved ==
  ASSUME NEW S, NEW content, NEW c \in NodeSet(S, content), NEW id, NEW target,
         CanMove(c, id, target)
  PROVE  LET d == Moved(c, id, target)
         IN  /\ d \in NodeSet(S, content) /\ d.id = c.id /\ Current(d) = Current(c)
             /\ NodePanes(S, content)[d] = NodePanes(S, content)[c]
<1> DEFINE d == Moved(c, id, target)
<1>1. /\ c \in Nodes(S) \union Windows(S) /\ c \in Nodes(S) /\ Good(c, content)
      /\ NodePanes(S, content)[c] = Held(c.items, content)
  BY NodeParts
<1>2. /\ d \in Nodes(S) /\ d.id = c.id /\ Good(d, content) /\ Current(d) = Current(c)
      /\ Held(d.items, content) = Held(c.items, content)
  BY <1>1, MovedKeeps
<1> HIDE DEF d
<1>3. d \in NodeSet(S, content)
  BY <1>2 DEF NodeSet
<1>4. QED
  BY <1>1, <1>2, <1>3, NodeParts DEF d

--------------------------------------------------------------------------------
(* Places. *)

LEMMA PlacesAre ==
  ASSUME NEW a
  PROVE  /\ \A at \in Places(a) :
              \E w \in DOMAIN a.items : \E g \in DOMAIN a.items[w].items :
                \E t \in DOMAIN a.items[w].items[g].items : at = <<w, g, t>>
         /\ \A w \in DOMAIN a.items : \A g \in DOMAIN a.items[w].items :
              \A t \in DOMAIN a.items[w].items[g].items : <<w, g, t>> \in Places(a)
BY DEF Places

\* The containers on the way to a place.
WorkspaceAt(a, at) == a.items[at[1]]
GroupAt(a, at)     == a.items[at[1]].items[at[2]]

\* The way to a place goes through well-formed containers, each holding the next.
LEMMA PlaceParts ==
  ASSUME NEW a \in Hierarchies, NEW at \in Places(a)
  PROVE  /\ at = <<at[1], at[2], at[3]>>
         /\ at[1] \in DOMAIN a.items /\ at[2] \in DOMAIN WorkspaceAt(a, at).items
         /\ at[3] \in DOMAIN GroupAt(a, at).items
         /\ WorkspaceAt(a, at) = a.items[at[1]]
         /\ GroupAt(a, at) = WorkspaceAt(a, at).items[at[2]]
         /\ TabAt(a, at) = GroupAt(a, at).items[at[3]]
         /\ WorkspaceAt(a, at) \in WorkspaceSet /\ GroupAt(a, at) \in GroupSet
         /\ TabAt(a, at) \in TabSet
         /\ TabPanes[TabAt(a, at)] = ToSet(TabAt(a, at).panes)
         /\ ToSet(TabAt(a, at).panes) \subseteq GroupPanes[GroupAt(a, at)]
         /\ GroupPanes[GroupAt(a, at)] \subseteq WorkspacePanes[WorkspaceAt(a, at)]
         /\ WorkspacePanes[WorkspaceAt(a, at)] \subseteq Owned(a)
<1>1. PICK w \in DOMAIN a.items : \E g \in DOMAIN a.items[w].items :
        \E t \in DOMAIN a.items[w].items[g].items : at = <<w, g, t>>
  BY PlacesAre
<1>2. PICK g \in DOMAIN a.items[w].items :
        \E t \in DOMAIN a.items[w].items[g].items : at = <<w, g, t>>
  BY <1>1
<1>3. PICK t \in DOMAIN a.items[w].items[g].items : at = <<w, g, t>>
  BY <1>2
<1>4. at[1] = w /\ at[2] = g /\ at[3] = t
  BY <1>3
<1>5. /\ at = <<at[1], at[2], at[3]>>
      /\ at[1] \in DOMAIN a.items /\ at[2] \in DOMAIN WorkspaceAt(a, at).items
      /\ at[3] \in DOMAIN GroupAt(a, at).items
      /\ WorkspaceAt(a, at) = a.items[at[1]]
      /\ GroupAt(a, at) = WorkspaceAt(a, at).items[at[2]]
      /\ TabAt(a, at) = GroupAt(a, at).items[at[3]]
  BY <1>3, <1>4 DEF WorkspaceAt, GroupAt, TabAt
<1>6. WorkspaceAt(a, at) \in WorkspaceSet
  BY <1>5, HierarchyParts
<1>7. GroupAt(a, at) \in GroupSet
  BY <1>5, <1>6, WorkspaceParts
<1>8. TabAt(a, at) \in TabSet
  BY <1>5, <1>7, GroupParts
<1>9. TabPanes[TabAt(a, at)] = ToSet(TabAt(a, at).panes)
  BY <1>8, TabParts
<1>10. TabPanes[TabAt(a, at)] \subseteq GroupPanes[GroupAt(a, at)]
  <2>1. TabPanes[GroupAt(a, at).items[at[3]]] \subseteq Held(GroupAt(a, at).items, TabPanes)
    BY <1>5, HeldOf
  <2>2. QED
    BY <1>5, <1>7, <2>1, GroupParts
<1>11. GroupPanes[GroupAt(a, at)] \subseteq WorkspacePanes[WorkspaceAt(a, at)]
  <2>1. GroupPanes[WorkspaceAt(a, at).items[at[2]]]
          \subseteq Held(WorkspaceAt(a, at).items, GroupPanes)
    BY <1>5, HeldOf
  <2>2. QED
    BY <1>5, <1>6, <2>1, WorkspaceParts
<1>12. WorkspacePanes[WorkspaceAt(a, at)] \subseteq Owned(a)
  BY <1>5, HeldOf DEF Owned
<1>13. QED
  BY <1>5, <1>6, <1>7, <1>8, <1>9, <1>10, <1>11, <1>12

\* Every pane of a container on the way has a place below it.
LEMMA PlaceInGroup ==
  ASSUME NEW a \in Hierarchies, NEW w \in DOMAIN a.items, NEW g \in DOMAIN a.items[w].items,
         NEW p \in GroupPanes[a.items[w].items[g]]
  PROVE  \E at \in Places(a) : at[1] = w /\ at[2] = g /\ p \in ToSet(TabAt(a, at).panes)
<1>1. PICK t \in DOMAIN a.items[w].items[g].items :
        p \in TabPanes[a.items[w].items[g].items[t]]
  <2>1. GroupPanes[a.items[w].items[g]] = Held(a.items[w].items[g].items, TabPanes)
    BY HierarchyParts, WorkspaceParts, GroupParts
  <2>2. QED
    BY <2>1 DEF Held, HeldAt
<1> DEFINE at == <<w, g, t>>
<1>2. at \in Places(a) /\ at[1] = w /\ at[2] = g
  BY PlacesAre
<1>3. p \in TabPanes[TabAt(a, at)]
  BY <1>1 DEF TabAt
<1> HIDE DEF at
<1>4. p \in ToSet(TabAt(a, at).panes)
  BY <1>2, <1>3, PlaceParts
<1>5. QED
  BY <1>2, <1>4

LEMMA PlaceInWorkspace ==
  ASSUME NEW a \in Hierarchies, NEW w \in DOMAIN a.items, NEW p \in WorkspacePanes[a.items[w]]
  PROVE  \E at \in Places(a) : at[1] = w /\ p \in ToSet(TabAt(a, at).panes)
<1>1. PICK g \in DOMAIN a.items[w].items : p \in GroupPanes[a.items[w].items[g]]
  <2>1. WorkspacePanes[a.items[w]] = Held(a.items[w].items, GroupPanes)
    BY HierarchyParts, WorkspaceParts
  <2>2. QED
    BY <2>1 DEF Held, HeldAt
<1>2. QED
  BY <1>1, PlaceInGroup

LEMMA OwnedIsPanesOf ==
  ASSUME NEW a \in Hierarchies
  PROVE  PanesOf(a) = Owned(a)
<1>1. ASSUME NEW p \in PanesOf(a) PROVE p \in Owned(a)
  <2>1. PICK at \in Places(a) : p \in ToSet(TabAt(a, at).panes)
    BY DEF PanesOf
  <2>2. QED
    BY <2>1, PlaceParts
<1>2. ASSUME NEW p \in Owned(a) PROVE p \in PanesOf(a)
  <2>1. PICK w \in DOMAIN a.items : p \in WorkspacePanes[a.items[w]]
    BY DEF Owned, Held, HeldAt
  <2>2. PICK at \in Places(a) : at[1] = w /\ p \in ToSet(TabAt(a, at).panes)
    BY <2>1, PlaceInWorkspace
  <2>3. QED
    BY <2>2 DEF PanesOf
<1>3. QED
  BY <1>1, <1>2

\* No pane has two places.
LEMMA OnePlace ==
  ASSUME NEW a \in Hierarchies, NEW at \in Places(a), NEW bt \in Places(a),
         NEW p, p \in ToSet(TabAt(a, at).panes), p \in ToSet(TabAt(a, bt).panes)
  PROVE  at = bt
<1>1. /\ at = <<at[1], at[2], at[3]>>
      /\ at[1] \in DOMAIN a.items /\ at[2] \in DOMAIN WorkspaceAt(a, at).items
      /\ at[3] \in DOMAIN GroupAt(a, at).items
      /\ WorkspaceAt(a, at) = a.items[at[1]] /\ GroupAt(a, at) = WorkspaceAt(a, at).items[at[2]]
      /\ TabAt(a, at) = GroupAt(a, at).items[at[3]]
      /\ WorkspaceAt(a, at) \in WorkspaceSet /\ GroupAt(a, at) \in GroupSet
      /\ p \in TabPanes[TabAt(a, at)] /\ p \in GroupPanes[GroupAt(a, at)]
      /\ p \in WorkspacePanes[WorkspaceAt(a, at)]
  BY PlaceParts
<1>2. /\ bt = <<bt[1], bt[2], bt[3]>>
      /\ bt[1] \in DOMAIN a.items /\ bt[2] \in DOMAIN WorkspaceAt(a, bt).items
      /\ bt[3] \in DOMAIN GroupAt(a, bt).items
      /\ WorkspaceAt(a, bt) = a.items[bt[1]] /\ GroupAt(a, bt) = WorkspaceAt(a, bt).items[bt[2]]
      /\ TabAt(a, bt) = GroupAt(a, bt).items[bt[3]]
      /\ p \in TabPanes[TabAt(a, bt)] /\ p \in GroupPanes[GroupAt(a, bt)]
      /\ p \in WorkspacePanes[WorkspaceAt(a, bt)]
  BY PlaceParts
<1>3. at[1] = bt[1]
  BY <1>1, <1>2, HierarchyParts DEF Good, Parted
<1>4. WorkspaceAt(a, at) = WorkspaceAt(a, bt)
  BY <1>1, <1>2, <1>3
<1>5. at[2] = bt[2]
  <2>1. Parted(WorkspaceAt(a, at).items, GroupPanes)
    BY <1>1, WorkspaceParts DEF Good
  <2>2. QED
    BY <1>1, <1>2, <1>4, <2>1 DEF Parted
<1>6. GroupAt(a, at) = GroupAt(a, bt)
  BY <1>1, <1>2, <1>4, <1>5
<1>7. at[3] = bt[3]
  <2>1. Parted(GroupAt(a, at).items, TabPanes)
    BY <1>1, GroupParts DEF Good
  <2>2. QED
    BY <1>1, <1>2, <1>6, <2>1 DEF Parted
<1>8. QED
  BY <1>1, <1>2, <1>3, <1>5, <1>7

LEMMA PlaceFound ==
  ASSUME NEW a \in Hierarchies, NEW p \in Owned(a)
  PROVE  /\ PlaceOf(a, p) \in Places(a)
         /\ p \in ToSet(TabAt(a, PlaceOf(a, p)).panes)
         /\ \A at \in Places(a) : p \in ToSet(TabAt(a, at).panes) => at = PlaceOf(a, p)
<1>1. \E at \in Places(a) : p \in ToSet(TabAt(a, at).panes)
  BY OwnedIsPanesOf DEF PanesOf
<1>2. PlaceOf(a, p) \in Places(a) /\ p \in ToSet(TabAt(a, PlaceOf(a, p)).panes)
  BY <1>1 DEF PlaceOf
<1>3. QED
  BY <1>2, OnePlace

LEMMA ActivePlaceIsPlace ==
  ASSUME NEW a \in Hierarchies
  PROVE  /\ a.active \in DOMAIN a.items
         /\ Current(a).active \in DOMAIN Current(a).items
         /\ Current(Current(a)).active \in DOMAIN Current(Current(a)).items
         /\ ActivePlace(a) \in Places(a)
<1>1. /\ a.active \in DOMAIN a.items
      /\ Current(a).active \in DOMAIN Current(a).items
      /\ Current(Current(a)).active \in DOMAIN Current(Current(a)).items
  BY HierarchyParts, WorkspaceParts, GroupParts
<1>2. ActivePlace(a) \in Places(a)
  BY <1>1, PlacesAre DEF ActivePlace, Current
<1>3. QED
  BY <1>1, <1>2

\* The focused pane is found where the selection is.
LEMMA FocusedPlace ==
  ASSUME NEW a \in Hierarchies
  PROVE  PlaceOf(a, Focused(a)) = ActivePlace(a)
<1>1. ActivePlace(a) \in Places(a) /\ TabAt(a, ActivePlace(a)) = ActiveTab(a)
  BY ActivePlaceIsPlace DEF ActiveTab
<1>2. Focused(a) \in ToSet(ActiveTab(a).panes) /\ Focused(a) \in Owned(a)
  BY DownTheActive, TabParts
<1>3. QED
  BY <1>1, <1>2, PlaceFound

--------------------------------------------------------------------------------
(* Selecting on one level, and all the way down to a place. *)

LEMMA WorkspaceSelected ==
  ASSUME NEW a \in Hierarchies, NEW w \in DOMAIN a.items
  PROVE  LET b == Selected(a, w)
         IN  /\ b \in Hierarchies /\ Owned(b) = Owned(a)
             /\ b.items = a.items /\ b.active = w /\ Current(b) = a.items[w]
<1> DEFINE b == Selected(a, w)
<1>1. /\ b \in Windows(WorkspaceSet) /\ Good(b, WorkspacePanes)
      /\ b.items = a.items /\ b.active = w
  BY HierarchyParts, SelectedKeeps
<1> HIDE DEF b
<1>2. QED
  BY <1>1 DEF b, Hierarchies, Owned, Current

LEMMA GroupSelected ==
  ASSUME NEW a \in Hierarchies, NEW g \in DOMAIN Current(a).items
  PROVE  LET b == WithWorkspace(a, Selected(Current(a), g))
         IN  /\ b \in Hierarchies /\ Owned(b) = Owned(a) /\ b.active = a.active
             /\ Current(b) = Selected(Current(a), g) /\ Current(b).active = g
             /\ Current(Current(b)) = Current(a).items[g]
             /\ WorkspacePanes[Current(b)] = WorkspacePanes[Current(a)]
<1> DEFINE c == Current(a)
           x == Selected(c, g)
<1>1. c \in WorkspaceSet /\ WorkspacePanes[c] \subseteq Owned(a)
  BY DownTheActive
<1> HIDE DEF c
<1>2. /\ x \in WorkspaceSet /\ x.id = c.id /\ x.items = c.items /\ x.active = g
      /\ WorkspacePanes[x] = WorkspacePanes[c]
  <2>1. g \in DOMAIN c.items
    BY DEF c
  <2>2. QED
    BY <1>1, <2>1, NodeSelected DEF WorkspaceSet, WorkspacePanes
<1> HIDE DEF x
<1>3. LET b == WithWorkspace(a, x)
      IN  /\ b \in Hierarchies /\ b.active = a.active /\ Current(b) = x
          /\ Owned(b) = (Owned(a) \ WorkspacePanes[Current(a)]) \union WorkspacePanes[x]
  BY <1>1, <1>2, WithWorkspaceKeeps DEF c
<1>4. Owned(WithWorkspace(a, x)) = Owned(a)
  BY <1>1, <1>2, <1>3 DEF c
<1>5. Current(x) = c.items[g]
  BY <1>2 DEF Current
<1>6. QED
  BY <1>2, <1>3, <1>4, <1>5 DEF x, c

LEMMA TabSelected ==
  ASSUME NEW a \in Hierarchies, NEW t \in DOMAIN Current(Current(a)).items
  PROVE  LET b == WithGroup(a, Selected(Current(Current(a)), t))
         IN  /\ b \in Hierarchies /\ Owned(b) = Owned(a)
             /\ Current(Current(b)) = Selected(Current(Current(a)), t)
             /\ ActiveTab(b) = Current(Current(a)).items[t]
             /\ Current(Current(b)).active = t
             /\ GroupPanes[Current(Current(b))] = GroupPanes[Current(Current(a))]
<1> DEFINE c == Current(Current(a))
           x == Selected(c, t)
<1>1. c \in GroupSet /\ GroupPanes[c] \subseteq Owned(a)
  BY DownTheActive
<1> HIDE DEF c
<1>2. /\ x \in GroupSet /\ x.id = c.id /\ x.items = c.items /\ x.active = t
      /\ GroupPanes[x] = GroupPanes[c]
  <2>1. t \in DOMAIN c.items
    BY DEF c
  <2>2. QED
    BY <1>1, <2>1, NodeSelected DEF GroupSet, GroupPanes
<1> HIDE DEF x
<1> DEFINE b == WithGroup(a, x)
<1>3. /\ b \in Hierarchies /\ Current(Current(b)) = x
      /\ Owned(b) = (Owned(a) \ GroupPanes[Current(Current(a))]) \union GroupPanes[x]
  BY <1>1, <1>2, WithGroupKeeps DEF c
<1> HIDE DEF b
<1>4. Owned(b) = Owned(a)
  BY <1>1, <1>2, <1>3 DEF c
<1>5. ActiveTab(b) = c.items[t]
  BY <1>2, <1>3, DownTheActive DEF Current
<1>6. QED
  BY <1>2, <1>3, <1>4, <1>5 DEF b, x, c

\* Selecting a place is selecting on each level in turn.
LEMMA PlaceSelectedIs ==
  ASSUME NEW a \in Hierarchies, NEW at \in Places(a), NEW a1, NEW a2,
         a1 = Selected(a, at[1]), a2 = WithWorkspace(a1, Selected(Current(a1), at[2]))
  PROVE  PlaceSelected(a, at) = WithGroup(a2, Selected(Current(Current(a2)), at[3]))
<1> DEFINE w == at[1]
           g == at[2]
           t == at[3]
<1>1. w \in DOMAIN a.items /\ g \in DOMAIN a.items[w].items
  BY PlaceParts DEF WorkspaceAt
<1>2. /\ a1 \in Hierarchies /\ a1.items = a.items /\ a1.active = w /\ Current(a1) = a.items[w]
  BY <1>1, WorkspaceSelected
<1>3. /\ a2 \in Hierarchies /\ a2.active = w /\ Current(a2).active = g
      /\ Current(a2) = Selected(Current(a1), g)
  BY <1>1, <1>2, GroupSelected
<1>4. a1 = [a EXCEPT !.active = w]
  BY DEF Selected
<1>5. a2 = [a1 EXCEPT !.items[w].active = g]
  BY <1>2 DEF WithWorkspace, Selected
<1>6. PlaceSelected(a, at) = [a2 EXCEPT !.items[w].items[g].active = t]
  BY <1>4, <1>5 DEF PlaceSelected
<1>7. Current(a2) = a2.items[w] /\ Current(Current(a2)) = a2.items[w].items[g]
  BY <1>3 DEF Current
<1>8. WithGroup(a2, Selected(Current(Current(a2)), t))
        = [a2 EXCEPT !.items[w].items[g].active = t]
  BY <1>3, <1>7 DEF WithGroup, WithWorkspace, Selected
<1>9. QED
  BY <1>6, <1>8

LEMMA PlaceSelectedKeeps ==
  ASSUME NEW a \in Hierarchies, NEW at \in Places(a)
  PROVE  LET b == PlaceSelected(a, at)
         IN  b \in Hierarchies /\ Owned(b) = Owned(a) /\ ActiveTab(b) = TabAt(a, at)
<1> DEFINE a1 == Selected(a, at[1])
           a2 == WithWorkspace(a1, Selected(Current(a1), at[2]))
           b == WithGroup(a2, Selected(Current(Current(a2)), at[3]))
<1>1. /\ at[1] \in DOMAIN a.items /\ at[2] \in DOMAIN a.items[at[1]].items
      /\ at[3] \in DOMAIN a.items[at[1]].items[at[2]].items
      /\ TabAt(a, at) = a.items[at[1]].items[at[2]].items[at[3]]
  BY PlaceParts DEF WorkspaceAt, GroupAt
<1>2. a1 \in Hierarchies /\ Owned(a1) = Owned(a) /\ Current(a1) = a.items[at[1]]
  BY <1>1, WorkspaceSelected
<1>3. PlaceSelected(a, at) = b
  BY PlaceSelectedIs
<1> HIDE DEF a1
<1>4. /\ a2 \in Hierarchies /\ Owned(a2) = Owned(a)
      /\ Current(Current(a2)) = a.items[at[1]].items[at[2]]
  BY <1>1, <1>2, GroupSelected
<1> HIDE DEF a2
<1>5. /\ b \in Hierarchies /\ Owned(b) = Owned(a) /\ ActiveTab(b) = TabAt(a, at)
  BY <1>1, <1>4, TabSelected
<1>6. QED
  BY <1>3, <1>5

\* Focusing a pane selects the way down to it, and changes nothing else.
LEMMA PaneFocusedKeeps ==
  ASSUME NEW a \in Hierarchies, NEW p \in Owned(a)
  PROVE  LET b == PaneFocused(a, p)
         IN  b \in Hierarchies /\ Owned(b) = Owned(a) /\ Focused(b) = p
<1> DEFINE there == PlaceSelected(a, PlaceOf(a, p))
           t == ActiveTab(there)
           u == [t EXCEPT !.focused = p]
           b == WithTab(there, u)
<1>1. /\ there \in Hierarchies /\ Owned(there) = Owned(a)
      /\ p \in ToSet(t.panes)
  BY PlaceFound, PlaceSelectedKeeps
<1>2. PaneFocused(a, p) = b
  BY DEF PaneFocused
<1> HIDE DEF there
<1>3. t \in TabSet /\ TabPanes[t] \subseteq Owned(there)
  BY <1>1, DownTheActive
<1>4. u \in TabSet /\ TabPanes[u] = TabPanes[t] /\ u.id = t.id /\ u.focused = p
  <2> HIDE DEF t
  <2>1. QED
    BY <1>1, <1>3, FocusedKeeps
<1> HIDE DEF u
<1>5. /\ b \in Hierarchies /\ ActiveTab(b) = u
      /\ Owned(b) = (Owned(there) \ TabPanes[t]) \union TabPanes[u]
  BY <1>1, <1>4, WithTabKeeps
<1>6. Owned(b) = Owned(a) /\ Focused(b) = p
  BY <1>1, <1>3, <1>4, <1>5 DEF Focused
<1>7. QED
  BY <1>2, <1>5, <1>6

\* Whatever a stop on the way back leaves out, restoring only selects.
LEMMA RestoredKeeps ==
  ASSUME NEW a \in Hierarchies, NEW at
  PROVE  Restored(a, at) \in Hierarchies /\ Owned(Restored(a, at)) = Owned(a)
<1> DEFINE a1 == Selected(a, at[1])
           a2 == WithWorkspace(a1, Selected(Current(a1), at[2]))
           a3 == WithGroup(a2, Selected(Current(Current(a2)), at[3]))
<1>1. CASE at[1] \notin DOMAIN a.items
  BY <1>1 DEF Restored
<1>2. CASE at[1] \in DOMAIN a.items
  <2>1. a1 \in Hierarchies /\ Owned(a1) = Owned(a)
    BY <1>2, WorkspaceSelected
  <2>2. CASE at[2] \notin DOMAIN Current(a1).items
    <3>1. Restored(a, at) = a1
      BY <1>2, <2>2 DEF Restored
    <3>2. QED
      BY <2>1, <3>1
  <2>3. CASE at[2] \in DOMAIN Current(a1).items
    <3>1. a2 \in Hierarchies /\ Owned(a2) = Owned(a)
      <4> HIDE DEF a1
      <4>1. QED
        BY <2>1, <2>3, GroupSelected
    <3>2. CASE at[3] \notin DOMAIN Current(Current(a2)).items
      <4>1. Restored(a, at) = a2
        BY <1>2, <2>3, <3>2 DEF Restored
      <4>2. QED
        BY <3>1, <4>1
    <3>3. CASE at[3] \in DOMAIN Current(Current(a2)).items
      <4>1. Restored(a, at) = a3
        BY <1>2, <2>3, <3>3 DEF Restored
      <4> HIDE DEF a2
      <4>2. a3 \in Hierarchies /\ Owned(a3) = Owned(a)
        BY <3>1, <3>3, TabSelected
      <4>3. QED
        BY <4>1, <4>2
    <3>4. QED
      BY <3>2, <3>3
  <2>4. QED
    BY <2>2, <2>3
<1>3. QED
  BY <1>1, <1>2


--------------------------------------------------------------------------------
(* Moving and dropping what is selected, on each level. *)

LEMMA WorkspaceMoved ==
  ASSUME NEW a \in Hierarchies, NEW id, NEW i, CanMove(a, id, i)
  PROVE  LET b == Moved(a, id, i)
         IN  b \in Hierarchies /\ Owned(b) = Owned(a) /\ Focused(b) = Focused(a)
<1> DEFINE b == Moved(a, id, i)
<1>1. /\ b \in Windows(WorkspaceSet) /\ Good(b, WorkspacePanes) /\ Current(b) = Current(a)
      /\ Held(b.items, WorkspacePanes) = Held(a.items, WorkspacePanes)
  BY HierarchyParts, MovedKeeps
<1> HIDE DEF b
<1>2. b \in Hierarchies /\ Owned(b) = Owned(a)
  BY <1>1 DEF Hierarchies, Owned
<1>3. Focused(b) = Focused(a)
  BY <1>1, <1>2, DownTheActive DEF Focused
<1>4. QED
  BY <1>2, <1>3 DEF b

LEMMA GroupMoved ==
  ASSUME NEW a \in Hierarchies, NEW id, NEW i, CanMove(Current(a), id, i)
  PROVE  LET b == WithWorkspace(a, Moved(Current(a), id, i))
         IN  b \in Hierarchies /\ Owned(b) = Owned(a) /\ Focused(b) = Focused(a)
<1> DEFINE c == Current(a)
           x == Moved(c, id, i)
           b == WithWorkspace(a, x)
<1>1. c \in WorkspaceSet /\ WorkspacePanes[c] \subseteq Owned(a)
  BY DownTheActive
<1> HIDE DEF c
<1>2. /\ x \in WorkspaceSet /\ x.id = c.id /\ Current(x) = Current(c)
      /\ WorkspacePanes[x] = WorkspacePanes[c]
  <2>1. CanMove(c, id, i)
    BY DEF c
  <2>2. QED
    BY <1>1, <2>1, NodeMoved DEF WorkspaceSet, WorkspacePanes
<1> HIDE DEF x
<1>3. /\ b \in Hierarchies /\ Current(b) = x
      /\ Owned(b) = (Owned(a) \ WorkspacePanes[Current(a)]) \union WorkspacePanes[x]
  BY <1>1, <1>2, WithWorkspaceKeeps DEF c
<1> HIDE DEF b
<1>4. Owned(b) = Owned(a)
  BY <1>1, <1>2, <1>3 DEF c
<1>5. ActiveTab(b) = ActiveTab(a)
  <2>1. ActiveTab(b) = Current(Current(Current(b))) /\ ActiveTab(a) = Current(Current(c))
    BY <1>3, DownTheActive DEF c
  <2>2. QED
    BY <1>2, <1>3, <2>1
<1>6. QED
  BY <1>3, <1>4, <1>5 DEF b, x, c, Focused

LEMMA TabMoved ==
  ASSUME NEW a \in Hierarchies, NEW id, NEW i, CanMove(Current(Current(a)), id, i)
  PROVE  LET b == WithGroup(a, Moved(Current(Current(a)), id, i))
         IN  b \in Hierarchies /\ Owned(b) = Owned(a) /\ Focused(b) = Focused(a)
<1> DEFINE c == Current(Current(a))
           x == Moved(c, id, i)
           b == WithGroup(a, x)
<1>1. c \in GroupSet /\ GroupPanes[c] \subseteq Owned(a)
  BY DownTheActive
<1> HIDE DEF c
<1>2. /\ x \in GroupSet /\ x.id = c.id /\ Current(x) = Current(c)
      /\ GroupPanes[x] = GroupPanes[c]
  <2>1. CanMove(c, id, i)
    BY DEF c
  <2>2. QED
    BY <1>1, <2>1, NodeMoved DEF GroupSet, GroupPanes
<1> HIDE DEF x
<1>3. /\ b \in Hierarchies /\ Current(Current(b)) = x
      /\ Owned(b) = (Owned(a) \ GroupPanes[Current(Current(a))]) \union GroupPanes[x]
  BY <1>1, <1>2, WithGroupKeeps DEF c
<1> HIDE DEF b
<1>4. Owned(b) = Owned(a)
  BY <1>1, <1>2, <1>3 DEF c
<1>5. ActiveTab(b) = ActiveTab(a)
  <2>1. ActiveTab(b) = Current(Current(Current(b))) /\ ActiveTab(a) = Current(c)
    BY <1>3, DownTheActive DEF c
  <2>2. QED
    BY <1>2, <1>3, <2>1
<1>6. QED
  BY <1>3, <1>4, <1>5 DEF b, x, c, Focused

LEMMA WorkspaceDropped ==
  ASSUME NEW a \in Hierarchies, CanRemove(a, a.active)
  PROVE  LET b == Removed(a, a.active)
         IN  b \in Hierarchies /\ Owned(b) = Owned(a) \ WorkspacePanes[Current(a)]
<1> DEFINE b == Removed(a, a.active)
<1>1. /\ b \in Windows(WorkspaceSet) /\ Good(b, WorkspacePanes)
      /\ Held(b.items, WorkspacePanes)
           = Held(a.items, WorkspacePanes) \ WorkspacePanes[a.items[a.active]]
  BY HierarchyParts, RemovedKeeps
<1> HIDE DEF b
<1>2. QED
  BY <1>1 DEF b, Hierarchies, Owned, Current

LEMMA GroupDropped ==
  ASSUME NEW a \in Hierarchies, CanRemove(Current(a), Current(a).active)
  PROVE  LET b == WithWorkspace(a, Removed(Current(a), Current(a).active))
         IN  /\ b \in Hierarchies /\ Owned(b) = Owned(a) \ GroupPanes[Current(Current(a))]
             /\ WorkspacePanes[Current(b)] \subseteq WorkspacePanes[Current(a)]
<1> DEFINE c == Current(a)
           x == Removed(c, c.active)
           b == WithWorkspace(a, x)
<1>1. /\ c \in WorkspaceSet /\ WorkspacePanes[c] \subseteq Owned(a)
      /\ CanRemove(c, c.active)
  BY DownTheActive
<1> HIDE DEF c
<1>2. /\ x \in WorkspaceSet /\ x.id = c.id
      /\ WorkspacePanes[x] = WorkspacePanes[c] \ GroupPanes[Current(c)]
  BY <1>1, NodeRemoved DEF WorkspaceSet, WorkspacePanes, Current
<1> HIDE DEF x
<1>3. /\ b \in Hierarchies /\ Current(b) = x
      /\ Owned(b) = (Owned(a) \ WorkspacePanes[Current(a)]) \union WorkspacePanes[x]
  BY <1>1, <1>2, WithWorkspaceKeeps DEF c
<1> HIDE DEF b
<1>4. GroupPanes[Current(c)] \subseteq WorkspacePanes[c]
  BY DownTheActive DEF c
<1>5. Owned(b) = Owned(a) \ GroupPanes[Current(c)]
  BY <1>1, <1>2, <1>3, <1>4 DEF c
<1>6. QED
  BY <1>2, <1>3, <1>5 DEF b, x, c

LEMMA TabDropped ==
  ASSUME NEW a \in Hierarchies, CanRemove(Current(Current(a)), Current(Current(a)).active)
  PROVE  LET b == WithGroup(a, Removed(Current(Current(a)), Current(Current(a)).active))
         IN  /\ b \in Hierarchies /\ Owned(b) = Owned(a) \ TabPanes[ActiveTab(a)]
             /\ GroupPanes[Current(Current(b))] \subseteq GroupPanes[Current(Current(a))]
<1> DEFINE c == Current(Current(a))
           x == Removed(c, c.active)
           b == WithGroup(a, x)
<1>1. /\ c \in GroupSet /\ GroupPanes[c] \subseteq Owned(a)
      /\ CanRemove(c, c.active)
  BY DownTheActive
<1> HIDE DEF c
<1>2. /\ x \in GroupSet /\ x.id = c.id
      /\ GroupPanes[x] = GroupPanes[c] \ TabPanes[Current(c)]
  BY <1>1, NodeRemoved DEF GroupSet, GroupPanes, Current
<1> HIDE DEF x
<1>3. /\ b \in Hierarchies /\ Current(Current(b)) = x
      /\ Owned(b) = (Owned(a) \ GroupPanes[Current(Current(a))]) \union GroupPanes[x]
  BY <1>1, <1>2, WithGroupKeeps DEF c
<1> HIDE DEF b
<1>4. TabPanes[Current(c)] \subseteq GroupPanes[c] /\ ActiveTab(a) = Current(c)
  BY DownTheActive DEF c
<1>5. Owned(b) = Owned(a) \ TabPanes[Current(c)]
  BY <1>1, <1>2, <1>3, <1>4 DEF c
<1>6. QED
  BY <1>2, <1>3, <1>4, <1>5 DEF b, x, c

--------------------------------------------------------------------------------
(* Closing a pane. *)

\* No container is without panes.
LEMMA NoneEmpty ==
  /\ \A t \in TabSet : TabPanes[t] # {}
  /\ \A g \in GroupSet : GroupPanes[g] # {}
  /\ \A w \in WorkspaceSet : WorkspacePanes[w] # {}
<1>1. \A t \in TabSet : TabPanes[t] # {}
  BY DEF TabSet, TabPanes
<1>2. ASSUME NEW g \in GroupSet PROVE GroupPanes[g] # {}
  <2>1. TabPanes[g.items[g.active]] \subseteq Held(g.items, TabPanes)
    BY GroupParts, HeldOf
  <2>2. QED
    BY <1>1, <2>1, GroupParts
<1>3. ASSUME NEW w \in WorkspaceSet PROVE WorkspacePanes[w] # {}
  <2>1. GroupPanes[w.items[w.active]] \subseteq Held(w.items, GroupPanes)
    BY WorkspaceParts, HeldOf
  <2>2. QED
    BY <1>2, <2>1, WorkspaceParts
<1>4. QED
  BY <1>1, <1>2, <1>3

LEMMA NotMany ==
  ASSUME NEW n \in Nat \ {0}, ~ (n > 1)
  PROVE  n = 1 /\ 1 .. n = {1}
OBVIOUS

\* A container with one element has its panes, and one with a single pane has no more
\* than one element.
LEMMA Lone ==
  ASSUME NEW S, NEW c \in Nodes(S) \union Windows(S), NEW content, Good(c, content)
  PROVE  /\ ~ (Len(c.items) > 1) => /\ c.items[c.active] = c.items[1] /\ Len(c.items) = 1
                                    /\ Held(c.items, content) = content[Current(c)]
         /\ \A p : (\A x \in S : content[x] # {}) /\ Held(c.items, content) \subseteq {p}
                     => Len(c.items) = 1
<1>1. /\ Len(c.items) \in Nat \ {0} /\ DOMAIN c.items = 1 .. Len(c.items)
      /\ c.active \in 1 .. Len(c.items) /\ \A i \in 1 .. Len(c.items) : c.items[i] \in S
  BY Sized
<1>2. ASSUME ~ (Len(c.items) > 1)
      PROVE  /\ c.items[c.active] = c.items[1] /\ Len(c.items) = 1
             /\ Held(c.items, content) = content[Current(c)]
  <2>1. Len(c.items) = 1 /\ 1 .. Len(c.items) = {1}
    BY <1>1, <1>2, NotMany
  <2>2. c.active = 1 /\ DOMAIN c.items = {1}
    BY <1>1, <2>1
  <2>3. QED
    BY <2>1, <2>2 DEF Held, HeldAt, Current
<1>3. ASSUME NEW p, \A x \in S : content[x] # {}, Held(c.items, content) \subseteq {p}
      PROVE  Len(c.items) = 1
  <2>1. SUFFICES ASSUME Len(c.items) > 1 PROVE FALSE
    BY <1>1, NotMany
  <2>2. 1 \in DOMAIN c.items /\ 2 \in DOMAIN c.items
    BY <1>1, <2>1
  <2>3. /\ content[c.items[1]] \subseteq {p} /\ content[c.items[1]] # {}
        /\ content[c.items[2]] \subseteq {p} /\ content[c.items[2]] # {}
    BY <1>1, <1>3, <2>2, HeldOf
  <2>4. content[c.items[1]] \intersect content[c.items[2]] = {}
    BY <2>2 DEF Good, Parted
  <2>5. QED
    BY <2>3, <2>4
<1>4. QED
  BY <1>2, <1>3

LEMMA LoneLeaf ==
  ASSUME NEW t \in TabSet
  PROVE  /\ ~ (Len(t.panes) > 1) => TabPanes[t] = {t.focused}
         /\ \A p : TabPanes[t] \subseteq {p} => Len(t.panes) = 1
<1>1. /\ Len(t.panes) \in Nat \ {0} /\ DOMAIN t.panes = 1 .. Len(t.panes)
      /\ TabPanes[t] = ToSet(t.panes) /\ t.focused \in ToSet(t.panes) /\ Distinct(t.panes)
  BY TabParts DEF TabSet
<1>2. ASSUME ~ (Len(t.panes) > 1) PROVE TabPanes[t] = {t.focused}
  <2>1. DOMAIN t.panes = {1}
    BY <1>1, <1>2
  <2>2. QED
    BY <1>1, <2>1 DEF ToSet
<1>3. ASSUME NEW p, TabPanes[t] \subseteq {p} PROVE Len(t.panes) = 1
  <2>1. SUFFICES ASSUME Len(t.panes) > 1 PROVE FALSE
    BY <1>1, NotMany
  <2>2. 1 \in DOMAIN t.panes /\ 2 \in DOMAIN t.panes
    BY <1>1, <2>1
  <2>3. t.panes[1] = p /\ t.panes[2] = p
    BY <1>1, <1>3, <2>2 DEF ToSet
  <2>4. QED
    BY <1>1, <2>2, <2>3 DEF Distinct
<1>4. QED
  BY <1>2, <1>3

\* The only pane of the window is the one whose closing is left to the host.
LEMMA LastPaneIsForHost ==
  ASSUME NEW a \in Hierarchies, NEW p, Owned(a) = {p}
  PROVE  HostCloseRequired(a, p)
<1> DEFINE at == PlaceOf(a, p)
<1>1. at \in Places(a)
  BY PlaceFound
<1> HIDE DEF at
<1>2. /\ WorkspaceAt(a, at) \in WorkspaceSet /\ GroupAt(a, at) \in GroupSet
      /\ TabAt(a, at) \in TabSet
      /\ TabPanes[TabAt(a, at)] \subseteq {p} /\ GroupPanes[GroupAt(a, at)] \subseteq {p}
      /\ WorkspacePanes[WorkspaceAt(a, at)] \subseteq {p}
  BY <1>1, PlaceParts
<1>3. Len(TabAt(a, at).panes) = 1
  BY <1>2, LoneLeaf
<1>4. Len(GroupAt(a, at).items) = 1
  <2> DEFINE g == GroupAt(a, at)
  <2>1. /\ g \in Nodes(TabSet) \union Windows(TabSet) /\ Good(g, TabPanes)
        /\ Held(g.items, TabPanes) \subseteq {p}
    BY <1>2, GroupParts
  <2> HIDE DEF g
  <2>2. Len(g.items) = 1
    BY <2>1, NoneEmpty, Lone
  <2>3. QED
    BY <2>2 DEF g
<1>5. Len(WorkspaceAt(a, at).items) = 1
  <2> DEFINE w == WorkspaceAt(a, at)
  <2>1. /\ w \in Nodes(GroupSet) \union Windows(GroupSet) /\ Good(w, GroupPanes)
        /\ Held(w.items, GroupPanes) \subseteq {p}
    BY <1>2, WorkspaceParts
  <2> HIDE DEF w
  <2>2. Len(w.items) = 1
    BY ZenonT(40), <2>1, NoneEmpty, Lone
  <2>3. QED
    BY <2>2 DEF w
<1>6. Len(a.items) = 1
  <2>1. /\ a \in Nodes(WorkspaceSet) \union Windows(WorkspaceSet) /\ Good(a, WorkspacePanes)
        /\ Held(a.items, WorkspacePanes) \subseteq {p}
    BY HierarchyParts DEF Owned
  <2>2. QED
    BY ZenonT(40), <2>1, NoneEmpty, Lone
<1>7. CloseScope(a, p) = "workspace"
  BY <1>3, <1>4, <1>5 DEF CloseScope, WorkspaceAt, GroupAt, at
<1>8. QED
  BY <1>6, <1>7 DEF HostCloseRequired


\* Closing the focused pane takes it out and nothing else, and the focus stays in the
\* same tab, group and workspace if any pane is left there.
StaysNear(a, b) ==
  \A near \in {TabPanes[ActiveTab(a)], GroupPanes[Current(Current(a))],
               WorkspacePanes[Current(a)]} :
    near # {Focused(a)} => Focused(b) \in near

LEMMA FocusedClosed ==
  ASSUME NEW a \in Hierarchies, ~ HostCloseRequired(a, Focused(a))
  PROVE  LET b == PaneClosed(a, Focused(a))
         IN  b \in Hierarchies /\ Owned(b) = Owned(a) \ {Focused(a)} /\ StaysNear(a, b)
<1> DEFINE p == Focused(a)
           tab == ActiveTab(a)
           group == Current(Current(a))
           workspace == Current(a)
           at == ActivePlace(a)
           b == PaneClosed(a, p)
<1>1. /\ tab \in TabSet /\ group \in GroupSet /\ workspace \in WorkspaceSet
      /\ p \in TabPanes[tab] /\ p = tab.focused
      /\ TabPanes[tab] \subseteq GroupPanes[group]
      /\ GroupPanes[group] \subseteq WorkspacePanes[workspace]
      /\ WorkspacePanes[workspace] \subseteq Owned(a)
      /\ tab = Current(group) /\ p \in Panes
  BY DownTheActive DEF Focused
<1>2. /\ PlaceOf(a, p) = at /\ at[1] = a.active /\ at[2] = workspace.active
      /\ at[3] = group.active
      /\ a.items[at[1]] = workspace /\ a.items[at[1]].items[at[2]] = group
      /\ TabAt(a, at) = tab
  BY FocusedPlace DEF ActivePlace, Current, TabAt, ActiveTab
<1>3. /\ a.active \in DOMAIN a.items /\ workspace.active \in DOMAIN workspace.items
      /\ group.active \in DOMAIN group.items
  BY ActivePlaceIsPlace
<1>4. CloseScope(a, p) = IF Len(tab.panes) > 1 THEN "pane"
                         ELSE IF Len(group.items) > 1 THEN "tab"
                         ELSE IF Len(workspace.items) > 1 THEN "group"
                         ELSE "workspace"
  BY <1>2 DEF CloseScope
<1>5. ~ (Len(tab.panes) > 1) => TabPanes[tab] = {p}
  BY <1>1, LoneLeaf
<1>6. ~ (Len(group.items) > 1) => GroupPanes[group] = TabPanes[tab]
  BY <1>1, GroupParts, Lone
<1>7. ~ (Len(workspace.items) > 1) => WorkspacePanes[workspace] = GroupPanes[group]
  BY <1>1, WorkspaceParts, Lone
<1>8. CASE Len(tab.panes) > 1
  <2> DEFINE x == PaneRemoved(tab, p)
  <2>1. b = WithTab(a, x)
    <3>1. b = [a EXCEPT !.items[at[1]].items[at[2]].items[at[3]] = x]
      <4>1. /\ PlaceOf(a, p) = at /\ CloseScope(a, p) = "pane"
            /\ a.items[at[1]].items[at[2]].items[at[3]] = tab
        BY <1>2, <1>4, <1>8 DEF TabAt
      <4> HIDE DEF at, p, tab
      <4>2. QED
        BY <4>1 DEF PaneClosed
    <3>2. WithTab(a, x) = [a EXCEPT !.items[at[1]].items[at[2]].items[at[3]] = x]
      <4>1. /\ a.active = at[1] /\ Current(a).active = at[2]
            /\ Current(Current(a)).active = at[3]
            /\ Current(a) = a.items[at[1]] /\ Current(Current(a)) = a.items[at[1]].items[at[2]]
        BY <1>2
      <4> HIDE DEF at, x
      <4>2. QED
        BY <4>1 DEF WithTab, WithGroup, WithWorkspace
    <3>3. QED
      BY <3>1, <3>2
  <2>2. x \in TabSet /\ TabPanes[x] = TabPanes[tab] \ {p} /\ x.id = tab.id
    <3> HIDE DEF tab, p
    <3>1. p \in ToSet(tab.panes)
      BY <1>1, TabParts
    <3>2. QED
      BY <1>1, <1>8, <3>1, PaneRemovedKeeps
  <2> HIDE DEF x, b
  <2>3. /\ b \in Hierarchies /\ ActiveTab(b) = x
        /\ Owned(b) = (Owned(a) \ TabPanes[tab]) \union TabPanes[x]
    BY <2>1, <2>2, WithTabKeeps
  <2>4. Owned(b) = Owned(a) \ {p}
    BY <1>1, <2>2, <2>3
  <2>5. Focused(b) \in TabPanes[x]
    BY <2>3, DownTheActive
  <2>6. QED
    BY <1>1, <2>2, <2>3, <2>4, <2>5 DEF b, StaysNear
<1>9. CASE ~ (Len(tab.panes) > 1) /\ Len(group.items) > 1
  <2>1. CanRemove(group, group.active)
    BY <1>3, <1>9 DEF CanRemove
  <2>2. b = WithGroup(a, Removed(group, group.active))
    BY <1>2, <1>4, <1>9 DEF PaneClosed, WithGroup, WithWorkspace
  <2> HIDE DEF b
  <2>3. /\ b \in Hierarchies /\ Owned(b) = Owned(a) \ TabPanes[tab]
        /\ GroupPanes[Current(Current(b))] \subseteq GroupPanes[group]
    BY <2>1, <2>2, TabDropped
  <2>4. Focused(b) \in GroupPanes[group]
    BY <2>3, DownTheActive
  <2>5. QED
    BY <1>1, <1>5, <1>9, <2>3, <2>4 DEF b, StaysNear
<1>10. CASE ~ (Len(tab.panes) > 1) /\ ~ (Len(group.items) > 1) /\ Len(workspace.items) > 1
  <2>1. CanRemove(workspace, workspace.active)
    BY <1>3, <1>10 DEF CanRemove
  <2>2. b = WithWorkspace(a, Removed(workspace, workspace.active))
    BY <1>2, <1>4, <1>10 DEF PaneClosed, WithWorkspace
  <2> HIDE DEF b
  <2>3. /\ b \in Hierarchies /\ Owned(b) = Owned(a) \ GroupPanes[group]
        /\ WorkspacePanes[Current(b)] \subseteq WorkspacePanes[workspace]
    BY <2>1, <2>2, GroupDropped
  <2>4. Focused(b) \in WorkspacePanes[workspace]
    BY <2>3, DownTheActive
  <2>5. QED
    BY <1>1, <1>5, <1>6, <1>10, <2>3, <2>4 DEF b, StaysNear
<1>11. CASE /\ ~ (Len(tab.panes) > 1) /\ ~ (Len(group.items) > 1)
            /\ ~ (Len(workspace.items) > 1)
  <2>1. CloseScope(a, p) = "workspace"
    BY <1>4, <1>11
  <2>2. CanRemove(a, a.active)
    <3>1. Len(a.items) # 1
      BY <2>1 DEF HostCloseRequired
    <3>2. Len(a.items) \in Nat \ {0}
      BY HierarchyParts, Sized
    <3>3. QED
      BY <1>3, <3>1, <3>2, NotMany DEF CanRemove
  <2>3. b = Removed(a, a.active)
    BY <1>2, <2>1 DEF PaneClosed
  <2> HIDE DEF b
  <2>4. b \in Hierarchies /\ Owned(b) = Owned(a) \ WorkspacePanes[workspace]
    BY <2>2, <2>3, WorkspaceDropped
  <2>5. QED
    BY <1>5, <1>6, <1>7, <1>11, <2>4 DEF b, StaysNear
<1>12. QED
  BY <1>8, <1>9, <1>10, <1>11

\* The neighbours of the focused pane are those of the three containers it is in.
LEMMA NeighboursAre ==
  ASSUME NEW a \in Hierarchies
  PROVE  Neighbours(a, Focused(a))
           = {WorkspacePanes[Current(a)], GroupPanes[Current(Current(a))],
              TabPanes[ActiveTab(a)]}
<1> DEFINE at == ActivePlace(a)
           within(n) == UNION {ToSet(TabAt(a, bt).panes) :
                               bt \in {x \in Places(a) : \A i \in 1 .. n : x[i] = at[i]}}
<1>1. /\ at \in Places(a) /\ at[1] = a.active /\ at[2] = Current(a).active
      /\ at[3] = Current(Current(a)).active
      /\ WorkspaceAt(a, at) = Current(a) /\ GroupAt(a, at) = Current(Current(a))
      /\ TabAt(a, at) = ActiveTab(a)
  BY ActivePlaceIsPlace DEF ActivePlace, Current, WorkspaceAt, GroupAt, ActiveTab
<1>2. /\ at[1] \in DOMAIN a.items /\ at[2] \in DOMAIN a.items[at[1]].items
      /\ a.items[at[1]] = Current(a) /\ a.items[at[1]].items[at[2]] = Current(Current(a))
  BY <1>1, PlaceParts DEF WorkspaceAt, GroupAt
<1>3. Neighbours(a, Focused(a)) = {within(1), within(2), within(3)}
  BY FocusedPlace DEF Neighbours
<1> HIDE DEF at
<1>4. within(1) = WorkspacePanes[Current(a)]
  <2>1. ASSUME NEW p \in within(1) PROVE p \in WorkspacePanes[Current(a)]
    <3>1. PICK bt \in Places(a) : bt[1] = at[1] /\ p \in ToSet(TabAt(a, bt).panes)
      OBVIOUS
    <3>2. WorkspaceAt(a, bt) = WorkspaceAt(a, at)
      BY <3>1 DEF WorkspaceAt
    <3>3. QED
      BY <1>1, <3>1, <3>2, PlaceParts
  <2>2. ASSUME NEW p \in WorkspacePanes[Current(a)] PROVE p \in within(1)
    <3>1. PICK bt \in Places(a) : bt[1] = at[1] /\ p \in ToSet(TabAt(a, bt).panes)
      BY <1>2, PlaceInWorkspace
    <3>2. \A i \in 1 .. 1 : bt[i] = at[i]
      BY <3>1
    <3>3. QED
      BY <3>1, <3>2
  <2>3. QED
    BY <2>1, <2>2
<1>5. within(2) = GroupPanes[Current(Current(a))]
  <2>1. ASSUME NEW p \in within(2) PROVE p \in GroupPanes[Current(Current(a))]
    <3>1. PICK bt \in Places(a) :
            bt[1] = at[1] /\ bt[2] = at[2] /\ p \in ToSet(TabAt(a, bt).panes)
      OBVIOUS
    <3>2. GroupAt(a, bt) = GroupAt(a, at)
      BY <3>1 DEF GroupAt
    <3>3. QED
      BY <1>1, <3>1, <3>2, PlaceParts
  <2>2. ASSUME NEW p \in GroupPanes[Current(Current(a))] PROVE p \in within(2)
    <3>1. PICK bt \in Places(a) :
            bt[1] = at[1] /\ bt[2] = at[2] /\ p \in ToSet(TabAt(a, bt).panes)
      BY <1>2, PlaceInGroup
    <3>2. \A i \in 1 .. 2 : bt[i] = at[i]
      BY <3>1
    <3>3. QED
      BY <3>1, <3>2
  <2>3. QED
    BY <2>1, <2>2
<1>6. within(3) = TabPanes[ActiveTab(a)]
  <2>1. ASSUME NEW p \in within(3) PROVE p \in TabPanes[ActiveTab(a)]
    <3>1. PICK bt \in Places(a) :
            bt[1] = at[1] /\ bt[2] = at[2] /\ bt[3] = at[3] /\ p \in ToSet(TabAt(a, bt).panes)
      OBVIOUS
    <3>2. bt = at
      BY <1>1, <3>1, PlaceParts
    <3>3. QED
      BY <1>1, <3>1, <3>2, PlaceParts
  <2>2. ASSUME NEW p \in TabPanes[ActiveTab(a)] PROVE p \in within(3)
    BY <1>1, <2>2, PlaceParts
  <2>3. QED
    BY <2>1, <2>2
<1>7. QED
  BY <1>3, <1>4, <1>5, <1>6

\* ... and the host closes nothing else.
LEMMA HostClosesLastPane ==
  ASSUME NEW a \in Hierarchies, HostCloseRequired(a, Focused(a))
  PROVE  Owned(a) = {Focused(a)}
<1> DEFINE p == Focused(a)
           tab == ActiveTab(a)
           group == Current(Current(a))
           workspace == Current(a)
           at == ActivePlace(a)
<1>1. /\ tab \in TabSet /\ group \in GroupSet /\ workspace \in WorkspaceSet
      /\ p = tab.focused /\ tab = Current(group)
  BY DownTheActive DEF Focused
<1>2. /\ PlaceOf(a, p) = at
      /\ a.items[at[1]] = workspace /\ a.items[at[1]].items[at[2]] = group
      /\ TabAt(a, at) = tab
  BY FocusedPlace DEF ActivePlace, Current, TabAt, ActiveTab
<1>3. /\ ~ (Len(tab.panes) > 1) /\ ~ (Len(group.items) > 1) /\ ~ (Len(workspace.items) > 1)
      /\ Len(a.items) = 1
  <2>1. CloseScope(a, p) = "workspace" /\ Len(a.items) = 1
    BY DEF HostCloseRequired
  <2> HIDE DEF p, at, tab, group, workspace
  <2>2. QED
    BY <1>2, <2>1 DEF CloseScope
<1> HIDE DEF p, at, tab
<1>4. TabPanes[tab] = {p}
  BY <1>1, <1>3, LoneLeaf
<1>5. GroupPanes[group] = TabPanes[tab]
  BY <1>1, <1>3, GroupParts, Lone
<1>6. WorkspacePanes[workspace] = GroupPanes[group]
  BY <1>1, <1>3, WorkspaceParts, Lone
<1>7. Owned(a) = WorkspacePanes[workspace]
  <2>1. ~ (Len(a.items) > 1)
    BY <1>3
  <2>2. QED
    BY <2>1, HierarchyParts, Lone DEF Owned
<1>8. QED
  BY <1>4, <1>5, <1>6, <1>7 DEF p

LEMMA OwnedInPanes ==
  ASSUME NEW a \in Hierarchies
  PROVE  Owned(a) \subseteq Panes
<1>1. ASSUME NEW p \in Owned(a) PROVE p \in Panes
  BY PlaceFound, PlaceParts, TabParts
<1>2. QED
  BY <1>1

--------------------------------------------------------------------------------
(* New containers, and the names they take. *)

LEMMA Single ==
  ASSUME NEW S, NEW content, NEW x \in S, NEW c, c.items = <<x>>, c.active = 1
  PROVE  Good(c, content) /\ Held(c.items, content) = content[x] /\ Current(c) = x
<1>1. <<x>> # << >> /\ DOMAIN <<x>> = {1} /\ <<x>>[1] = x
  OBVIOUS
<1>2. Held(<<x>>, content) = content[x]
  BY <1>1 DEF Held, HeldAt
<1>3. QED
  BY <1>1, <1>2 DEF Good, Parted, Current

LEMMA NewNodes ==
  ASSUME NEW p \in Panes
  PROVE  /\ NewGroup(p) \in GroupSet /\ GroupPanes[NewGroup(p)] = {p} /\ NewGroup(p).id = p
         /\ NewWorkspace(p) \in WorkspaceSet /\ WorkspacePanes[NewWorkspace(p)] = {p}
         /\ NewWorkspace(p).id = p
         /\ NewApp(p) \in Hierarchies /\ Owned(NewApp(p)) = {p} /\ Focused(NewApp(p)) = p
<1> DEFINE t == NewTab(p)
           g == NewGroup(p)
           w == NewWorkspace(p)
           a == NewApp(p)
<1>1. t \in TabSet /\ TabPanes[t] = {p} /\ t.focused = p
  BY NewTabIsTab DEF NewTab
<1>2. /\ g \in Nodes(TabSet) /\ g.items = <<t>> /\ g.active = 1 /\ g.id = p
      /\ w.items = <<g>> /\ w.active = 1 /\ w.id = p
      /\ a.items = <<w>> /\ a.active = 1
  BY <1>1 DEF NewGroup, NewWorkspace, NewApp, Nodes
<1> HIDE DEF t
<1>3. Good(g, TabPanes) /\ Held(g.items, TabPanes) = TabPanes[t] /\ Current(g) = t
  BY <1>1, <1>2, Single
<1>4. g \in GroupSet
  BY <1>2, <1>3 DEF GroupSet, NodeSet
<1>5. GroupPanes[g] = {p}
  BY <1>1, <1>3, <1>4, GroupParts
<1>6. w \in Nodes(GroupSet)
  BY <1>4 DEF NewWorkspace, Nodes
<1> HIDE DEF g
<1>7. Good(w, GroupPanes) /\ Held(w.items, GroupPanes) = GroupPanes[g] /\ Current(w) = g
  BY <1>2, <1>4, Single
<1>8. w \in WorkspaceSet
  BY <1>6, <1>7 DEF WorkspaceSet, NodeSet
<1>9. WorkspacePanes[w] = {p}
  BY <1>5, <1>7, <1>8, WorkspaceParts
<1>10. a \in Windows(WorkspaceSet)
  BY <1>8 DEF NewApp, Windows
<1> HIDE DEF w, a
<1>11. /\ Good(a, WorkspacePanes) /\ Held(a.items, WorkspacePanes) = WorkspacePanes[w]
       /\ Current(a) = w
  BY <1>2, <1>8, Single
<1>12. a \in Hierarchies /\ Owned(a) = {p}
  BY <1>9, <1>10, <1>11 DEF Hierarchies, Owned
<1>13. Focused(a) = p
  BY <1>1, <1>3, <1>7, <1>11, <1>12, DownTheActive DEF Focused
<1>14. QED
  BY <1>2, <1>4, <1>5, <1>8, <1>9, <1>12, <1>13 DEF g, w, a

\* A fresh name is that of no pane, no session, and no container next to the new one.
LEMMA FreshParts ==
  ASSUME app \in Hierarchies, NEW p \in Fresh
  PROVE  /\ p \in Panes /\ p \notin Owned(app) /\ p \notin sessions
         /\ \A i \in DOMAIN app.items : app.items[i].id # p
         /\ \A i \in DOMAIN Current(app).items : Current(app).items[i].id # p
         /\ \A i \in DOMAIN Current(Current(app)).items : Current(Current(app)).items[i].id # p
<1>1. p \in Panes /\ p \notin Names(app) /\ p \notin sessions
  BY DEF Fresh
<1>2. p \notin Owned(app)
  BY <1>1, OwnedIsPanesOf DEF Names
<1>3. \A i \in DOMAIN app.items : app.items[i].id # p
  BY <1>1 DEF Names
<1>4. app.active \in DOMAIN app.items
  BY ActivePlaceIsPlace
<1>5. \A i \in DOMAIN Current(app).items : Current(app).items[i].id # p
  <2> DEFINE names(w) == {app.items[w].items[i].id : i \in DOMAIN app.items[w].items}
  <2>1. UNION {names(w) : w \in DOMAIN app.items} \subseteq Names(app)
    BY DEF Names
  <2>2. p \notin names(app.active)
    <3> HIDE DEF names
    <3>1. QED
      BY <1>1, <1>4, <2>1
  <2>3. QED
    BY <2>2 DEF Current
<1>6. ASSUME NEW i \in DOMAIN Current(Current(app)).items
      PROVE  Current(Current(app)).items[i].id # p
  <2> DEFINE at == <<app.active, Current(app).active, i>>
  <2>1. at \in Places(app)
    BY ActivePlaceIsPlace, PlacesAre DEF Current
  <2>2. TabAt(app, at) = Current(Current(app)).items[i]
    BY DEF TabAt, Current
  <2> HIDE DEF at
  <2>3. TabAt(app, at).id # p
    BY <1>1, <2>1 DEF Names
  <2>4. QED
    BY <2>2, <2>3
<1>7. QED
  BY <1>1, <1>2, <1>3, <1>5, <1>6


--------------------------------------------------------------------------------
(* The invariant: a well-formed hierarchy, and a session for the active    *)
(* surface while the window is up.                                         *)

NavInv ==
  /\ app \in Hierarchies
  /\ sessions \subseteq Panes /\ active \in Panes
  /\ open \in BOOLEAN /\ reply \in {"changed", "refused"}
  /\ ActiveHasSession

KeepsSessions ==
  open /\ open' =>
    /\ sessions \intersect PanesOf(app') \subseteq sessions'
    /\ PanesOf(app') \ PanesOf(app) \subseteq sessions'

\* What reconciling does for the sessions, whatever the handler did before.
LEMMA ReconciledInv ==
  ASSUME NavInv, open, NEW a \in Hierarchies, NEW s \in SUBSET Panes,
         sessions \subseteq s, Owned(a) \ Owned(app) \subseteq s,
         app' \in Hierarchies, Owned(app') = Owned(a), Reconciled(a, s),
         open' = open, reply' \in {"changed", "refused"}
  PROVE  NavInv' /\ KeepsSessions
<1>1. Focused(a) \in Owned(a) /\ Focused(a) \in Panes
  BY DownTheActive
<1>2. PanesOf(app') = Owned(a) /\ PanesOf(app) = Owned(app) /\ PanesOf(a) = Owned(a)
  BY OwnedIsPanesOf DEF NavInv
<1>3. active \in sessions
  BY DEF NavInv, ActiveHasSession
<1>4. /\ sessions' \subseteq Panes /\ active' \in Panes /\ active' \in sessions'
      /\ sessions \intersect Owned(a) \subseteq sessions'
      /\ Owned(a) \ Owned(app) \subseteq sessions'
  <2>1. CASE Focused(a) \in s
    BY <1>1, <1>2, <2>1 DEF Reconciled
  <2>2. CASE Focused(a) \notin s
    BY <1>3, <2>2 DEF Reconciled, NavInv
  <2>3. QED
    BY <2>1, <2>2
<1>5. NavInv'
  BY <1>4 DEF NavInv, ActiveHasSession
<1>6. KeepsSessions
  BY <1>2, <1>4 DEF KeepsSessions
<1>7. QED
  BY <1>5, <1>6

LEMMA ChangedInv ==
  ASSUME NavInv, NEW a \in Hierarchies, NEW s \in SUBSET Panes,
         sessions \subseteq s, Owned(a) \ Owned(app) \subseteq s, Changed(a, s)
  PROVE  NavInv' /\ KeepsSessions
<1>1. open /\ app' = a /\ Reconciled(a, s) /\ open' = open /\ reply' \in {"changed", "refused"}
  BY DEF Changed
<1>2. QED
  BY <1>1, ReconciledInv

LEMMA RefusedInv ==
  ASSUME NavInv, NEW a \in Hierarchies, Owned(a) = Owned(app), Refused(a)
  PROVE  NavInv' /\ KeepsSessions
<1>1. PanesOf(app') = PanesOf(app)
  BY OwnedIsPanesOf DEF Refused, NavInv
<1>2. NavInv'
  BY DEF Refused, NavInv, ActiveHasSession
<1>3. KeepsSessions
  BY <1>1 DEF Refused, KeepsSessions
<1>4. QED
  BY <1>2, <1>3

\* A handler that adds no pane keeps the sessions it has.
LEMMA NoNewPane ==
  ASSUME NavInv, NEW a \in Hierarchies, Owned(a) \subseteq Owned(app), Changed(a, sessions)
  PROVE  NavInv' /\ KeepsSessions
<1>1. sessions \in SUBSET Panes /\ Owned(a) \ Owned(app) \subseteq sessions
  BY DEF NavInv
<1>2. QED
  BY <1>1, ChangedInv

\* ... and one that adds a pane has started its session before.
LEMMA NewPane ==
  ASSUME NavInv, NEW p \in Fresh, NEW a \in Hierarchies, Owned(a) = Owned(app) \union {p},
         Changed(a, sessions \union {p})
  PROVE  NavInv' /\ KeepsSessions
<1>1. p \in Panes
  BY DEF Fresh
<1>2. sessions \union {p} \in SUBSET Panes /\ Owned(a) \ Owned(app) \subseteq sessions \union {p}
  BY <1>1 DEF NavInv
<1>3. QED
  BY <1>2, ChangedInv

LEMMA CreateInv ==
  ASSUME NavInv, Create
  PROVE  NavInv' /\ KeepsSessions
<1>0. app \in Hierarchies
  BY DEF NavInv
<1>1. CASE CreateWorkspace
  <2>1. PICK p \in Fresh : Changed(Appended(app, NewWorkspace(p)), sessions \union {p})
    BY <1>1 DEF CreateWorkspace
  <2> DEFINE x == NewWorkspace(p)
             a == Appended(app, x)
  <2>2. x \in WorkspaceSet /\ WorkspacePanes[x] = {p} /\ x.id = p
    BY <1>0, FreshParts, NewNodes
  <2> HIDE DEF x
  <2>3. /\ \A i \in DOMAIN app.items : app.items[i].id # x.id
        /\ WorkspacePanes[x] \intersect Held(app.items, WorkspacePanes) = {}
    BY <1>0, <2>2, FreshParts DEF Owned
  <2>4. /\ app \in Nodes(WorkspaceSet) \union Windows(WorkspaceSet)
        /\ app \in Windows(WorkspaceSet) /\ Good(app, WorkspacePanes)
    BY <1>0, HierarchyParts
  <2>5. /\ a \in Windows(WorkspaceSet) /\ Good(a, WorkspacePanes)
        /\ Held(a.items, WorkspacePanes)
             = Held(app.items, WorkspacePanes) \union WorkspacePanes[x]
    BY <2>2, <2>3, <2>4, AppendedKeeps
  <2>6. a \in Hierarchies /\ Owned(a) = Owned(app) \union {p}
    BY <2>2, <2>5 DEF Hierarchies, Owned
  <2>7. Changed(a, sessions \union {p})
    BY <2>1 DEF x
  <2> HIDE DEF a
  <2>8. QED
    BY <2>6, <2>7, NewPane
<1>2. CASE CreateGroup
  <2>1. PICK p \in Fresh : Changed(WithWorkspace(app, Appended(Current(app), NewGroup(p))),
                                   sessions \union {p})
    BY <1>2 DEF CreateGroup
  <2> DEFINE c == Current(app)
             n == NewGroup(p)
             x == Appended(c, n)
             a == WithWorkspace(app, x)
  <2>2. /\ n \in GroupSet /\ GroupPanes[n] = {p} /\ n.id = p /\ p \notin Owned(app)
        /\ \A i \in DOMAIN c.items : c.items[i].id # p
        /\ c \in WorkspaceSet /\ WorkspacePanes[c] \subseteq Owned(app)
    BY <1>0, FreshParts, NewNodes, DownTheActive
  <2> HIDE DEF c, n
  <2>3. /\ x \in WorkspaceSet /\ x.id = c.id
        /\ WorkspacePanes[x] = WorkspacePanes[c] \union {p}
    <3>1. /\ \A i \in DOMAIN c.items : c.items[i].id # n.id
          /\ GroupPanes[n] \intersect WorkspacePanes[c] = {}
      BY <2>2
    <3>2. QED
      BY <2>2, <3>1, NodeAppended DEF WorkspaceSet, WorkspacePanes
  <2> HIDE DEF x
  <2>4. x.id = Current(app).id
        /\ WorkspacePanes[x] \intersect (Owned(app) \ WorkspacePanes[Current(app)]) = {}
    BY <2>2, <2>3 DEF c
  <2>5. /\ a \in Hierarchies
        /\ Owned(a) = (Owned(app) \ WorkspacePanes[Current(app)]) \union WorkspacePanes[x]
    BY <1>0, <2>3, <2>4, WithWorkspaceKeeps
  <2>6. Owned(a) = Owned(app) \union {p}
    BY <2>2, <2>3, <2>5 DEF c
  <2>7. Changed(a, sessions \union {p})
    BY <2>1 DEF x, c, n
  <2> HIDE DEF a
  <2>8. QED
    BY <2>5, <2>6, <2>7, NewPane
<1>3. CASE CreateTab
  <2>1. PICK p \in Fresh : Changed(WithGroup(app, Appended(Current(Current(app)), NewTab(p))),
                                   sessions \union {p})
    BY <1>3 DEF CreateTab
  <2> DEFINE c == Current(Current(app))
             n == NewTab(p)
             x == Appended(c, n)
             a == WithGroup(app, x)
  <2>2. /\ n \in TabSet /\ TabPanes[n] = {p} /\ n.id = p /\ p \notin Owned(app)
        /\ \A i \in DOMAIN c.items : c.items[i].id # p
        /\ c \in GroupSet /\ GroupPanes[c] \subseteq Owned(app)
    BY <1>0, FreshParts, NewTabIsTab, DownTheActive
  <2> HIDE DEF c, n
  <2>3. /\ x \in GroupSet /\ x.id = c.id
        /\ GroupPanes[x] = GroupPanes[c] \union {p}
    <3>1. /\ \A i \in DOMAIN c.items : c.items[i].id # n.id
          /\ TabPanes[n] \intersect GroupPanes[c] = {}
      BY <2>2
    <3>2. QED
      BY <2>2, <3>1, NodeAppended DEF GroupSet, GroupPanes
  <2> HIDE DEF x
  <2>4. x.id = Current(Current(app)).id
        /\ GroupPanes[x] \intersect (Owned(app) \ GroupPanes[Current(Current(app))]) = {}
    BY <2>2, <2>3 DEF c
  <2>5. /\ a \in Hierarchies
        /\ Owned(a) = (Owned(app) \ GroupPanes[Current(Current(app))]) \union GroupPanes[x]
    BY <1>0, <2>3, <2>4, WithGroupKeeps
  <2>6. Owned(a) = Owned(app) \union {p}
    BY <2>2, <2>3, <2>5 DEF c
  <2>7. Changed(a, sessions \union {p})
    BY <2>1 DEF x, c, n
  <2> HIDE DEF a
  <2>8. QED
    BY <2>5, <2>6, <2>7, NewPane
<1>4. QED
  BY <1>1, <1>2, <1>3 DEF Create

LEMMA SelectInv ==
  ASSUME NavInv, Select
  PROVE  NavInv' /\ KeepsSessions
<1>0. app \in Hierarchies
  BY DEF NavInv
<1>1. ASSUME NEW i \in DOMAIN app.items, SelectWorkspace(i) PROVE NavInv' /\ KeepsSessions
  BY <1>0, <1>1, WorkspaceSelected, NoNewPane DEF SelectWorkspace
<1>2. ASSUME NEW i \in DOMAIN Current(app).items, SelectGroup(i)
      PROVE  NavInv' /\ KeepsSessions
  BY <1>0, <1>2, GroupSelected, NoNewPane DEF SelectGroup
<1>3. ASSUME NEW i \in DOMAIN Current(Current(app)).items, SelectTab(i)
      PROVE  NavInv' /\ KeepsSessions
  BY <1>0, <1>3, TabSelected, NoNewPane DEF SelectTab
<1>4. ASSUME NEW d \in Directions, CycleGroup(d) PROVE NavInv' /\ KeepsSessions
  <2> DEFINE c == Current(app)
             i == Wrapped(c.active, d, Len(c.items))
  <2>1. i \in DOMAIN c.items
    <3>1. c \in Nodes(GroupSet) \union Windows(GroupSet) /\ Good(c, GroupPanes)
      BY <1>0, HierarchyParts, WorkspaceParts
    <3> HIDE DEF c
    <3>2. /\ Len(c.items) \in Nat \ {0} /\ DOMAIN c.items = 1 .. Len(c.items)
          /\ c.active \in 1 .. Len(c.items) /\ d \in Int
      BY <3>1, Sized DEF Directions
    <3>3. QED
      BY <3>2, WrappedInRange
  <2>2. SelectGroup(i)
    BY <1>4 DEF CycleGroup, SelectGroup, Cycled
  <2>3. QED
    BY <1>2, <2>1, <2>2
<1>5. ASSUME NEW d \in Directions, CycleTab(d) PROVE NavInv' /\ KeepsSessions
  <2> DEFINE c == Current(Current(app))
             i == Wrapped(c.active, d, Len(c.items))
  <2>1. i \in DOMAIN c.items
    <3>1. c \in Nodes(TabSet) \union Windows(TabSet) /\ Good(c, TabPanes)
      BY <1>0, DownTheActive, GroupParts
    <3> HIDE DEF c
    <3>2. /\ Len(c.items) \in Nat \ {0} /\ DOMAIN c.items = 1 .. Len(c.items)
          /\ c.active \in 1 .. Len(c.items) /\ d \in Int
      BY <3>1, Sized DEF Directions
    <3>3. QED
      BY <3>2, WrappedInRange
  <2>2. SelectTab(i)
    BY <1>5 DEF CycleTab, SelectTab, Cycled
  <2>3. QED
    BY <1>3, <2>1, <2>2
<1>6. ASSUME NEW d \in Directions, CyclePane(d) PROVE NavInv' /\ KeepsSessions
  <2> DEFINE t == ActiveTab(app)
             x == FocusCycled(t, d)
  <2>1. Changed(WithTab(app, x), sessions)
    BY <1>6 DEF CyclePane
  <2>2. t \in TabSet
    BY <1>0, DownTheActive
  <2> HIDE DEF t
  <2>3. x \in TabSet /\ TabPanes[x] = TabPanes[t] /\ x.id = t.id
    BY <2>2, FocusCycledKeeps DEF Directions
  <2> HIDE DEF x
  <2>4. WithTab(app, x) \in Hierarchies /\ Owned(WithTab(app, x)) = Owned(app)
    <3>1. TabPanes[ActiveTab(app)] \subseteq Owned(app)
      BY <1>0, DownTheActive
    <3>2. /\ x.id = ActiveTab(app).id
          /\ TabPanes[x] \intersect (Owned(app) \ TabPanes[ActiveTab(app)]) = {}
      BY <2>3 DEF t
    <3>3. /\ WithTab(app, x) \in Hierarchies
          /\ Owned(WithTab(app, x))
               = (Owned(app) \ TabPanes[ActiveTab(app)]) \union TabPanes[x]
      BY <1>0, <2>3, <3>2, WithTabKeeps
    <3>4. QED
      BY <2>3, <3>1, <3>3 DEF t
  <2>5. QED
    BY <2>1, <2>4, NoNewPane
<1>7. QED
  BY <1>1, <1>2, <1>3, <1>4, <1>5, <1>6 DEF Select

\* Moves change no session, and the focus stays on the same pane.
LEMMA MoveInv ==
  ASSUME NavInv, Move
  PROVE  NavInv' /\ KeepsSessions /\ Focused(app') = Focused(app)
<1>0. app \in Hierarchies
  BY DEF NavInv
<1>1. PICK id \in Panes :
        \/ \E i \in DOMAIN app.items : MoveWorkspace(id, i)
        \/ \E i \in DOMAIN Current(app).items : MoveGroup(id, i)
        \/ \E i \in DOMAIN Current(Current(app)).items : MoveTab(id, i)
  BY DEF Move
<1>2. ASSUME NEW i, MoveWorkspace(id, i)
      PROVE  NavInv' /\ KeepsSessions /\ Focused(app') = Focused(app)
  BY <1>0, <1>2, WorkspaceMoved, NoNewPane DEF MoveWorkspace, Changed
<1>3. ASSUME NEW i, MoveGroup(id, i)
      PROVE  NavInv' /\ KeepsSessions /\ Focused(app') = Focused(app)
  BY <1>0, <1>3, GroupMoved, NoNewPane DEF MoveGroup, Changed
<1>4. ASSUME NEW i, MoveTab(id, i)
      PROVE  NavInv' /\ KeepsSessions /\ Focused(app') = Focused(app)
  BY <1>0, <1>4, TabMoved, NoNewPane DEF MoveTab, Changed
<1>5. QED
  BY <1>1, <1>2, <1>3, <1>4

\* Closing what is selected only takes panes out.
LEMMA CloseHere ==
  ASSUME NavInv, NEW a \in Hierarchies, Owned(a) = Owned(app),
         CloseTabHere(a) \/ CloseGroupHere(a) \/ CloseWorkspaceHere(a)
  PROVE  NavInv' /\ KeepsSessions
<1>1. CASE CloseTabHere(a)
  BY <1>1, TabDropped, NoNewPane DEF CloseTabHere
<1>2. CASE CloseGroupHere(a)
  BY <1>2, GroupDropped, NoNewPane DEF CloseGroupHere
<1>3. CASE CloseWorkspaceHere(a)
  BY <1>3, WorkspaceDropped, NoNewPane DEF CloseWorkspaceHere
<1>4. QED
  BY <1>1, <1>2, <1>3

LEMMA CloseInv ==
  ASSUME NavInv, Close
  PROVE  NavInv' /\ KeepsSessions
<1>0. app \in Hierarchies
  BY DEF NavInv
<1>1. ASSUME NEW i \in DOMAIN app.items, CloseWorkspace(i) PROVE NavInv' /\ KeepsSessions
  BY <1>0, <1>1, WorkspaceSelected, CloseHere DEF CloseWorkspace
<1>2. ASSUME NEW i \in DOMAIN Current(app).items, CloseGroup(i)
      PROVE  NavInv' /\ KeepsSessions
  BY <1>0, <1>2, GroupSelected, CloseHere DEF CloseGroup
<1>3. ASSUME NEW i \in DOMAIN Current(Current(app)).items, CloseTab(i)
      PROVE  NavInv' /\ KeepsSessions
  BY <1>0, <1>3, TabSelected, CloseHere DEF CloseTab
<1>4. CASE ClosePane
  <2>1. ~ HostCloseRequired(app, Focused(app)) /\ Changed(PaneClosed(app, Focused(app)), sessions)
    BY <1>4 DEF ClosePane
  <2>2. QED
    BY <1>0, <2>1, FocusedClosed, NoNewPane
<1>5. QED
  BY <1>1, <1>2, <1>3, <1>4 DEF Close

LEMMA AtPaneInv ==
  ASSUME NavInv, NEW p \in PanesOf(app), AtPane(p)
  PROVE  NavInv' /\ KeepsSessions
<1> DEFINE a == PaneFocused(app, p)
<1>0. app \in Hierarchies /\ p \in Owned(app)
  BY OwnedIsPanesOf DEF NavInv
<1>1. a \in Hierarchies /\ Owned(a) = Owned(app) /\ Focused(a) = p
  BY <1>0, PaneFocusedKeeps
<1>2. /\ ActiveTab(a) \in TabSet /\ p \in TabPanes[ActiveTab(a)]
      /\ TabPanes[ActiveTab(a)] \subseteq Owned(a)
  BY <1>1, DownTheActive
<1>3. CASE FocusPane(p)
  BY <1>1, <1>3, NoNewPane DEF FocusPane
<1>4. CASE SplitPane(p)
  <2>1. PICK new \in Fresh :
          Changed(WithTab(a, PaneSplit(ActiveTab(a), p, new)), sessions \union {new})
    BY <1>4 DEF SplitPane
  <2> DEFINE t == ActiveTab(a)
             x == PaneSplit(t, p, new)
             b == WithTab(a, x)
  <2>2. new \in Panes \ Owned(a)
    BY <1>0, <1>1, FreshParts
  <2> HIDE DEF a
  <2>3. x \in TabSet /\ TabPanes[x] = TabPanes[t] \union {new} /\ x.id = t.id
    <3>1. t \in TabSet /\ p \in TabPanes[t] /\ new \in Panes /\ new \notin TabPanes[t]
      BY <1>2, <2>2
    <3> HIDE DEF t
    <3>2. p \in ToSet(t.panes) /\ new \in Panes \ ToSet(t.panes)
      BY <3>1, TabParts
    <3>3. QED
      BY <3>1, <3>2, PaneSplitKeeps
  <2> HIDE DEF x
  <2>4. TabPanes[x] \intersect (Owned(a) \ TabPanes[ActiveTab(a)]) = {}
    BY <2>2, <2>3
  <2>5. /\ b \in Hierarchies
        /\ Owned(b) = (Owned(a) \ TabPanes[ActiveTab(a)]) \union TabPanes[x]
    BY <1>1, <2>3, <2>4, WithTabKeeps
  <2>6. Owned(b) = Owned(app) \union {new}
    BY <1>1, <1>2, <2>3, <2>5
  <2>7. Changed(b, sessions \union {new})
    BY <2>1 DEF x
  <2> HIDE DEF b
  <2>8. QED
    BY <2>5, <2>6, <2>7, NewPane
<1>5. CASE StopAfterFocus(p)
  BY <1>1, <1>5, RefusedInv DEF StopAfterFocus
<1>6. CASE RequestClosePane(p)
  <2> DEFINE closed == PaneClosed(a, p)
             back == Restored(closed, ActivePlace(app))
  <2>1. /\ open /\ app' = back /\ Reconciled(closed, sessions) /\ reply' = "refused"
        /\ open' = open /\ ~ HostCloseRequired(app, p)
    BY <1>6 DEF RequestClosePane
  <2>2. ~ HostCloseRequired(a, p)
    <3>1. SUFFICES ASSUME HostCloseRequired(a, p) PROVE FALSE
      OBVIOUS
    <3>2. Owned(a) = {p}
      BY <1>1, <3>1, HostClosesLastPane
    <3>3. QED
      BY <1>0, <1>1, <2>1, <3>2, LastPaneIsForHost
  <2>3. closed \in Hierarchies /\ Owned(closed) = Owned(app) \ {p}
    <3> HIDE DEF a
    <3>1. QED
      BY <1>1, <2>2, FocusedClosed
  <2> HIDE DEF closed
  <2>4. back \in Hierarchies /\ Owned(back) = Owned(closed)
    BY <2>3, RestoredKeeps
  <2>5. sessions \in SUBSET Panes /\ Owned(closed) \ Owned(app) \subseteq sessions
    BY <2>3 DEF NavInv
  <2> HIDE DEF back
  <2>6. QED
    BY <2>1, <2>3, <2>4, <2>5, ReconciledInv
<1>7. CASE RequestNeedsReview(p)
  BY <1>1, <1>7, RestoredKeeps, RefusedInv DEF RequestNeedsReview
<1>8. ASSUME NEW q \in PanesOf(app), MovePane(p, q) PROVE NavInv' /\ KeepsSessions
  <2> DEFINE t == ActiveTab(a)
             x == PanesSwapped(t, p, q)
             b == WithTab(a, x)
  <2>1. CanSwap(t, p, q) /\ Changed(b, sessions)
    BY <1>8 DEF MovePane
  <2>2. x \in TabSet /\ TabPanes[x] = TabPanes[t] /\ x.id = t.id
    <3> HIDE DEF t
    <3>1. t \in TabSet
      BY <1>2 DEF t
    <3>2. QED
      BY <2>1, <3>1, PanesSwappedKeeps
  <2> HIDE DEF x, a
  <2>3. TabPanes[x] \intersect (Owned(a) \ TabPanes[ActiveTab(a)]) = {}
    BY <2>2
  <2>4. /\ b \in Hierarchies
        /\ Owned(b) = (Owned(a) \ TabPanes[ActiveTab(a)]) \union TabPanes[x]
    BY <1>1, <2>2, <2>3, WithTabKeeps
  <2>5. Owned(b) = Owned(app)
    BY <1>1, <1>2, <2>2, <2>4
  <2> HIDE DEF b
  <2>6. QED
    BY <2>1, <2>4, <2>5, NoNewPane
<1>9. QED
  BY <1>3, <1>4, <1>5, <1>6, <1>7, <1>8 DEF AtPane

LEMMA Inductive ==
  ASSUME NavInv, [Next]_vars
  PROVE  NavInv' /\ KeepsSessions
<1>1. CASE Create
  BY <1>1, CreateInv
<1>2. CASE Select
  BY <1>2, SelectInv
<1>3. CASE Move
  BY <1>3, MoveInv
<1>4. CASE Close
  BY <1>4, CloseInv
<1>5. ASSUME NEW p \in PanesOf(app), AtPane(p) PROVE NavInv' /\ KeepsSessions
  BY <1>5, AtPaneInv
<1>6. CASE CloseWindow
  BY <1>6 DEF CloseWindow, NavInv, ActiveHasSession, KeepsSessions
<1>7. CASE Relaunch
  <2>1. app \in Hierarchies
    BY DEF NavInv
  <2>2. Focused(app) \in Owned(app) /\ Focused(app) \in Panes /\ PanesOf(app) \subseteq Panes
    BY <2>1, DownTheActive, OwnedInPanes, OwnedIsPanesOf
  <2>3. QED
    BY <1>7, <2>2 DEF Relaunch, NavInv, ActiveHasSession, KeepsSessions
<1>8. CASE UNCHANGED vars
  BY <1>8 DEF vars, NavInv, ActiveHasSession, KeepsSessions
<1>9. QED
  BY <1>1, <1>2, <1>3, <1>4, <1>5, <1>6, <1>7, <1>8 DEF Next

LEMMA Initially == Init => NavInv
<1>1. SUFFICES ASSUME Init PROVE NavInv
  OBVIOUS
<1>2. PICK p \in Panes : app = NewApp(p) /\ sessions = {p} /\ active = p
  BY <1>1 DEF Init
<1>3. app \in Hierarchies
  BY <1>2, NewNodes
<1>4. QED
  BY <1>1, <1>2, <1>3 DEF Init, NavInv, ActiveHasSession

THEOREM Invariant == Spec => []NavInv
<1>1. NavInv /\ [Next]_vars => NavInv'
  BY Inductive
<1>2. QED
  BY Initially, <1>1, PTL DEF Spec

--------------------------------------------------------------------------------
(* What the runs check, for every set of panes. *)

LEMMA SoundLevel ==
  ASSUME NEW c, NEW content, Good(c, content)
  PROVE  Chosen(c) /\ Distinct(Ids(c))
BY DEF Good, Parted, Chosen, Distinct, Ids

\* The shape of the hierarchy is kept by every handler: nothing empty, something selected
\* on every level, no name and no pane twice.
THEOREM TypeCorrect == Spec => []TypeOK
<1>1. ASSUME NavInv PROVE TypeOK
  <2>0. app \in Hierarchies
    BY <1>1 DEF NavInv
  <2>1. ASSUME NEW c \in {app} \union ToSet(app.items) \union Groups(app)
        PROVE  Chosen(c) /\ Distinct(Ids(c))
    <3>1. CASE c = app
      BY <2>0, <3>1, HierarchyParts, SoundLevel
    <3>2. CASE c \in ToSet(app.items)
      <4>1. c \in WorkspaceSet
        BY <2>0, <3>2, HierarchyParts DEF ToSet
      <4>2. QED
        BY <4>1, WorkspaceParts, SoundLevel
    <3>3. CASE c \in Groups(app)
      <4>1. PICK w \in DOMAIN app.items : c \in ToSet(app.items[w].items)
        BY <3>3 DEF Groups
      <4>2. app.items[w] \in WorkspaceSet
        BY <2>0, HierarchyParts
      <4>3. c \in GroupSet
        BY <4>1, <4>2, WorkspaceParts DEF ToSet
      <4>4. QED
        BY <4>3, GroupParts, SoundLevel
    <3>4. QED
      BY <3>1, <3>2, <3>3
  <2>2. ASSUME NEW t \in Tabs(app) PROVE t.focused \in ToSet(t.panes) /\ Distinct(t.panes)
    <3>1. t \in TabSet
      BY <2>0, PlaceParts DEF Tabs
    <3>2. QED
      BY <3>1 DEF TabSet
  <2>3. \A s, t \in Places(app) :
          s # t => ToSet(TabAt(app, s).panes) \intersect ToSet(TabAt(app, t).panes) = {}
    BY <2>0, OnePlace
  <2>4. PanesOf(app) \subseteq Panes
    BY <2>0, OwnedInPanes, OwnedIsPanesOf
  <2>5. QED
    BY <1>1, <2>1, <2>2, <2>3, <2>4 DEF TypeOK, NavInv
<1>2. QED
  BY Invariant, <1>1, PTL

\* As long as the window is up, the surface that keys go to has a session.
THEOREM ActiveSurfaceHasSession == Spec => []ActiveHasSession
<1>1. NavInv => ActiveHasSession
  BY DEF NavInv
<1>2. QED
  BY Invariant, <1>1, PTL

\* No handler ends the session of a pane that stays, or adds a pane without a session.
THEOREM SessionsAreKept == Spec => SessionsKept
<1>1. NavInv /\ [Next]_vars => [KeepsSessions]_vars
  BY Inductive
<1>2. [KeepsSessions]_vars
        <=> [open /\ open' =>
               /\ sessions \intersect PanesOf(app') \subseteq sessions'
               /\ PanesOf(app') \ PanesOf(app) \subseteq sessions']_vars
  BY DEF KeepsSessions
<1>3. QED
  BY Invariant, <1>1, <1>2, PTL DEF Spec, SessionsKept

\* Closing the focused pane takes out that pane alone, and leaves the focus in the same
\* tab, group or workspace where a pane is left there.
THEOREM ClosesStayNear == Spec => ClosePaneStaysNear
<1> DEFINE Near == /\ PanesOf(app') = PanesOf(app) \ {Focused(app)}
                   /\ \A near \in Neighbours(app, Focused(app)) :
                        near # {Focused(app)} => Focused(app') \in near
<1>1. ASSUME NavInv, ClosePane PROVE Near
  <2>1. /\ app \in Hierarchies /\ ~ HostCloseRequired(app, Focused(app))
        /\ app' = PaneClosed(app, Focused(app))
    BY <1>1 DEF NavInv, ClosePane, Changed
  <2>2. /\ app' \in Hierarchies /\ Owned(app') = Owned(app) \ {Focused(app)}
        /\ StaysNear(app, app')
    BY <2>1, FocusedClosed
  <2>3. QED
    BY <2>1, <2>2, OwnedIsPanesOf, NeighboursAre DEF StaysNear
<1>2. NavInv /\ [Next]_vars => [ClosePane => Near]_vars
  BY <1>1
<1>3. QED
  BY Invariant, <1>2, PTL DEF Spec, ClosePaneStaysNear

\* Reordering never moves the focus to another pane.
THEOREM MovesKeepFocus == Spec => MoveKeepsFocus
<1>1. NavInv /\ [Next]_vars => [Move => Focused(app') = Focused(app)]_vars
  BY MoveInv
<1>2. QED
  BY Invariant, <1>1, PTL DEF Spec, MoveKeepsFocus

================================================================================
