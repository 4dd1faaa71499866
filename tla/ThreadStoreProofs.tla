--------------------------- MODULE ThreadStoreProofs ---------------------------
(***************************************************************************)
(* What a tab shows is its thread's: nothing of another one, what the      *)
(* owner is asked and the turn as the server has them, and each entry of   *)
(* the transcript once, for any number of prompts, requests, connections   *)
(* and pages.                                                              *)
(***************************************************************************)
EXTENDS ThreadStore, FiniteSetTheorems, SequenceTheorems,
        WellFoundedInduction, TLAPS

-----------------------------------------------------------------------------
(* Names, and sequences.                                                   *)

Ids == {Message(n) : n \in Nat} \cup {Local(x) : x \in Prompts}
Turns == Prompts \cup {None}

LEMMA Names ==
  /\ \A n, k : Message(n) = Message(k) => n = k
  /\ \A x, y : Local(x) = Local(y) => x = y
  /\ \A n, x : Message(n) # Local(x)
  /\ \A n \in Nat : Message(n) \in Ids
  /\ \A x \in Prompts : Local(x) \in Ids
BY DEF Message, Local, Ids

\* A sequence with one element taken out.
LEMMA Removed ==
  ASSUME NEW S, NEW s \in Seq(S), NEW i \in DOMAIN s
  PROVE  /\ RemoveAt(s, i) \in Seq(S)
         /\ Len(RemoveAt(s, i)) = Len(s) - 1
         /\ \A j \in 1..(Len(s) - 1) : RemoveAt(s, i)[j] = IF j < i THEN s[j] ELSE s[j + 1]
<1> DEFINE a == SubSeq(s, 1, i - 1)
           b == SubSeq(s, i + 1, Len(s))
<1>1. /\ i \in 1..Len(s) /\ Len(s) \in Nat /\ \A j \in 1..Len(s) : s[j] \in S
  OBVIOUS
<1>2. /\ a \in Seq(S) /\ Len(a) = i - 1 /\ \A j \in 1..(i - 1) : a[j] = s[j]
  BY <1>1
<1>3. /\ b \in Seq(S) /\ Len(b) = Len(s) - i /\ \A j \in 1..(Len(s) - i) : b[j] = s[j + i]
  BY <1>1
<1>4. RemoveAt(s, i) = a \o b
  BY DEF RemoveAt
<1> HIDE DEF a, b
<1>5. /\ a \o b \in Seq(S) /\ Len(a \o b) = Len(s) - 1
  BY <1>1, <1>2, <1>3
<1>6. \A j \in 1..(Len(s) - 1) : (a \o b)[j] = IF j < i THEN s[j] ELSE s[j + 1]
  <2> TAKE j \in 1..(Len(s) - 1)
  <2>1. CASE j < i
    BY <1>1, <1>2, <1>3, <2>1
  <2>2. CASE ~(j < i)
    <3>1. (a \o b)[j] = b[j - (i - 1)]
      BY <1>1, <1>2, <1>3, <2>2
    <3>2. j - (i - 1) \in 1..(Len(s) - i) /\ j - (i - 1) + i = j + 1
      BY <1>1, <2>2
    <3> QED BY <1>3, <2>2, <3>1, <3>2
  <2> QED BY <2>1, <2>2
<1> QED BY <1>4, <1>5, <1>6

\* How many places of K there are up to i.
Rank(K, i) == Cardinality({k \in K : k <= i})

LEMMA Ranks ==
  ASSUME NEW K \in SUBSET Nat, IsFiniteSet(K)
  PROVE  /\ \A i \in K : Rank(K, i) \in 1..Cardinality(K)
         /\ \A i, j \in K : i < j => Rank(K, i) < Rank(K, j)
<1> DEFINE U(i) == {k \in K : k <= i}
<1>1. \A i : IsFiniteSet(U(i)) /\ Cardinality(U(i)) \in Nat /\ Cardinality(U(i)) <= Cardinality(K)
  <2> TAKE i
  <2>1. U(i) \in SUBSET K
    OBVIOUS
  <2> HIDE DEF U
  <2> QED BY <2>1, FS_Subset, FS_CardinalityType
<1>2. Cardinality(K) \in Nat
  BY FS_CardinalityType
<1>3. \A i \in K : Cardinality(U(i)) >= 1
  <2> TAKE i \in K
  <2>1. i \in U(i)
    OBVIOUS
  <2> HIDE DEF U
  <2> QED BY <1>1, <2>1, FS_EmptySet
<1>4. \A i, j \in K : i < j => Cardinality(U(i)) < Cardinality(U(j))
  <2> SUFFICES ASSUME NEW i \in K, NEW j \in K, i < j PROVE Cardinality(U(i)) < Cardinality(U(j))
    OBVIOUS
  <2>1. U(i) \subseteq U(j) /\ j \in U(j) /\ ~(j \in U(i))
    <3>1. \A k \in K : k \in Int /\ (k <= i => k <= j)
      OBVIOUS
    <3>2. j <= j /\ ~(j <= i)
      OBVIOUS
    <3> QED BY <3>1, <3>2
  <2> HIDE DEF U
  <2>2. /\ Cardinality(U(i)) <= Cardinality(U(j))
        /\ Cardinality(U(j)) = Cardinality(U(i)) => U(j) = U(i)
    <3>1. U(i) \in SUBSET U(j)
      BY <2>1
    <3> QED BY <1>1, <3>1, FS_Subset
  <2> QED BY <1>1, <2>1, <2>2
<1> HIDE DEF U
<1>5. \A i : Rank(K, i) = Cardinality(U(i))
  BY DEF U, Rank
<1> QED BY <1>1, <1>2, <1>3, <1>4, <1>5

\* What is picked from s: its elements at the places K, each once.
LEMMA PickedFacts ==
  ASSUME NEW S, NEW s \in Seq(S), NEW K \in SUBSET DOMAIN s
  PROVE  /\ Picked(s, K) \in Seq(S)
         /\ \A i \in K : \E j \in DOMAIN Picked(s, K) : Picked(s, K)[j] = s[i]
         /\ \E p : /\ \A j \in DOMAIN Picked(s, K) : p[j] \in K /\ Picked(s, K)[j] = s[p[j]]
                   /\ \A i, j \in DOMAIN Picked(s, K) : p[i] = p[j] => i = j
<1> DEFINE n == Cardinality(K)
           f == [i \in K |-> Rank(K, i)]
           p == [j \in 1..n |-> CHOOSE i \in K : Rank(K, i) = j]
<1>1. K \in SUBSET Nat /\ IsFiniteSet(K) /\ n \in Nat
  <2>1. Len(s) \in Nat /\ DOMAIN s = 1..Len(s)
    OBVIOUS
  <2>2. IsFiniteSet(1..Len(s)) /\ K \in SUBSET (1..Len(s))
    BY <2>1, FS_Interval
  <2> QED BY <2>2, FS_Subset, FS_CardinalityType
<1>2. /\ \A i \in K : Rank(K, i) \in 1..n
      /\ \A i, j \in K : i < j => Rank(K, i) < Rank(K, j)
  BY <1>1, Ranks
<1>3. f \in [K -> 1..n] /\ \A i, j \in K : f[i] = f[j] => i = j
  <2>1. f \in [K -> 1..n]
    BY <1>2
  <2>2. ASSUME NEW i \in K, NEW j \in K, f[i] = f[j] PROVE i = j
    <3>1. Rank(K, i) = Rank(K, j) /\ Rank(K, i) \in Int /\ i \in Int /\ j \in Int
      BY <1>1, <1>2, <2>2
    <3> QED BY <1>2, <3>1
  <2> QED BY <2>1, <2>2
<1>4. f \in Surjection(K, 1..n)
  <2> HIDE DEF f
  <2>1. f \in Injection(K, 1..n)
    BY <1>3 DEF Injection, IsInjective
  <2>2. IsFiniteSet(1..n) /\ Cardinality(1..n) = n
    <3>1. IsFiniteSet(1..n) /\ Cardinality(1..n) = IF 1 > n THEN 0 ELSE n - 1 + 1
      BY <1>1, 1 \in Int, n \in Int, FS_Interval
    <3> QED BY <1>1, <3>1
  <2> QED BY <1>1, <2>1, <2>2, FS_Injection
<1>5. \A j \in 1..n : \E i \in K : Rank(K, i) = j
  BY <1>4 DEF Surjection
<1>6. \A j \in 1..n : p[j] \in K /\ Rank(K, p[j]) = j
  BY <1>5
<1>7. Picked(s, K) = [j \in 1..n |-> s[p[j]]]
  BY DEF Picked, Rank
<1> HIDE DEF f, p
<1>8. \A j \in 1..n : s[p[j]] \in S
  BY <1>6
<1>9. /\ Picked(s, K) \in Seq(S) /\ DOMAIN Picked(s, K) = 1..n
      /\ \A j \in 1..n : Picked(s, K)[j] = s[p[j]]
  BY <1>1, <1>7, <1>8
<1>10. \A i \in K : p[Rank(K, i)] = i
  <2> TAKE i \in K
  <2>1. Rank(K, i) \in 1..n /\ p[Rank(K, i)] \in K /\ Rank(K, p[Rank(K, i)]) = Rank(K, i)
    BY <1>2, <1>6
  <2>2. i \in Int /\ p[Rank(K, i)] \in Int
    BY <1>1, <2>1
  <2>3. /\ i < p[Rank(K, i)] => Rank(K, i) < Rank(K, p[Rank(K, i)])
        /\ p[Rank(K, i)] < i => Rank(K, p[Rank(K, i)]) < Rank(K, i)
    BY <1>2, <2>1
  <2> QED BY <2>1, <2>2, <2>3
<1>11. \A i \in K : \E j \in 1..n : Picked(s, K)[j] = s[i]
  BY <1>2, <1>9, <1>10
<1>12. \A i, j \in 1..n : p[i] = p[j] => i = j
  BY <1>6
<1> QED BY <1>6, <1>9, <1>11, <1>12

-----------------------------------------------------------------------------
(* What is on screen, and what the reducer makes of it.                    *)

ItemSet == [id : Ids, x : Turns, streaming : BOOLEAN]
EntrySet == [id : Ids, x : Turns]

IsItems(s) ==
  /\ s \in Seq(ItemSet)
  /\ \A i \in DOMAIN s : s[i].x # None => s[i].id = Local(s[i].x)

\* The same items, some of which may wait no longer.
SameItems(s, t) ==
  /\ Len(t) = Len(s) /\ DOMAIN t = DOMAIN s
  /\ \A i \in DOMAIN s : t[i].id = s[i].id /\ t[i].x \in {s[i].x, None}

\* One item more, at the end.
OneMore(s, t, id, x) ==
  /\ Len(t) = Len(s) + 1 /\ DOMAIN s = 1..Len(s) /\ DOMAIN t = 1..(Len(s) + 1)
  /\ \A i \in DOMAIN s : t[i] = s[i]
  /\ t[Len(s) + 1].id = id /\ t[Len(s) + 1].x = x

LEMMA ItemFacts ==
  ASSUME NEW id \in Ids, NEW x \in Turns, NEW b \in BOOLEAN
  PROVE  Item(id, x, b) \in ItemSet /\ Item(id, x, b).id = id /\ Item(id, x, b).x = x
BY DEF Item, ItemSet

LEMMA ItemsShape ==
  ASSUME NEW s, IsItems(s)
  PROVE  /\ Len(s) \in Nat /\ DOMAIN s = 1..Len(s)
         /\ \A i \in DOMAIN s : /\ s[i] \in ItemSet /\ s[i].id \in Ids /\ s[i].x \in Turns
                                /\ s[i].x # None => s[i].x \in Prompts /\ s[i].id = Local(s[i].x)
<1>1. Len(s) \in Nat /\ DOMAIN s = 1..Len(s) /\ \A i \in DOMAIN s : s[i] \in ItemSet
  BY DEF IsItems
<1>2. \A i \in DOMAIN s : s[i].id \in Ids /\ s[i].x \in Turns
  BY <1>1 DEF ItemSet
<1>3. \A i \in DOMAIN s : s[i].x # None => s[i].id = Local(s[i].x)
  BY DEF IsItems
<1> QED BY <1>1, <1>2, <1>3 DEF Turns

\* The last of the places where a prompt waits.
LEMMA EchoPlace ==
  ASSUME NEW s, IsItems(s), NEW x \in Prompts, Waits(s, x) # {}
  PROVE  /\ localEcho(s, x) \in DOMAIN s /\ s[localEcho(s, x)].x = x
         /\ s[localEcho(s, x)].id = Local(x)
<1> DEFINE W == Waits(s, x)
           T == {Len(s) - i : i \in W}
<1>1. Len(s) \in Nat /\ DOMAIN s = 1..Len(s)
  BY ItemsShape
<1>2. W \subseteq 1..Len(s) /\ x # None
  BY <1>1, StoreAssumption DEF Waits
<1>3. T \subseteq Nat /\ T # {}
  BY <1>1, <1>2
<1>4. PICK m \in T : \A y \in T : ~(<<y, m>> \in OpToRel(<, Nat))
  <2> HIDE DEF T
  <2> QED BY <1>3, NatLessThanWellFounded, WFMin
<1>5. \A y \in T : ~(y < m)
  BY <1>3, <1>4 DEF OpToRel
<1>6. PICK i \in W : m = Len(s) - i
  OBVIOUS
<1>7. \A j \in W : j <= i
  <2> TAKE j \in W
  <2>1. Len(s) - j \in T
    OBVIOUS
  <2>2. ~(Len(s) - j < Len(s) - i)
    BY <1>5, <1>6, <2>1
  <2> QED BY <1>1, <1>2, <2>2
<1>8. localEcho(s, x) \in W
  BY <1>7 DEF localEcho
<1>9. localEcho(s, x) \in DOMAIN s /\ s[localEcho(s, x)].x = x
  BY <1>8 DEF Waits
<1> QED BY <1>2, <1>9, ItemsShape

\* A prompt's item that waits no longer is settled.
LEMMA NoEcho ==
  ASSUME NEW s, IsItems(s), NEW x \in Prompts, Waits(s, x) = {},
         NEW i \in DOMAIN s, s[i].id = Local(x)
  PROVE  s[i].x = None
BY ItemsShape, Names, StoreAssumption DEF Waits

LEMMA EchoedItems ==
  ASSUME NEW s, IsItems(s), NEW i \in DOMAIN s
  PROVE  LET t == [s EXCEPT ![i].x = None] IN
         IsItems(t) /\ SameItems(s, t) /\ t[i].x = None
<1> DEFINE t == [s EXCEPT ![i].x = None]
<1>1. Len(s) \in Nat /\ DOMAIN s = 1..Len(s) /\ \A j \in DOMAIN s : s[j] \in ItemSet
  BY ItemsShape
<1>2. [s[i] EXCEPT !.x = None] \in ItemSet
  BY <1>1 DEF ItemSet, Turns
<1>3. t = [s EXCEPT ![i] = [s[i] EXCEPT !.x = None]]
  OBVIOUS
<1>4. t \in Seq(ItemSet) /\ Len(t) = Len(s) /\ DOMAIN t = DOMAIN s
  BY <1>1, <1>2, <1>3 DEF IsItems
<1>5. t[i].x = None /\ t[i].id = s[i].id
  BY <1>1 DEF ItemSet
<1>6. \A j \in DOMAIN s : j # i => t[j] = s[j]
  OBVIOUS
<1>7. \A j \in DOMAIN s : t[j].id = s[j].id /\ t[j].x \in {s[j].x, None}
  BY <1>5, <1>6
<1> HIDE DEF t
<1>8. \A j \in DOMAIN t : t[j].x # None => t[j].id = Local(t[j].x)
  BY <1>4, <1>7 DEF IsItems
<1> QED BY <1>4, <1>5, <1>7, <1>8 DEF IsItems, SameItems, t

LEMMA AppendedItems ==
  ASSUME NEW s, IsItems(s), NEW id \in Ids, NEW x \in Turns, NEW b \in BOOLEAN,
         x # None => id = Local(x)
  PROVE  /\ IsItems(Append(s, Item(id, x, b)))
         /\ OneMore(s, Append(s, Item(id, x, b)), id, x)
<1> DEFINE a == Item(id, x, b)
<1>1. a \in ItemSet /\ a.id = id /\ a.x = x
  BY ItemFacts
<1>2. s \in Seq(ItemSet) /\ Len(s) \in Nat /\ DOMAIN s = 1..Len(s)
  BY ItemsShape DEF IsItems
<1> HIDE DEF a
<1>3. /\ Append(s, a) \in Seq(ItemSet) /\ Len(Append(s, a)) = Len(s) + 1
      /\ DOMAIN Append(s, a) = 1..(Len(s) + 1)
      /\ \A i \in 1..Len(s) : Append(s, a)[i] = s[i]
      /\ Append(s, a)[Len(s) + 1] = a
  BY <1>1, <1>2
<1>4. \A i \in 1..(Len(s) + 1) : i = Len(s) + 1 \/ i \in 1..Len(s)
  BY <1>2
<1>5. IsItems(Append(s, a))
  BY <1>1, <1>2, <1>3, <1>4 DEF IsItems
<1>6. OneMore(s, Append(s, a), id, x)
  BY <1>1, <1>2, <1>3 DEF OneMore
<1> QED BY <1>5, <1>6 DEF a

LEMMA PlacedItems ==
  ASSUME NEW s, IsItems(s), NEW n \in Nat, NEW b \in BOOLEAN
  PROVE  /\ IsItems(Placed(s, Message(n), b))
         /\ Has(s, Message(n)) => SameItems(s, Placed(s, Message(n), b))
         /\ ~Has(s, Message(n)) => OneMore(s, Placed(s, Message(n), b), Message(n), None)
         /\ Has(Placed(s, Message(n), b), Message(n))
<1> DEFINE id == Message(n)
           t == Placed(s, id, b)
<1>1. s \in Seq(ItemSet) /\ Len(s) \in Nat /\ DOMAIN s = 1..Len(s)
      /\ \A i \in DOMAIN s : s[i] \in ItemSet
  BY ItemsShape DEF IsItems
<1>2. id \in Ids /\ None \in Turns /\ \A x : id # Local(x)
  BY Names DEF Turns
<1>3. CASE Has(s, id)
  <2>1. t = [i \in DOMAIN s |-> IF s[i].id = id THEN Item(id, None, b) ELSE s[i]]
    BY <1>3 DEF Placed
  <2>2. Item(id, None, b) \in ItemSet /\ Item(id, None, b).id = id /\ Item(id, None, b).x = None
    BY <1>2, ItemFacts
  <2> HIDE DEF id, t
  <2>3. t \in Seq(ItemSet) /\ Len(t) = Len(s) /\ DOMAIN t = DOMAIN s
    BY <1>1, <2>1, <2>2
  <2>4. \A i \in DOMAIN s : t[i].id = s[i].id /\ t[i].x \in {s[i].x, None}
    BY <2>1, <2>2
  <2>5. \A i \in DOMAIN t : t[i].x # None => t[i].id = Local(t[i].x)
    BY <2>3, <2>4 DEF IsItems
  <2>6. Has(t, id)
    BY <1>3, <2>3, <2>4 DEF Has
  <2> QED BY <1>3, <2>3, <2>4, <2>5, <2>6 DEF IsItems, SameItems, id, t
<1>4. CASE ~Has(s, id)
  <2>1. t = Append(s, Item(id, None, b))
    BY <1>4 DEF Placed
  <2>2. IsItems(t) /\ OneMore(s, t, id, None)
    BY <1>2, <2>1, AppendedItems
  <2> HIDE DEF id, t
  <2>3. Len(s) + 1 \in DOMAIN t /\ t[Len(s) + 1].id = id
    BY <1>1, <2>2 DEF OneMore
  <2>4. Has(t, id)
    BY <2>3 DEF Has
  <2> QED BY <1>4, <2>2, <2>4 DEF id, t
<1> QED BY <1>3, <1>4

LEMMA SettledItems ==
  ASSUME NEW s, IsItems(s)
  PROVE  IsItems(Settled(s)) /\ SameItems(s, Settled(s))
<1>1. s \in Seq(ItemSet) /\ Len(s) \in Nat /\ DOMAIN s = 1..Len(s)
      /\ \A i \in DOMAIN s : s[i] \in ItemSet
  BY ItemsShape DEF IsItems
<1> DEFINE a(i) == [s[i] EXCEPT !.streaming = FALSE]
           t == [i \in DOMAIN s |-> a(i)]
<1>2. \A i \in DOMAIN s : a(i) \in ItemSet /\ a(i).id = s[i].id /\ a(i).x = s[i].x
  BY <1>1 DEF ItemSet
<1>5. Settled(s) = t
  BY DEF Settled
<1> HIDE DEF a
<1>3. /\ t \in Seq(ItemSet) /\ Len(t) = Len(s) /\ DOMAIN t = DOMAIN s
      /\ \A i \in DOMAIN s : t[i] \in ItemSet /\ t[i].id = s[i].id /\ t[i].x = s[i].x
  BY <1>1, <1>2
<1> HIDE DEF t
<1>4. \A i \in DOMAIN t : t[i].x # None => t[i].id = Local(t[i].x)
  BY <1>3 DEF IsItems
<1> QED BY <1>3, <1>4, <1>5 DEF IsItems, SameItems

LEMMA DroppedItems ==
  ASSUME NEW s, IsItems(s), NEW i \in DOMAIN s
  PROVE  /\ IsItems(RemoveAt(s, i))
         /\ \A j \in DOMAIN s : j # i => \E k \in DOMAIN RemoveAt(s, i) : RemoveAt(s, i)[k] = s[j]
         /\ \E p : /\ \A k \in DOMAIN RemoveAt(s, i) :
                         p[k] \in DOMAIN s /\ RemoveAt(s, i)[k] = s[p[k]]
                   /\ \A j, k \in DOMAIN RemoveAt(s, i) : p[j] = p[k] => j = k
<1> DEFINE t == RemoveAt(s, i)
           p == [k \in 1..(Len(s) - 1) |-> IF k < i THEN k ELSE k + 1]
<1>1. s \in Seq(ItemSet) /\ Len(s) \in Nat /\ DOMAIN s = 1..Len(s) /\ i \in 1..Len(s)
  BY ItemsShape DEF IsItems
<1>2. /\ t \in Seq(ItemSet) /\ Len(t) = Len(s) - 1
      /\ \A j \in 1..(Len(s) - 1) : t[j] = IF j < i THEN s[j] ELSE s[j + 1]
  BY <1>1, Removed
<1> HIDE DEF t
<1>3. DOMAIN t = 1..(Len(s) - 1)
  BY <1>1, <1>2
<1>4. \A k \in 1..(Len(s) - 1) : p[k] \in 1..Len(s) /\ t[k] = s[p[k]]
  BY <1>1, <1>2
<1>5. \A j, k \in 1..(Len(s) - 1) : p[j] = p[k] => j = k
  BY <1>1
<1>6. \A j \in 1..Len(s) : j # i => \E k \in 1..(Len(s) - 1) : p[k] = j
  <2> SUFFICES ASSUME NEW j \in 1..Len(s), j # i PROVE \E k \in 1..(Len(s) - 1) : p[k] = j
    OBVIOUS
  <2>1. CASE j < i
    <3>1. j \in 1..(Len(s) - 1) /\ p[j] = j
      BY <1>1, <2>1
    <3> QED BY <3>1
  <2>2. CASE ~(j < i)
    <3>1. j - 1 \in 1..(Len(s) - 1) /\ ~(j - 1 < i) /\ j - 1 + 1 = j
      BY <1>1, <2>2
    <3> QED BY <3>1
  <2> QED BY <2>1, <2>2
<1> HIDE DEF p
<1>7. \A k \in DOMAIN t : t[k].x # None => t[k].id = Local(t[k].x)
  BY <1>1, <1>3, <1>4 DEF IsItems
<1>8. \A j \in DOMAIN s : j # i => \E k \in DOMAIN t : t[k] = s[j]
  <2> SUFFICES ASSUME NEW j \in DOMAIN s, j # i PROVE \E k \in DOMAIN t : t[k] = s[j]
    OBVIOUS
  <2>1. PICK k \in 1..(Len(s) - 1) : p[k] = j
    BY <1>1, <1>6
  <2>2. t[k] = s[j]
    BY <1>4, <2>1
  <2> QED BY <1>3, <2>2
<1>9. \A k \in DOMAIN t : p[k] \in DOMAIN s /\ t[k] = s[p[k]]
  BY <1>1, <1>3, <1>4
<1>10. \A j, k \in DOMAIN t : p[j] = p[k] => j = k
  BY <1>3, <1>5
<1>11. IsItems(t)
  BY <1>2, <1>7 DEF IsItems
<1> QED BY <1>8, <1>9, <1>10, <1>11 DEF t

\* A page in front of what is on screen: those of its entries not seen yet, m
\* of them, from the places q of the page.
InFront(t, page, new, m, q) ==
  /\ IsItems(new) /\ Len(t.items) \in Nat /\ DOMAIN t.items = 1..Len(t.items)
  /\ DOMAIN new = 1..(m + Len(t.items))
  /\ \A k \in 1..m : /\ q[k] \in DOMAIN page /\ page[q[k]].id \notin t.seen
                      /\ new[k].id = page[q[k]].id /\ new[k].x = None
  /\ \A j, k \in 1..m : q[j] = q[k] => j = k
  /\ \A j \in DOMAIN t.items : new[m + j] = t.items[j]
  /\ \A i \in DOMAIN page : page[i].id \notin t.seen =>
        \E k \in 1..m : new[k].id = page[i].id

LEMMA PagedItems ==
  ASSUME NEW t, IsItems(t.items), NEW page \in Seq(EntrySet)
  PROVE  \E m \in Nat : \E q : InFront(t, page, Shown(Fresh(t, page)) \o t.items, m, q)
<1> DEFINE K == {i \in DOMAIN page : page[i].id \notin t.seen}
           f == Picked(page, K)
           m == Len(f)
           a == [k \in DOMAIN f |-> Item(f[k].id, None, FALSE)]
           s == t.items
           new == a \o s
<1>1. K \in SUBSET DOMAIN page
  OBVIOUS
<1>2. /\ f \in Seq(EntrySet)
      /\ \A i \in K : \E j \in DOMAIN f : f[j] = page[i]
      /\ \E q : /\ \A j \in DOMAIN f : q[j] \in K /\ f[j] = page[q[j]]
                /\ \A i, j \in DOMAIN f : q[i] = q[j] => i = j
  <2> HIDE DEF K
  <2> QED BY <1>1, PickedFacts
<1>3. PICK q : /\ \A j \in DOMAIN f : q[j] \in K /\ f[j] = page[q[j]]
               /\ \A i, j \in DOMAIN f : q[i] = q[j] => i = j
  BY <1>2
<1>4. Shown(Fresh(t, page)) = a
  BY DEF Shown, Fresh
<1>5. \A j \in DOMAIN page : page[j].id \in Ids
  <2>1. \A j \in DOMAIN page : page[j] \in EntrySet
    OBVIOUS
  <2> QED BY <2>1 DEF EntrySet
<1>6. \A i \in K : i \in DOMAIN page /\ page[i].id \notin t.seen
  OBVIOUS
<1>7. \A i \in DOMAIN page : page[i].id \notin t.seen => i \in K
  OBVIOUS
<1> HIDE DEF f, K
<1>8. m \in Nat /\ DOMAIN f = 1..m
  BY <1>2
<1>9. \A k \in 1..m : /\ Item(f[k].id, None, FALSE) \in ItemSet
                       /\ Item(f[k].id, None, FALSE).id = f[k].id
                       /\ Item(f[k].id, None, FALSE).x = None
  <2> TAKE k \in 1..m
  <2>1. f[k].id \in Ids
    BY <1>3, <1>5, <1>6, <1>8
  <2>2. None \in Turns
    BY DEF Turns
  <2> QED BY <2>1, <2>2, ItemFacts
<1>10. /\ a \in Seq(ItemSet) /\ Len(a) = m
       /\ \A k \in 1..m : a[k].id = f[k].id /\ a[k].x = None
  <2>1. a = [k \in 1..m |-> Item(f[k].id, None, FALSE)]
    BY <1>8
  <2>2. a \in Seq(ItemSet) /\ Len(a) = m
    <3> HIDE DEF a, m
    <3>1. a \in [1..m -> ItemSet]
      BY <1>9, <2>1
    <3> QED BY <1>8, <3>1
  <2> HIDE DEF a
  <2> QED BY <1>9, <2>1, <2>2
<1>11. s \in Seq(ItemSet) /\ Len(s) \in Nat /\ DOMAIN s = 1..Len(s)
  BY ItemsShape DEF IsItems
<1> HIDE DEF a, s, m
<1>12. /\ new \in Seq(ItemSet) /\ DOMAIN new = 1..(m + Len(s))
       /\ \A k \in 1..m : new[k] = a[k]
       /\ \A j \in 1..Len(s) : new[m + j] = s[j]
  <2>1. new \in Seq(ItemSet) /\ Len(new) = m + Len(s)
    BY <1>8, <1>10, <1>11
  <2>2. \A k \in 1..m : new[k] = a[k]
    BY <1>8, <1>10, <1>11
  <2>3. \A j \in 1..Len(s) : new[m + j] = s[j]
    BY <1>8, <1>10, <1>11
  <2> HIDE DEF new
  <2> QED BY <1>8, <1>11, <2>1, <2>2, <2>3
<1> HIDE DEF new
<1>13. IsItems(new)
  <2>1. \A k \in 1..(m + Len(s)) : k \in 1..m \/ \E j \in 1..Len(s) : k = m + j
    <3> TAKE k \in 1..(m + Len(s))
    <3>1. CASE k <= m
      BY <3>1, <1>8
    <3>2. CASE ~(k <= m)
      <4>1. k - m \in 1..Len(s) /\ k = m + (k - m)
        BY <1>8, <1>11, <3>2
      <4> QED BY <4>1
    <3> QED BY <3>1, <3>2
  <2>2. \A k \in 1..(m + Len(s)) : new[k].x # None => new[k].id = Local(new[k].x)
    <3> TAKE k \in 1..(m + Len(s))
    <3>1. CASE k \in 1..m
      BY <1>10, <1>12, <3>1
    <3>2. CASE \E j \in 1..Len(s) : k = m + j
      BY <1>11, <1>12, <3>2 DEF IsItems, s
    <3> QED BY <2>1, <3>1, <3>2
  <2> QED BY <1>12, <2>2 DEF IsItems
<1>14. \A k \in 1..m : /\ q[k] \in DOMAIN page /\ page[q[k]].id \notin t.seen
                       /\ new[k].id = page[q[k]].id /\ new[k].x = None
  BY <1>3, <1>6, <1>8, <1>10, <1>12
<1>15. \A i \in DOMAIN page : page[i].id \notin t.seen => \E k \in 1..m : new[k].id = page[i].id
  BY <1>2, <1>7, <1>8, <1>10, <1>12
<1>16. new = Shown(Fresh(t, page)) \o t.items
  BY <1>4 DEF new, s
<1>17. Len(t.items) = Len(s) /\ t.items = s
  BY DEF s
<1>18. \A j, k \in 1..m : q[j] = q[k] => j = k
  BY <1>3, <1>8
<1>19. \A j \in DOMAIN s : new[m + j] = s[j]
  BY <1>11, <1>12
<1>20. /\ IsItems(new) /\ Len(s) \in Nat /\ DOMAIN s = 1..Len(s)
       /\ DOMAIN new = 1..(m + Len(s))
       /\ \A k \in 1..m : /\ q[k] \in DOMAIN page /\ page[q[k]].id \notin t.seen
                           /\ new[k].id = page[q[k]].id /\ new[k].x = None
       /\ \A j, k \in 1..m : q[j] = q[k] => j = k
       /\ \A j \in DOMAIN s : new[m + j] = s[j]
       /\ \A i \in DOMAIN page : page[i].id \notin t.seen => \E k \in 1..m : new[k].id = page[i].id
  BY <1>11, <1>12, <1>13, <1>14, <1>15, <1>18, <1>19
<1>21. InFront(t, page, new, m, q)
  BY <1>17, <1>20 DEF InFront
<1> QED BY <1>8, <1>16, <1>21

-----------------------------------------------------------------------------
(* Types, variable by variable.                                            *)

Calls == {"new", "sent", "cut", "taken", "refused", "returned"}
Tabs == [id : {"this", "other"}, items : Seq(ItemSet), seen : SUBSET Ids, pending : SUBSET Asks,
         turn : Turns, cursor : 0..MaxLog, loading : BOOLEAN, prompting : BOOLEAN]
IsTab(t) == t \in Tabs /\ IsItems(t.items)

\* What the stream says; and what it says is about an entry of the log, or about
\* the one that streams.
Said == ({"turn_started"} \X Prompts) \cup {<<"turn_finished">>}
        \cup ({"interaction_request", "interaction_resolved"} \X Asks)
        \cup ({"user_message"} \X Ids \X Prompts)
        \cup ({"assistant_message", "text_delta"} \X Ids)

EventOK(s, e) ==
  /\ e[1] = "user_message" =>
       \E n \in DOMAIN s.log : /\ s.log[n].x = e[3]
                               /\ e[2] = IF SameId THEN Message(n) ELSE Local(e[3])
  /\ e[1] = "assistant_message" =>
       \E n \in DOMAIN s.log : s.log[n].x = None /\ e[2] = Message(n)
  /\ e[1] = "text_delta" =>
       \E n \in 1..(Len(s.log) + 1) :
         e[2] = Message(n) /\ IF n \in DOMAIN s.log THEN s.log[n].x = None ELSE s.streams

Logs == {g \in Seq(EntrySet) : Len(g) <= MaxLog /\ \A n \in DOMAIN g : g[n].id = Message(n)}
Servers == [log : Logs, pending : SUBSET Asks, asked : Nat, turn : Turns,
            streams : BOOLEAN, ver : Nat]
ServerTyped == server \in Servers /\ (server.streams => server.turn # None)

Wires == [open : BOOLEAN, events : Seq(Said), ver : Nat, synced : BOOLEAN]
WireTyped ==
  /\ wire \in Wires
  /\ \A k \in DOMAIN wire.events : EventOK(server, wire.events[k])
  /\ wire.open => tab.id = "this"
  /\ ~wire.open => wire.events = <<>>

TabTyped == IsTab(tab) /\ tab.cursor <= Len(server.log)

CallTyped == call \in [Prompts -> Calls]

Details == {<<>>} \cup ((SUBSET Asks) \X Turns \X Nat)
FetchSet == [at : {"none", "sent", "read"}, older : BOOLEAN, detail : Details,
             page : Seq(EntrySet), before : 0..MaxLog, fresh : BOOLEAN]
PageOK(s, page) == \A j \in DOMAIN page : \E n \in DOMAIN s.log : page[j] = s.log[n]
FetchTyped ==
  /\ fetch \in [Fetches -> FetchSet]
  /\ \A r \in Fetches : /\ fetch[r].at = "none" => fetch[r] = NoFetch
                        /\ PageOK(server, fetch[r].page) /\ fetch[r].before <= Len(server.log)
                        /\ fetch[r].fresh /\ ~fetch[r].older => wire.open

HistoryTyped ==
  h \in [drops : 0..MaxDrops, fetches : 0..MaxFetches, overtaken : BOOLEAN, doubled : BOOLEAN,
         crossed : BOOLEAN]

Typed == /\ ServerTyped /\ WireTyped /\ TabTyped /\ CallTyped /\ FetchTyped /\ HistoryTyped
         /\ NotAnothers

LEMMA TypedSound == Typed => StoreSound
<1> SUFFICES ASSUME Typed PROVE TypeOK
  BY DEF Typed, StoreSound
<1>1. tab \in Tabs /\ IsItems(tab.items)
  BY DEF Typed, TabTyped, IsTab
<1>2. /\ tab.id \in {"this", "other"} /\ tab.pending \subseteq Asks
      /\ tab.turn \in Prompts \cup {None} /\ tab.cursor \in 0..MaxLog
  BY <1>1 DEF Tabs, Turns
<1>3. \A i \in DOMAIN tab.items : tab.items[i].x # None => tab.items[i].id = Local(tab.items[i].x)
  BY <1>1 DEF IsItems
<1>4. h.drops <= MaxDrops /\ h.fetches <= MaxFetches
  BY StoreAssumption DEF Typed, HistoryTyped
<1> QED BY <1>2, <1>3, <1>4 DEF TypeOK

LEMMA LogShape ==
  ASSUME NEW s \in Servers
  PROVE  /\ s.log \in Seq(EntrySet) /\ Len(s.log) \in Nat /\ Len(s.log) <= MaxLog
         /\ DOMAIN s.log = 1..Len(s.log)
         /\ \A n \in DOMAIN s.log : /\ n \in Nat /\ s.log[n] \in EntrySet /\ s.log[n].x \in Turns
                                    /\ s.log[n].id = Message(n)
<1>1. s.log \in Seq(EntrySet) /\ Len(s.log) <= MaxLog /\ \A n \in DOMAIN s.log : s.log[n].id = Message(n)
  BY DEF Servers, Logs
<1>2. Len(s.log) \in Nat /\ DOMAIN s.log = 1..Len(s.log) /\ \A n \in DOMAIN s.log : s.log[n] \in EntrySet
  BY <1>1
<1> QED BY <1>1, <1>2 DEF EntrySet

LEMMA SaidShape ==
  ASSUME NEW e \in Said
  PROVE  /\ e[1] = "turn_started" => e[2] \in Prompts
         /\ e[1] \in {"interaction_request", "interaction_resolved"} => e[2] \in Asks
         /\ e[1] = "user_message" => e[2] \in Ids /\ e[3] \in Prompts
         /\ e[1] \in {"assistant_message", "text_delta"} => e[2] \in Ids
         /\ e[1] \in {"turn_started", "turn_finished", "interaction_request", "interaction_resolved",
                      "user_message", "assistant_message", "text_delta"}
BY DEF Said

-----------------------------------------------------------------------------
(* The reducer, event by event.                                            *)

IsTurn(e) == e[1] \in {"turn_started", "turn_finished"}
TurnOf(e) == IF e[1] = "turn_started" THEN e[2] ELSE None
IsAbout(e, n) == e[1] \in {"interaction_request", "interaction_resolved"} /\ e[2] = n

\* What an event does to the live state of a tab or of the server.
Turned(e, before, after) == after = IF IsTurn(e) THEN TurnOf(e) ELSE before
Asked(e, before, after) ==
  \A n \in Asks : n \in after <=> IF IsAbout(e, n) THEN e[1] = "interaction_request" ELSE n \in before

\* What an event does not touch.
Else(t, u) ==
  /\ u.id = t.id /\ u.cursor = t.cursor /\ u.loading = t.loading /\ u.prompting = t.prompting

LEMMA LiveEvents ==
  ASSUME NEW t, IsTab(t), NEW e \in Said, IsLive(e)
  PROVE  LET u == applyEvent(t, e) IN
         /\ IsTab(u) /\ Else(t, u) /\ u.seen = t.seen
         /\ Turned(e, t.turn, u.turn) /\ Asked(e, t.pending, u.pending)
         /\ SameItems(t.items, u.items)
<1>1. t \in Tabs /\ IsItems(t.items)
  BY DEF IsTab
<1>2. SameItems(t.items, t.items)
  BY DEF SameItems
<1>3. CASE e[1] = "turn_started"
  <2>1. applyEvent(t, e) = [t EXCEPT !.turn = e[2]]
    BY <1>3 DEF applyEvent
  <2>2. e[2] \in Turns
    BY <1>3, SaidShape DEF Turns
  <2>3. [t EXCEPT !.turn = e[2]] \in Tabs
    BY <1>1, <2>2 DEF Tabs
  <2> QED BY <1>1, <1>2, <1>3, <2>1, <2>3 DEF IsTab, Else, Turned, Asked, IsTurn, TurnOf, IsAbout, Tabs
<1>4. CASE e[1] = "turn_finished"
  <2>1. applyEvent(t, e) = [t EXCEPT !.turn = None, !.items = Settled(t.items)]
    BY <1>4 DEF applyEvent
  <2>2. IsItems(Settled(t.items)) /\ SameItems(t.items, Settled(t.items))
    BY <1>1, SettledItems
  <2>3. Settled(t.items) \in Seq(ItemSet)
    BY <2>2 DEF IsItems
  <2>4. [t EXCEPT !.turn = None, !.items = Settled(t.items)] \in Tabs
    BY <1>1, <2>3 DEF Tabs, Turns
  <2> QED BY <1>1, <1>4, <2>1, <2>2, <2>4 DEF IsTab, Else, Turned, Asked, IsTurn, TurnOf, IsAbout, Tabs
<1>5. CASE e[1] = "interaction_request"
  <2>1. applyEvent(t, e) = [t EXCEPT !.pending = t.pending \cup {e[2]}]
    BY <1>5 DEF applyEvent
  <2>2. e[2] \in Asks
    BY <1>5, SaidShape
  <2>3. [t EXCEPT !.pending = t.pending \cup {e[2]}] \in Tabs
    BY <1>1, <2>2 DEF Tabs
  <2> QED BY <1>1, <1>2, <1>5, <2>1, <2>3 DEF IsTab, Else, Turned, Asked, IsTurn, TurnOf, IsAbout, Tabs
<1>6. CASE e[1] = "interaction_resolved"
  <2>1. applyEvent(t, e) = [t EXCEPT !.pending = t.pending \ {e[2]}]
    BY <1>6 DEF applyEvent
  <2>3. [t EXCEPT !.pending = t.pending \ {e[2]}] \in Tabs
    BY <1>1 DEF Tabs
  <2> QED BY <1>1, <1>2, <1>6, <2>1, <2>3 DEF IsTab, Else, Turned, Asked, IsTurn, TurnOf, IsAbout, Tabs
<1> QED BY <1>3, <1>4, <1>5, <1>6 DEF IsLive

\* Nothing of the live state, and the screen as told by items and seen.
Screen(t, u, items, seen) ==
  /\ IsTab(u) /\ Else(t, u) /\ u.turn = t.turn /\ u.pending = t.pending
  /\ u.items = items /\ u.seen = seen

LEMMA ScreenChange ==
  ASSUME NEW t, IsTab(t), NEW items, IsItems(items), NEW seen \in SUBSET Ids
  PROVE  Screen(t, [t EXCEPT !.items = items, !.seen = seen], items, seen)
<1>1. t \in Tabs /\ items \in Seq(ItemSet)
  BY DEF IsTab, IsItems
<1>2. [t EXCEPT !.items = items, !.seen = seen] \in Tabs
  BY <1>1 DEF Tabs
<1> QED BY <1>1, <1>2 DEF Screen, IsTab, Else, Tabs

LEMMA UserMessages ==
  ASSUME NEW t, IsTab(t), NEW e \in Said, e[1] = "user_message"
  PROVE  LET u == applyEvent(t, e) IN
         \/ /\ Screen(t, u, u.items, t.seen \cup {e[2]}) /\ SameItems(t.items, u.items)
            /\ \E i \in DOMAIN t.items : t.items[i].id = Local(e[3]) /\ u.items[i].x = None
         \/ e[2] \in t.seen /\ Waits(t.items, e[3]) = {} /\ Screen(t, u, t.items, t.seen)
         \/ /\ e[2] \notin t.seen /\ Waits(t.items, e[3]) = {}
            /\ Screen(t, u, u.items, t.seen \cup {e[2]}) /\ OneMore(t.items, u.items, e[2], None)
<1> DEFINE s == t.items
           x == e[3]
           u == applyEvent(t, e)
<1>1. t \in Tabs /\ IsItems(s) /\ t.seen \in SUBSET Ids
  BY DEF IsTab, Tabs
<1>2. e[2] \in Ids /\ x \in Prompts /\ t.seen \cup {e[2]} \in SUBSET Ids
  BY <1>1, SaidShape
<1>3. u = userMessage(t, e[2], x)
  BY DEF applyEvent
<1>4. CASE Waits(s, x) # {}
  <2> DEFINE i == localEcho(s, x)
             r == [s EXCEPT ![i].x = None]
  <2>1. i \in DOMAIN s /\ s[i].id = Local(x)
    BY <1>1, <1>2, <1>4, EchoPlace
  <2> HIDE DEF i
  <2>2. IsItems(r) /\ SameItems(s, r) /\ r[i].x = None
    BY <1>1, <2>1, EchoedItems
  <2>3. u = [t EXCEPT !.items = r, !.seen = t.seen \cup {e[2]}]
    <3>1. u = [t EXCEPT !.items[i].x = None, !.seen = @ \cup {e[2]}]
      BY <1>3, <1>4 DEF userMessage, i
    <3> QED BY <1>1, <3>1 DEF Tabs
  <2> HIDE DEF r, u
  <2>4. Screen(t, u, r, t.seen \cup {e[2]})
    BY <1>2, <2>2, <2>3, ScreenChange
  <2>5. u.items = r
    BY <2>4 DEF Screen
  <2> QED BY <2>1, <2>2, <2>4, <2>5 DEF u
<1>5. CASE Waits(s, x) = {} /\ e[2] \in t.seen
  <2>1. u = t
    BY <1>3, <1>5 DEF userMessage
  <2>2. Screen(t, t, t.items, t.seen)
    BY DEF Screen, Else
  <2> QED BY <1>5, <2>1, <2>2
<1>6. CASE Waits(s, x) = {} /\ e[2] \notin t.seen
  <2> DEFINE r == Append(s, Item(e[2], None, FALSE))
  <2>1. u = [t EXCEPT !.items = r, !.seen = t.seen \cup {e[2]}]
    BY <1>1, <1>3, <1>6 DEF userMessage, Tabs
  <2>2. IsItems(r) /\ OneMore(s, r, e[2], None)
    BY <1>1, <1>2, AppendedItems DEF Turns
  <2> HIDE DEF r, u
  <2>3. Screen(t, u, r, t.seen \cup {e[2]})
    BY <1>2, <2>1, <2>2, ScreenChange
  <2>4. u.items = r
    BY <2>3 DEF Screen
  <2> QED BY <1>6, <2>2, <2>3, <2>4 DEF u
<1> QED BY <1>4, <1>5, <1>6

LEMMA AssistantMessages ==
  ASSUME NEW t, IsTab(t), NEW e \in Said, e[1] = "assistant_message", NEW n \in Nat, e[2] = Message(n)
  PROVE  LET u == applyEvent(t, e) IN
         \/ e[2] \in t.seen /\ Screen(t, u, t.items, t.seen)
         \/ Screen(t, u, u.items, t.seen \cup {e[2]}) /\ SameItems(t.items, u.items) /\ Has(t.items, e[2])
         \/ /\ Screen(t, u, u.items, t.seen \cup {e[2]}) /\ OneMore(t.items, u.items, e[2], None)
            /\ ~Has(t.items, e[2])
<1> DEFINE s == t.items
           u == applyEvent(t, e)
           r == Placed(s, e[2], FALSE)
<1>1. t \in Tabs /\ IsItems(s) /\ t.seen \in SUBSET Ids
  BY DEF IsTab, Tabs
<1>2. e[2] \in Ids /\ t.seen \cup {e[2]} \in SUBSET Ids
  BY <1>1, SaidShape
<1>3. u = assistantMessage(t, e[2])
  BY DEF applyEvent
<1>4. CASE e[2] \in t.seen /\ ~Has(s, e[2])
  <2>1. u = t
    BY <1>3, <1>4 DEF assistantMessage
  <2>2. Screen(t, t, t.items, t.seen)
    BY DEF Screen, Else
  <2> QED BY <1>4, <2>1, <2>2
<1>5. CASE ~(e[2] \in t.seen /\ ~Has(s, e[2]))
  <2>1. u = [t EXCEPT !.items = r, !.seen = t.seen \cup {e[2]}]
    BY <1>1, <1>3, <1>5 DEF assistantMessage, Tabs
  <2>2. /\ IsItems(r) /\ (Has(s, e[2]) => SameItems(s, r))
        /\ ~Has(s, e[2]) => OneMore(s, r, e[2], None)
    BY <1>1, PlacedItems
  <2> HIDE DEF r, u
  <2>3. Screen(t, u, r, t.seen \cup {e[2]})
    BY <1>2, <2>1, <2>2, ScreenChange
  <2>4. u.items = r
    BY <2>3 DEF Screen
  <2> QED BY <2>2, <2>3, <2>4 DEF u
<1> QED BY <1>4, <1>5

LEMMA TextDeltas ==
  ASSUME NEW t, IsTab(t), NEW e \in Said, e[1] = "text_delta", NEW n \in Nat, e[2] = Message(n)
  PROVE  LET u == applyEvent(t, e) IN
         /\ Screen(t, u, u.items, t.seen)
         /\ \/ SameItems(t.items, u.items) /\ Has(t.items, e[2])
            \/ OneMore(t.items, u.items, e[2], None) /\ ~Has(t.items, e[2])
<1> DEFINE s == t.items
           u == applyEvent(t, e)
           r == Placed(s, e[2], TRUE)
<1>1. t \in Tabs /\ IsItems(s) /\ t.seen \in SUBSET Ids
  BY DEF IsTab, Tabs
<1>2. u = textDelta(t, e[2])
  BY DEF applyEvent
<1>3. u = [t EXCEPT !.items = r, !.seen = t.seen]
  BY <1>1, <1>2 DEF textDelta, Tabs
<1>4. /\ IsItems(r) /\ (Has(s, e[2]) => SameItems(s, r))
      /\ ~Has(s, e[2]) => OneMore(s, r, e[2], None)
  BY <1>1, PlacedItems
<1> HIDE DEF r, u
<1>5. Screen(t, u, r, t.seen)
  BY <1>1, <1>3, <1>4, ScreenChange
<1>6. u.items = r
  BY <1>5 DEF Screen
<1> QED BY <1>4, <1>5, <1>6 DEF u

\* Every event keeps a tab a tab.
LEMMA EventsTyped ==
  ASSUME NEW t, IsTab(t), NEW e \in Said, NEW s \in Servers, EventOK(s, e)
  PROVE  IsTab(applyEvent(t, e)) /\ Else(t, applyEvent(t, e))
<1>1. CASE IsLive(e)
  BY <1>1, LiveEvents
<1>2. CASE e[1] = "user_message"
  BY <1>2, UserMessages DEF Screen
<1>3. CASE e[1] = "assistant_message"
  <2>1. PICK n \in DOMAIN s.log : e[2] = Message(n)
    BY <1>3 DEF EventOK
  <2>2. n \in Nat
    BY LogShape
  <2> QED BY <1>3, <2>1, <2>2, AssistantMessages DEF Screen
<1>4. CASE e[1] = "text_delta"
  <2>1. PICK n \in 1..(Len(s.log) + 1) : e[2] = Message(n)
    BY <1>4 DEF EventOK
  <2>2. n \in Nat
    BY LogShape
  <2> QED BY <1>4, <2>1, <2>2, TextDeltas DEF Screen
<1> QED BY <1>1, <1>2, <1>3, <1>4, SaidShape DEF IsLive

-----------------------------------------------------------------------------
(* What the server does, action by action: its state, and what it says.    *)

LEMMA ServerShape ==
  ASSUME NEW s \in Servers
  PROVE  /\ s.log \in Logs /\ s.pending \in SUBSET Asks /\ s.asked \in Nat /\ s.turn \in Turns
         /\ s.streams \in BOOLEAN /\ s.ver \in Nat
BY DEF Servers

LEMMA LogAppended ==
  ASSUME NEW s \in Servers, NEW x \in Turns, Len(s.log) + 1 <= MaxLog
  PROVE  LET g == Append(s.log, Entry(Len(s.log) + 1, x)) IN
         /\ g \in Logs /\ Len(g) = Len(s.log) + 1 /\ DOMAIN g = 1..(Len(s.log) + 1)
         /\ \A n \in DOMAIN s.log : n \in DOMAIN g /\ g[n] = s.log[n]
         /\ g[Len(s.log) + 1] = Entry(Len(s.log) + 1, x)
         /\ \A n \in DOMAIN g : n \in DOMAIN s.log \/ n = Len(s.log) + 1
<1> DEFINE n == Len(s.log) + 1
           a == Entry(n, x)
           g == Append(s.log, a)
<1>1. s.log \in Seq(EntrySet) /\ Len(s.log) \in Nat /\ DOMAIN s.log = 1..Len(s.log)
      /\ \A k \in DOMAIN s.log : s.log[k].id = Message(k)
  BY LogShape
<1>2. a \in EntrySet /\ a.id = Message(n) /\ n \in Nat
  BY <1>1, Names DEF Entry, EntrySet
<1> HIDE DEF a
<1>3. /\ g \in Seq(EntrySet) /\ Len(g) = Len(s.log) + 1 /\ DOMAIN g = 1..(Len(s.log) + 1)
      /\ \A k \in 1..Len(s.log) : g[k] = s.log[k]
      /\ g[Len(s.log) + 1] = a
  BY <1>1, <1>2
<1>4. \A k \in 1..(Len(s.log) + 1) : k \in 1..Len(s.log) \/ k = Len(s.log) + 1
  BY <1>1
<1> HIDE DEF g
<1>5. \A k \in DOMAIN g : g[k].id = Message(k)
  BY <1>1, <1>2, <1>3, <1>4
<1>6. g \in Logs
  BY <1>3, <1>5 DEF Logs
<1>7. \A k \in DOMAIN s.log : k \in DOMAIN g /\ g[k] = s.log[k]
  BY <1>1, <1>3
<1>8. \A k \in DOMAIN g : k \in DOMAIN s.log \/ k = Len(s.log) + 1
  BY <1>1, <1>3, <1>4
<1> QED BY <1>3, <1>6, <1>7, <1>8 DEF g, a

\* What it says reaches the stream that is there to hear it.
Acts(events) ==
  /\ wire' = IF wire.open THEN [wire EXCEPT !.events = @ \o events] ELSE wire
  /\ UNCHANGED <<tab, fetch, h>>

SameLog == server'.log = server.log
MoreLog(x) ==
  /\ Len(server.log) + 1 <= MaxLog
  /\ server'.log = Append(server.log, Entry(Len(server.log) + 1, x))

UserMessage(n, x) == <<"user_message", IF SameId THEN Message(n) ELSE Local(x), x>>

LEMMA TakesStep ==
  ASSUME ServerTyped, NEW x \in Prompts, ServerTakes(x)
  PROVE  /\ server' \in Servers /\ MoreLog(x) /\ server'.turn = x
         /\ server.turn = None /\ server'.streams = server.streams
         /\ server'.pending = server.pending /\ server'.ver = server.ver + 1
         /\ Acts(<<<<"turn_started", x>>, UserMessage(Len(server.log) + 1, x)>>)
         /\ call[x] \in {"new", "sent", "cut"}
         /\ call' = [call EXCEPT ![x] = IF @ = "sent" THEN "taken" ELSE "returned"]
<1> DEFINE n == Len(server.log) + 1
           s == [server EXCEPT !.log = Append(@, Entry(n, x)), !.turn = x]
<1>1. /\ call[x] \in {"new", "sent", "cut"} /\ server.turn = None /\ n <= MaxLog
      /\ call' = [call EXCEPT ![x] = IF @ = "sent" THEN "taken" ELSE "returned"]
      /\ server' = [s EXCEPT !.ver = @ + 1]
      /\ Acts(<<<<"turn_started", x>>, UserMessage(Len(server.log) + 1, x)>>)
  BY DEF ServerTakes, Publish, Acts, UserMessage, Entry
<1>2. server \in Servers
  BY DEF ServerTyped
<1>3. Append(server.log, Entry(n, x)) \in Logs
  BY <1>1, <1>2, LogAppended DEF Turns
<1>4. /\ server' \in Servers /\ server'.log = Append(server.log, Entry(n, x)) /\ server'.turn = x
      /\ server'.streams = server.streams /\ server'.pending = server.pending
      /\ server'.ver = server.ver + 1
  <2> DEFINE g == Append(server.log, Entry(n, x))
  <2>1. server' = [server EXCEPT !.log = g, !.turn = x, !.ver = server.ver + 1]
    BY <1>1, <1>2 DEF Servers
  <2>2. server.ver + 1 \in Nat /\ x \in Turns /\ g \in Logs
    BY <1>2, <1>3, ServerShape DEF Turns
  <2> HIDE DEF g
  <2>3. /\ server' \in Servers /\ server'.log = g /\ server'.turn = x
        /\ server'.streams = server.streams /\ server'.pending = server.pending
        /\ server'.ver = server.ver + 1
    BY <1>2, <2>1, <2>2 DEF Servers
  <2> QED BY <2>3 DEF g
<1> QED BY <1>1, <1>4 DEF MoreLog

LEMMA StreamsStep ==
  ASSUME ServerTyped, ServerStreams
  PROVE  /\ server' \in Servers /\ SameLog /\ server'.turn = server.turn /\ server.turn # None
         /\ ~server.streams /\ server'.streams /\ Len(server.log) < MaxLog
         /\ server'.pending = server.pending /\ server'.ver = server.ver
         /\ Acts(<<<<"text_delta", Message(Len(server.log) + 1)>>>>) /\ call' = call
<1> DEFINE s == [server EXCEPT !.streams = TRUE]
<1>1. /\ server.turn # None /\ ~server.streams /\ Len(server.log) < MaxLog
      /\ server' = [s EXCEPT !.ver = @]
      /\ Acts(<<<<"text_delta", Message(Len(server.log) + 1)>>>>) /\ call' = call
  BY DEF ServerStreams, Publish, Acts
<1>2. server \in Servers
  BY DEF ServerTyped
<1>3. /\ server' \in Servers /\ server'.log = server.log /\ server'.turn = server.turn
      /\ server'.streams /\ server'.pending = server.pending /\ server'.ver = server.ver
  BY <1>1, <1>2 DEF Servers
<1> QED BY <1>1, <1>3 DEF SameLog

LEMMA SettlesStep ==
  ASSUME ServerTyped, ServerSettles
  PROVE  /\ server' \in Servers /\ MoreLog(None) /\ server'.turn = server.turn
         /\ server.turn # None /\ ~server'.streams
         /\ server'.pending = server.pending /\ server'.ver = server.ver
         /\ Acts(<<<<"assistant_message", Message(Len(server.log) + 1)>>>>) /\ call' = call
<1> DEFINE n == Len(server.log) + 1
           s == [server EXCEPT !.log = Append(@, Entry(n, None)), !.streams = FALSE]
<1>0. server \in Servers /\ Len(server.log) \in Nat
  BY LogShape DEF ServerTyped
<1>1. /\ server.turn # None /\ n <= MaxLog
      /\ server' = [s EXCEPT !.ver = @]
      /\ Acts(<<<<"assistant_message", Message(Len(server.log) + 1)>>>>) /\ call' = call
  BY <1>0, StoreAssumption DEF ServerSettles, Publish, Acts, Entry
<1>3. Append(server.log, Entry(n, None)) \in Logs
  BY <1>0, <1>1, LogAppended DEF Turns
<1>4. /\ server' \in Servers /\ server'.log = Append(server.log, Entry(n, None))
      /\ server'.turn = server.turn
      /\ ~server'.streams /\ server'.pending = server.pending /\ server'.ver = server.ver
  BY <1>0, <1>1, <1>3 DEF Servers
<1> QED BY <1>1, <1>4 DEF MoreLog

LEMMA AsksStep ==
  ASSUME ServerTyped, ServerAsks
  PROVE  LET n == server.asked + 1 IN
         /\ server' \in Servers /\ SameLog /\ server'.turn = server.turn /\ server.turn # None
         /\ server'.streams = server.streams /\ n \in Asks
         /\ server'.pending = server.pending \cup {n} /\ server'.ver = server.ver + 1
         /\ Acts(<<<<"interaction_request", n>>>>) /\ call' = call
<1> DEFINE n == server.asked + 1
           s == [server EXCEPT !.asked = n, !.pending = @ \cup {n}]
<1>1. /\ server.turn # None /\ n \in Asks
      /\ server' = [s EXCEPT !.ver = @ + 1]
      /\ Acts(<<<<"interaction_request", n>>>>) /\ call' = call
  BY DEF ServerAsks, Publish, Acts
<1>2. server \in Servers
  BY DEF ServerTyped
<1>3. /\ server' \in Servers /\ server'.log = server.log /\ server'.turn = server.turn
      /\ server'.streams = server.streams /\ server'.pending = server.pending \cup {n}
      /\ server'.ver = server.ver + 1
  <2>1. server' = [server EXCEPT !.asked = n, !.pending = server.pending \cup {n},
                                 !.ver = server.ver + 1]
    BY <1>1, <1>2 DEF Servers
  <2>2. server.ver + 1 \in Nat /\ server.pending \cup {n} \in SUBSET Asks /\ n \in Nat
    BY <1>1, <1>2, ServerShape
  <2> HIDE DEF n
  <2> QED BY <1>2, <2>1, <2>2 DEF Servers
<1> QED BY <1>1, <1>3 DEF SameLog

LEMMA ResolvesStep ==
  ASSUME ServerTyped, NEW n \in Asks, ServerResolves(n)
  PROVE  /\ server' \in Servers /\ SameLog /\ server'.turn = server.turn
         /\ server'.streams = server.streams
         /\ server'.pending = server.pending \ {n} /\ server'.ver = server.ver + 1
         /\ Acts(<<<<"interaction_resolved", n>>>>) /\ call' = call
<1> DEFINE s == [server EXCEPT !.pending = @ \ {n}]
<1>1. /\ server' = [s EXCEPT !.ver = @ + 1]
      /\ Acts(<<<<"interaction_resolved", n>>>>) /\ call' = call
  BY DEF ServerResolves, Publish, Acts
<1>2. server \in Servers
  BY DEF ServerTyped
<1>3. /\ server' \in Servers /\ server'.log = server.log /\ server'.turn = server.turn
      /\ server'.streams = server.streams /\ server'.pending = server.pending \ {n}
      /\ server'.ver = server.ver + 1
  <2>1. server' = [server EXCEPT !.pending = server.pending \ {n}, !.ver = server.ver + 1]
    BY <1>1, <1>2 DEF Servers
  <2>2. server.ver + 1 \in Nat /\ server.pending \ {n} \in SUBSET Asks
    BY <1>2, ServerShape
  <2> QED BY <1>2, <2>1, <2>2 DEF Servers
<1> QED BY <1>1, <1>3 DEF SameLog

LEMMA FinishesStep ==
  ASSUME ServerTyped, ServerFinishes
  PROVE  /\ server' \in Servers /\ SameLog /\ server'.turn = None
         /\ ~server.streams /\ server'.streams = server.streams
         /\ server'.pending = server.pending /\ server'.ver = server.ver + 1
         /\ Acts(<<<<"turn_finished">>>>) /\ call' = call
<1> DEFINE s == [server EXCEPT !.turn = None]
<1>1. /\ ~server.streams /\ server' = [s EXCEPT !.ver = @ + 1]
      /\ Acts(<<<<"turn_finished">>>>) /\ call' = call
  BY DEF ServerFinishes, Publish, Acts
<1>2. server \in Servers
  BY DEF ServerTyped
<1>3. /\ server' \in Servers /\ server'.log = server.log /\ server'.turn = None
      /\ server'.streams = server.streams /\ server'.pending = server.pending
      /\ server'.ver = server.ver + 1
  <2>1. server' = [server EXCEPT !.turn = None, !.ver = server.ver + 1]
    BY <1>1, <1>2 DEF Servers
  <2>2. server.ver + 1 \in Nat /\ None \in Turns
    BY <1>2, ServerShape DEF Turns
  <2> QED BY <1>2, <2>1, <2>2 DEF Servers
<1> QED BY <1>1, <1>3 DEF SameLog

\* The stream after the server said something.
Heard(w, v, events) ==
  /\ v \in Wires /\ v.open = w.open /\ v.ver = w.ver /\ v.synced = w.synced
  /\ ~w.open => v = w
  /\ w.open =>
       /\ v.events = w.events \o events
       /\ Len(v.events) = Len(w.events) + Len(events)
       /\ DOMAIN v.events = 1..(Len(w.events) + Len(events)) /\ DOMAIN w.events = 1..Len(w.events)
       /\ \A k \in DOMAIN w.events : v.events[k] = w.events[k]
       /\ \A k \in DOMAIN events : v.events[Len(w.events) + k] = events[k]
       /\ \A k \in DOMAIN v.events : k \in DOMAIN w.events \/ \E j \in DOMAIN events : k = Len(w.events) + j

LEMMA WireShape ==
  ASSUME NEW w \in Wires
  PROVE  /\ w.open \in BOOLEAN /\ w.events \in Seq(Said) /\ w.ver \in Nat /\ w.synced \in BOOLEAN
         /\ Len(w.events) \in Nat /\ DOMAIN w.events = 1..Len(w.events)
         /\ \A k \in DOMAIN w.events : w.events[k] \in Said
<1>1. w.open \in BOOLEAN /\ w.events \in Seq(Said) /\ w.ver \in Nat /\ w.synced \in BOOLEAN
  BY DEF Wires
<1> QED BY <1>1

LEMMA ActsHeard ==
  ASSUME wire \in Wires, NEW events \in Seq(Said), Acts(events)
  PROVE  Heard(wire, wire', events)
<1>1. wire.events \in Seq(Said) /\ Len(wire.events) \in Nat /\ DOMAIN wire.events = 1..Len(wire.events)
  BY WireShape
<1>2. Len(events) \in Nat /\ DOMAIN events = 1..Len(events)
  OBVIOUS
<1>3. CASE ~wire.open
  BY <1>3 DEF Acts, Heard
<1>4. CASE wire.open
  <2> DEFINE c == wire.events \o events
  <2>1. c \in Seq(Said) /\ Len(c) = Len(wire.events) + Len(events)
        /\ DOMAIN c = 1..(Len(wire.events) + Len(events))
    BY <1>1, <1>2
  <2>2. \A k \in 1..Len(wire.events) : c[k] = wire.events[k]
    BY <1>1, <1>2
  <2>3. \A k \in 1..Len(events) : c[Len(wire.events) + k] = events[k]
    BY <1>1, <1>2
  <2>4. wire' = [wire EXCEPT !.events = c]
    BY <1>4 DEF Acts
  <2> HIDE DEF c
  <2>5. /\ wire' \in Wires /\ wire'.open = wire.open /\ wire'.ver = wire.ver
        /\ wire'.synced = wire.synced /\ wire'.events = c
    BY <2>1, <2>4 DEF Wires
  <2>6. \A k \in 1..(Len(wire.events) + Len(events)) :
          k \in 1..Len(wire.events) \/ \E j \in 1..Len(events) : k = Len(wire.events) + j
    <3> TAKE k \in 1..(Len(wire.events) + Len(events))
    <3>1. CASE ~(k <= Len(wire.events))
      <4>1. k - Len(wire.events) \in 1..Len(events) /\ k = Len(wire.events) + (k - Len(wire.events))
        BY <1>1, <1>2, <3>1
      <4> QED BY <4>1
    <3> QED BY <1>1, <3>1
  <2>7. c = wire.events \o events
    BY DEF c
  <2> QED BY <1>1, <1>2, <1>4, <2>1, <2>2, <2>3, <2>5, <2>6, <2>7 DEF Heard
<1> QED BY <1>1, <1>3, <1>4, WireShape

-----------------------------------------------------------------------------
(* Types are kept.                                                         *)

\* The log only grows, and what streams stays or is settled.
LogKept(s, u) ==
  /\ \A n \in DOMAIN s.log : n \in DOMAIN u.log /\ u.log[n] = s.log[n]
  /\ Len(s.log) <= Len(u.log)
  /\ s.streams => IF Len(u.log) = Len(s.log) THEN u.streams
                  ELSE Len(s.log) + 1 \in DOMAIN u.log /\ u.log[Len(s.log) + 1].x = None

LEMMA EventKept ==
  ASSUME NEW s \in Servers, NEW u \in Servers, LogKept(s, u), NEW e, EventOK(s, e)
  PROVE  EventOK(u, e)
<1>1. /\ Len(s.log) \in Nat /\ DOMAIN s.log = 1..Len(s.log)
      /\ Len(u.log) \in Nat /\ DOMAIN u.log = 1..Len(u.log)
  BY LogShape
<1>2. \A n \in DOMAIN s.log : n \in DOMAIN u.log /\ u.log[n] = s.log[n]
  BY DEF LogKept
<1>3. e[1] = "user_message" =>
        \E n \in DOMAIN u.log : /\ u.log[n].x = e[3]
                                /\ e[2] = IF SameId THEN Message(n) ELSE Local(e[3])
  BY <1>2 DEF EventOK
<1>4. e[1] = "assistant_message" => \E n \in DOMAIN u.log : u.log[n].x = None /\ e[2] = Message(n)
  BY <1>2 DEF EventOK
<1>5. ASSUME e[1] = "text_delta"
      PROVE  \E n \in 1..(Len(u.log) + 1) :
               e[2] = Message(n) /\ IF n \in DOMAIN u.log THEN u.log[n].x = None ELSE u.streams
  <2>1. PICK n \in 1..(Len(s.log) + 1) :
          e[2] = Message(n) /\ IF n \in DOMAIN s.log THEN s.log[n].x = None ELSE s.streams
    BY <1>5 DEF EventOK
  <2>2. CASE n \in DOMAIN s.log
    <3>1. n \in DOMAIN u.log /\ u.log[n].x = None /\ n \in 1..(Len(u.log) + 1)
      BY <1>1, <1>2, <2>1, <2>2
    <3> QED BY <2>1, <3>1
  <2>3. CASE n \notin DOMAIN s.log
    <3>1. n = Len(s.log) + 1 /\ s.streams
      BY <1>1, <2>1, <2>3
    <3>2. IF Len(u.log) = Len(s.log) THEN u.streams
          ELSE n \in DOMAIN u.log /\ u.log[n].x = None
      BY <3>1 DEF LogKept
    <3>3. Len(u.log) = Len(s.log) => n \notin DOMAIN u.log /\ n \in 1..(Len(u.log) + 1)
      BY <1>1, <3>1
    <3>4. n \in DOMAIN u.log => n \in 1..(Len(u.log) + 1)
      BY <1>1
    <3> QED BY <2>1, <3>2, <3>3, <3>4
  <2> QED BY <2>2, <2>3
<1> QED BY <1>3, <1>4, <1>5 DEF EventOK

LEMMA PageKept ==
  ASSUME NEW s, NEW u, LogKept(s, u), NEW page, PageOK(s, page)
  PROVE  PageOK(u, page)
BY DEF LogKept, PageOK

LEMMA SameKept == ASSUME NEW s, NEW u, s \in Servers, u.log = s.log, s.streams => u.streams
                  PROVE  LogKept(s, u)
BY LogShape DEF LogKept

LEMMA MoreKept ==
  ASSUME ServerTyped, NEW x \in Turns, MoreLog(x), server.streams => x = None
  PROVE  LogKept(server, server')
<1>1. server \in Servers
  BY DEF ServerTyped
<1>2. Len(server.log) \in Nat
  BY <1>1, LogShape
<1>3. /\ Len(server'.log) = Len(server.log) + 1 /\ DOMAIN server'.log = 1..(Len(server.log) + 1)
      /\ \A n \in DOMAIN server.log : n \in DOMAIN server'.log /\ server'.log[n] = server.log[n]
      /\ server'.log[Len(server.log) + 1] = Entry(Len(server.log) + 1, x)
  BY <1>1, LogAppended DEF MoreLog
<1> QED BY <1>2, <1>3 DEF LogKept, Entry

LEMMA ServerTypes ==
  ASSUME Typed, server' \in Servers, server'.streams => server'.turn # None,
         LogKept(server, server'), NEW events \in Seq(Said),
         \A k \in DOMAIN events : EventOK(server', events[k]), Acts(events), CallTyped'
  PROVE  Typed'
<1>1. server \in Servers /\ wire \in Wires /\ UNCHANGED <<tab, fetch, h>>
  BY DEF Typed, ServerTyped, WireTyped, Acts
<1>2. Heard(wire, wire', events)
  BY <1>1, ActsHeard
<1>3. ServerTyped'
  BY DEF ServerTyped
<1>4. WireTyped'
  <2>1. wire' \in Wires /\ (wire'.open => tab'.id = "this") /\ (~wire'.open => wire'.events = <<>>)
    BY <1>1, <1>2 DEF Heard, Typed, WireTyped
  <2>2. ASSUME NEW k \in DOMAIN wire'.events PROVE EventOK(server', wire'.events[k])
    <3>1. CASE ~wire.open
      <4>1. wire' = wire
        BY <1>2, <3>1 DEF Heard
      <4>2. EventOK(server, wire.events[k])
        BY <2>2, <4>1 DEF Typed, WireTyped
      <4> QED BY <1>1, <4>1, <4>2, EventKept
    <3>2. CASE wire.open /\ k \in DOMAIN wire.events
      <4>1. wire'.events[k] = wire.events[k]
        BY <1>2, <3>2 DEF Heard
      <4>2. EventOK(server, wire.events[k])
        BY <3>2 DEF Typed, WireTyped
      <4> QED BY <1>1, <4>1, <4>2, EventKept
    <3>3. CASE wire.open /\ k \notin DOMAIN wire.events
      <4>1. PICK j \in DOMAIN events : k = Len(wire.events) + j
        BY <1>2, <2>2, <3>3 DEF Heard
      <4>2. wire'.events[k] = events[j]
        BY <1>2, <3>3, <4>1 DEF Heard
      <4> QED BY <4>2
    <3> QED BY <3>1, <3>2, <3>3
  <2> QED BY <2>1, <2>2 DEF WireTyped
<1>5. Len(server.log) <= Len(server'.log) /\ Len(server.log) \in Nat /\ Len(server'.log) \in Nat
  BY <1>1, LogShape DEF LogKept
<1>6. TabTyped'
  <2>1. tab.cursor \in Int /\ tab.cursor <= Len(server.log) /\ IsTab(tab)
    BY DEF Typed, TabTyped, IsTab, Tabs
  <2> QED BY <1>1, <1>5, <2>1 DEF TabTyped
<1>7. FetchTyped'
  <2>1. fetch' = fetch /\ fetch \in [Fetches -> FetchSet]
    BY <1>1 DEF Typed, FetchTyped
  <2>2. wire'.open = wire.open
    BY <1>2 DEF Heard
  <2>3. ASSUME NEW r \in Fetches
        PROVE  /\ fetch[r].at = "none" => fetch[r] = NoFetch
               /\ PageOK(server', fetch[r].page) /\ fetch[r].before <= Len(server'.log)
               /\ fetch[r].fresh /\ ~fetch[r].older => wire.open
    <3>1. /\ fetch[r].at = "none" => fetch[r] = NoFetch
          /\ PageOK(server, fetch[r].page) /\ fetch[r].before <= Len(server.log)
          /\ fetch[r].fresh /\ ~fetch[r].older => wire.open
      BY DEF Typed, FetchTyped
    <3>2. fetch[r].before \in Int
      BY <2>1 DEF FetchSet
    <3> QED BY <1>5, <3>1, <3>2, PageKept
  <2> QED BY <2>1, <2>2, <2>3 DEF FetchTyped
<1> QED BY <1>1, <1>3, <1>4, <1>6, <1>7 DEF Typed, HistoryTyped, NotAnothers

LEMMA TakesTyped ==
  ASSUME Typed, NEW x \in Prompts, ServerTakes(x)
  PROVE  Typed' /\ LogKept(server, server')
<1> DEFINE n == Len(server.log) + 1
           events == <<<<"turn_started", x>>, UserMessage(n, x)>>
<1>1. ServerTyped /\ server \in Servers
  BY DEF Typed, ServerTyped
<1>2. /\ server' \in Servers /\ MoreLog(x) /\ server'.turn = x
      /\ server.turn = None /\ server'.streams = server.streams /\ Acts(events)
      /\ call' = [call EXCEPT ![x] = IF @ = "sent" THEN "taken" ELSE "returned"]
  BY <1>1, TakesStep
<1>3. x \in Turns /\ x # None /\ ~server.streams
  BY <1>1, <1>2, StoreAssumption DEF Turns, ServerTyped
<1>4. LogKept(server, server')
  BY <1>1, <1>2, <1>3, MoreKept
<1>5. /\ n \in DOMAIN server'.log /\ server'.log[n] = Entry(n, x) /\ n \in Nat
  <2>1. Len(server.log) \in Nat
    BY <1>1, LogShape
  <2> QED BY <1>1, <1>2, <1>3, <2>1, LogAppended DEF MoreLog
<1>6. UserMessage(n, x) \in Said /\ <<"turn_started", x>> \in Said
  <2>1. (IF SameId THEN Message(n) ELSE Local(x)) \in Ids
    BY <1>5, Names
  <2> QED BY <2>1 DEF Said, UserMessage
<1>7. EventOK(server', UserMessage(n, x))
  BY <1>5 DEF EventOK, UserMessage, Entry
<1>8. EventOK(server', <<"turn_started", x>>)
  BY DEF EventOK
<1>9. CallTyped'
  BY <1>2 DEF Typed, CallTyped, Calls
<1>10. events \in Seq(Said) /\ \A k \in DOMAIN events : EventOK(server', events[k])
  <2> HIDE DEF n
  <2>1. DOMAIN events = {1, 2} /\ events[1] = <<"turn_started", x>> /\ events[2] = UserMessage(n, x)
    OBVIOUS
  <2> QED BY <1>6, <1>7, <1>8, <2>1
<1> HIDE DEF events
<1> QED BY <1>2, <1>3, <1>4, <1>9, <1>10, ServerTypes

LEMMA OneEvent ==
  ASSUME NEW e \in Said
  PROVE  <<e>> \in Seq(Said) /\ DOMAIN <<e>> = {1} /\ Len(<<e>>) = 1 /\ <<e>>[1] = e
OBVIOUS

LEMMA ServerStepTyped ==
  ASSUME Typed, ServerStep
  PROVE  Typed' /\ LogKept(server, server')
<1> DEFINE n == Len(server.log) + 1
<1>1. ServerTyped /\ server \in Servers /\ Len(server.log) \in Nat
  BY LogShape DEF Typed, ServerTyped
<1>2. /\ DOMAIN server.log = 1..Len(server.log) /\ n \in Nat /\ Message(n) \in Ids
      /\ n \in 1..(Len(server.log) + 1)
  BY <1>1, LogShape, Names
<1>3. call' = call => CallTyped'
  BY DEF Typed, CallTyped
<1>4. CASE ServerStreams
  <2> DEFINE e == <<"text_delta", Message(n)>>
  <2>1. /\ server' \in Servers /\ SameLog /\ server'.turn # None /\ server'.streams
        /\ ~server.streams /\ Acts(<<e>>) /\ call' = call
    BY <1>1, <1>4, StreamsStep
  <2>2. LogKept(server, server')
    BY <1>1, <2>1, SameKept DEF SameLog
  <2>3. e \in Said
    BY <1>2 DEF Said
  <2>4. EventOK(server', e)
    <3>1. n \notin DOMAIN server'.log /\ n \in 1..(Len(server'.log) + 1)
      BY <1>1, <1>2, <2>1 DEF SameLog
    <3> QED BY <2>1, <3>1 DEF EventOK
  <2> HIDE DEF e, n
  <2>5. <<e>> \in Seq(Said) /\ \A k \in DOMAIN <<e>> : EventOK(server', <<e>>[k])
    BY <2>3, <2>4, OneEvent
  <2> QED BY <1>3, <2>1, <2>2, <2>5, ServerTypes
<1>5. CASE ServerSettles
  <2> DEFINE e == <<"assistant_message", Message(n)>>
  <2>1. /\ server' \in Servers /\ MoreLog(None) /\ ~server'.streams /\ Acts(<<e>>) /\ call' = call
    BY <1>1, <1>5, SettlesStep
  <2>2. LogKept(server, server')
    BY <1>1, <2>1, MoreKept DEF Turns
  <2>3. e \in Said
    BY <1>2 DEF Said
  <2>4. EventOK(server', e)
    <3>1. n \in DOMAIN server'.log /\ server'.log[n] = Entry(n, None)
      BY <1>1, <1>2, <2>1, LogAppended DEF MoreLog, Turns
    <3> QED BY <3>1 DEF EventOK, Entry
  <2> HIDE DEF e
  <2> QED BY <1>3, <2>1, <2>2, <2>3, <2>4, OneEvent, ServerTypes
<1>6. CASE ServerAsks
  <2> DEFINE e == <<"interaction_request", server.asked + 1>>
  <2>1. /\ server' \in Servers /\ SameLog /\ server'.turn # None /\ server.asked + 1 \in Asks
        /\ server'.streams = server.streams /\ Acts(<<e>>) /\ call' = call
    BY <1>1, <1>6, AsksStep
  <2>2. LogKept(server, server')
    BY <1>1, <2>1, SameKept DEF SameLog
  <2>3. e \in Said /\ EventOK(server', e)
    BY <2>1 DEF Said, EventOK
  <2> HIDE DEF e
  <2> QED BY <1>3, <2>1, <2>2, <2>3, OneEvent, ServerTypes
<1>7. CASE ServerFinishes
  <2> DEFINE e == <<"turn_finished">>
  <2>1. /\ server' \in Servers /\ SameLog /\ ~server.streams
        /\ server'.streams = server.streams /\ Acts(<<e>>) /\ call' = call
    BY <1>1, <1>7, FinishesStep
  <2>2. LogKept(server, server')
    BY <1>1, <2>1, SameKept DEF SameLog
  <2>3. e \in Said /\ EventOK(server', e)
    BY DEF Said, EventOK
  <2> HIDE DEF e
  <2> QED BY <1>3, <2>1, <2>2, <2>3, OneEvent, ServerTypes
<1>8. ASSUME NEW a \in Asks, ServerResolves(a) PROVE Typed' /\ LogKept(server, server')
  <2> DEFINE e == <<"interaction_resolved", a>>
  <2>1. /\ server' \in Servers /\ SameLog /\ server'.turn = server.turn
        /\ server'.streams = server.streams /\ Acts(<<e>>) /\ call' = call
    BY <1>1, <1>8, ResolvesStep
  <2>2. LogKept(server, server')
    BY <1>1, <2>1, SameKept DEF SameLog
  <2>3. e \in Said /\ EventOK(server', e)
    BY DEF Said, EventOK
  <2>4. server'.streams => server'.turn # None
    BY <1>1, <2>1 DEF ServerTyped
  <2> HIDE DEF e
  <2> QED BY <1>3, <2>1, <2>2, <2>3, <2>4, OneEvent, ServerTypes
<1> QED BY <1>4, <1>5, <1>6, <1>7, <1>8 DEF ServerStep

-----------------------------------------------------------------------------
(* What the tab does of itself.                                            *)

LEMMA BlankTab ==
  /\ IsTab(Blank) /\ Blank.items = <<>> /\ Blank.seen = {} /\ Blank.id = "this"
  /\ Blank.cursor = 0 /\ Blank.loading
  /\ LET o == [Blank EXCEPT !.id = "other"] IN
     /\ IsTab(o) /\ o.items = <<>> /\ o.seen = {} /\ o.pending = {} /\ o.turn = None
     /\ o.cursor = 0 /\ o.id = "other"
<1>1. IsItems(<<>>) /\ <<>> \in Seq(ItemSet)
  BY DEF IsItems
<1>2. Blank \in Tabs
  BY <1>1, StoreAssumption DEF Blank, Tabs, Turns
<1>3. Blank.items = <<>> /\ [Blank EXCEPT !.id = "other"].items = <<>>
  BY DEF Blank
<1>4. [Blank EXCEPT !.id = "other"] \in Tabs
  BY <1>2 DEF Tabs
<1> QED BY <1>1, <1>2, <1>3, <1>4 DEF IsTab, Blank

LEMMA LocalPrompts ==
  ASSUME NEW t, IsTab(t), NEW x \in Prompts
  PROVE  LET u == localPrompt(t, x) IN
         Screen(t, u, u.items, t.seen \cup {Local(x)}) /\ OneMore(t.items, u.items, Local(x), x)
<1> DEFINE u == localPrompt(t, x)
           r == Append(t.items, Item(Local(x), x, FALSE))
<1>1. t \in Tabs /\ IsItems(t.items) /\ t.seen \in SUBSET Ids
  BY DEF IsTab, Tabs
<1>2. Local(x) \in Ids /\ t.seen \cup {Local(x)} \in SUBSET Ids /\ x \in Turns
  BY <1>1, Names DEF Turns
<1>3. u = [t EXCEPT !.items = r, !.seen = t.seen \cup {Local(x)}]
  BY <1>1 DEF localPrompt, Tabs
<1>4. IsItems(r) /\ OneMore(t.items, r, Local(x), x)
  BY <1>1, <1>2, AppendedItems
<1> HIDE DEF r, u
<1>5. Screen(t, u, r, t.seen \cup {Local(x)})
  BY <1>2, <1>3, <1>4, ScreenChange
<1>6. u.items = r
  BY <1>5 DEF Screen
<1> QED BY <1>4, <1>5, <1>6 DEF u

\* One item less, which was at i.
OneLess(s, t, i) ==
  /\ i \in DOMAIN s
  /\ \A j \in DOMAIN s : j # i => \E k \in DOMAIN t : t[k] = s[j]
  /\ \E p : /\ \A k \in DOMAIN t : p[k] \in DOMAIN s /\ t[k] = s[p[k]]
            /\ \A j, k \in DOMAIN t : p[j] = p[k] => j = k

LEMMA DroppedPrompts ==
  ASSUME NEW t, IsTab(t), NEW x \in Prompts
  PROVE  LET u == dropLocalPrompt(t, x) IN
         \/ u = t
         \/ /\ Screen(t, u, u.items, t.seen \ {Local(x)})
            /\ \E i : OneLess(t.items, u.items, i) /\ t.items[i].x = x /\ t.items[i].id = Local(x)
<1> DEFINE u == dropLocalPrompt(t, x)
           i == localEcho(t.items, x)
           r == RemoveAt(t.items, i)
<1>1. t \in Tabs /\ IsItems(t.items) /\ t.seen \in SUBSET Ids
  BY DEF IsTab, Tabs
<1>2. CASE Waits(t.items, x) = {}
  BY <1>2 DEF dropLocalPrompt
<1>3. CASE Waits(t.items, x) # {}
  <2>1. i \in DOMAIN t.items /\ t.items[i].x = x /\ t.items[i].id = Local(x)
    BY <1>1, <1>3, EchoPlace
  <2>2. u = [t EXCEPT !.items = r, !.seen = t.seen \ {Local(x)}]
    BY <1>1, <1>3 DEF dropLocalPrompt, Tabs
  <2> HIDE DEF i
  <2>3. IsItems(r) /\ OneLess(t.items, r, i)
    BY <1>1, <2>1, DroppedItems DEF OneLess
  <2> HIDE DEF r, u
  <2>4. t.seen \ {Local(x)} \in SUBSET Ids
    BY <1>1
  <2>5. Screen(t, u, r, t.seen \ {Local(x)})
    BY <2>2, <2>3, <2>4, ScreenChange
  <2>6. u.items = r
    BY <2>5 DEF Screen
  <2> QED BY <2>1, <2>3, <2>5, <2>6 DEF u
<1> QED BY <1>2, <1>3

PageIds(page) == {page[j].id : j \in DOMAIN page}

LEMMA Pages ==
  ASSUME NEW t, IsTab(t), NEW page \in Seq(EntrySet)
  PROVE  LET u == prependHistory(t, page) IN
         /\ Screen(t, u, u.items, t.seen \cup PageIds(page))
         /\ \E m \in Nat : \E q : InFront(t, page, u.items, m, q)
<1> DEFINE u == prependHistory(t, page)
           r == Shown(Fresh(t, page)) \o t.items
<1>1. t \in Tabs /\ IsItems(t.items) /\ t.seen \in SUBSET Ids
  BY DEF IsTab, Tabs
<1>2. {e.id : e \in ToSet(page)} = PageIds(page)
  BY DEF ToSet, PageIds
<1>3. PageIds(page) \subseteq Ids
  <2>1. \A j \in DOMAIN page : page[j] \in EntrySet
    OBVIOUS
  <2> QED BY <2>1 DEF PageIds, EntrySet
<1>4. u = [t EXCEPT !.items = r, !.seen = t.seen \cup PageIds(page)]
  BY <1>1, <1>2 DEF prependHistory, Tabs
<1>5. PICK m \in Nat : \E q : InFront(t, page, r, m, q)
  BY <1>1, PagedItems
<1>6. IsItems(r)
  BY <1>5 DEF InFront
<1> HIDE DEF r, u
<1>7. Screen(t, u, r, t.seen \cup PageIds(page))
  BY <1>1, <1>3, <1>4, <1>6, ScreenChange
<1>8. u.items = r
  BY <1>7 DEF Screen
<1> QED BY <1>5, <1>7, <1>8 DEF u

\* A page that ends at last: the entries up to it that are more than the cursor
\* it leaves.
Left(last) == IF last > PageSize THEN last - PageSize ELSE 0

LEMMA PageShape ==
  ASSUME server \in Servers, NEW last \in Nat, last <= Len(server.log)
  PROVE  /\ Page(last) \in Seq(EntrySet) /\ PageOK(server, Page(last))
         /\ Left(last) \in 0..MaxLog /\ Left(last) <= last
         /\ \A n \in (Left(last) + 1)..last : \E j \in DOMAIN Page(last) : Page(last)[j] = server.log[n]
         /\ \A i, j \in DOMAIN Page(last) : Page(last)[i].id = Page(last)[j].id => i = j
<1> DEFINE g == server.log
           a == Left(last)
           s == SubSeq(g, a + 1, last)
<1>1. /\ g \in Seq(EntrySet) /\ Len(g) \in Nat /\ DOMAIN g = 1..Len(g) /\ Len(g) <= MaxLog
      /\ \A n \in DOMAIN g : g[n].id = Message(n)
  BY LogShape
<1>2. PageSize \in Nat /\ PageSize > 0 /\ MaxLog \in Nat
  BY StoreAssumption
<1>3. a \in Nat /\ a <= last /\ a \in 0..MaxLog
  BY <1>1, <1>2 DEF Left
<1>4. Page(last) = s
  BY <1>2 DEF Page, Left
<1> HIDE DEF a, g
<1>5. /\ s \in Seq(EntrySet) /\ Len(s) = last - a /\ DOMAIN s = 1..(last - a)
      /\ \A j \in 1..(last - a) : s[j] = g[a + j]
  <2>1. last <= Len(g)
    BY DEF g
  <2>2. a + 1 \in 1..(Len(g) + 1) /\ last \in 0..Len(g) /\ last - (a + 1) + 1 = last - a
        /\ last - a \in Nat
    BY <1>1, <1>3, <2>1
  <2>3. \A i \in (a + 1)..last : g[i] \in EntrySet
    BY <1>1, <1>3, <2>1
  <2>4. /\ s \in Seq(EntrySet)
        /\ Len(s) = IF a + 1 <= last THEN last - (a + 1) + 1 ELSE 0
        /\ \A j \in 1..(last - (a + 1) + 1) : s[j] = g[(a + 1) + j - 1]
    BY <1>3, a + 1 \in Int, last \in Int, <2>3, SubSeqProperties
  <2> HIDE DEF s
  <2>5. Len(s) = last - a
    BY <1>3, <2>2, <2>4
  <2>6. \A j \in 1..(last - a) : s[j] = g[a + j]
    <3> TAKE j \in 1..(last - a)
    <3>1. s[j] = g[(a + 1) + j - 1]
      BY <2>2, <2>4
    <3>2. (a + 1) + j - 1 = a + j
      BY <1>3
    <3> QED BY <3>1, <3>2
  <2> QED BY <2>4, <2>5, <2>6
<1> HIDE DEF s
<1>6. \A j \in DOMAIN s : a + j \in DOMAIN g /\ s[j] = g[a + j]
  <2>1. last <= Len(g)
    BY DEF g
  <2> QED BY <1>1, <1>3, <1>5, <2>1
<1>7. \A n \in (a + 1)..last : \E j \in DOMAIN s : s[j] = g[n]
  <2> TAKE n \in (a + 1)..last
  <2>1. n - a \in 1..(last - a) /\ a + (n - a) = n
    BY <1>3
  <2> QED BY <1>5, <2>1
<1>8. \A i, j \in DOMAIN s : s[i].id = s[j].id => i = j
  <2> SUFFICES ASSUME NEW i \in DOMAIN s, NEW j \in DOMAIN s, s[i].id = s[j].id PROVE i = j
    OBVIOUS
  <2>1. Message(a + i) = Message(a + j)
    BY <1>1, <1>6
  <2>2. a + i = a + j
    BY <2>1, Names
  <2> QED BY <1>3, <1>5, <2>2
<1>9. PageOK(server, s)
  BY <1>6 DEF PageOK, g
<1> QED BY <1>3, <1>4, <1>5, <1>7, <1>8, <1>9 DEF a, g

LEMMA FetchShape ==
  ASSUME FetchTyped, NEW r \in Fetches
  PROVE  /\ fetch[r] \in FetchSet /\ fetch[r].at \in {"none", "sent", "read"}
         /\ fetch[r].older \in BOOLEAN /\ fetch[r].detail \in Details
         /\ fetch[r].page \in Seq(EntrySet) /\ fetch[r].before \in Nat
         /\ fetch[r].before \in 0..MaxLog /\ fetch[r].fresh \in BOOLEAN
         /\ fetch[r].before <= Len(server.log) /\ PageOK(server, fetch[r].page)
         /\ fetch[r].at = "none" => fetch[r] = NoFetch
         /\ fetch[r].detail # <<>> =>
              /\ fetch[r].detail[1] \in SUBSET Asks /\ fetch[r].detail[2] \in Turns
              /\ fetch[r].detail[3] \in Nat
<1>1. fetch[r] \in FetchSet
  BY DEF FetchTyped
<1>2. /\ fetch[r].at \in {"none", "sent", "read"} /\ fetch[r].older \in BOOLEAN
      /\ fetch[r].detail \in Details /\ fetch[r].page \in Seq(EntrySet)
      /\ fetch[r].before \in 0..MaxLog /\ fetch[r].fresh \in BOOLEAN
  BY <1>1 DEF FetchSet
<1>3. fetch[r].before \in Nat
  BY <1>2, StoreAssumption
<1>4. fetch[r].detail # <<>> =>
              /\ fetch[r].detail[1] \in SUBSET Asks /\ fetch[r].detail[2] \in Turns
              /\ fetch[r].detail[3] \in Nat
  BY <1>2 DEF Details
<1> QED BY <1>1, <1>2, <1>3, <1>4 DEF FetchTyped

LEMMA EmptyFetch ==
  /\ NoFetch \in FetchSet /\ NoFetch.at = "none" /\ ~NoFetch.older /\ NoFetch.detail = <<>>
  /\ ~NoFetch.fresh /\ NoFetch.page = <<>> /\ NoFetch.before = 0
<1>1. <<>> \in Seq(EntrySet)
  OBVIOUS
<1>2. 0 \in 0..MaxLog
  BY StoreAssumption
<1> QED BY <1>1, <1>2 DEF NoFetch, FetchSet, Details

\* One request changes.
LEMMA FetchChange ==
  ASSUME FetchTyped, NEW r \in Fetches, NEW f \in FetchSet, fetch' = [fetch EXCEPT ![r] = f],
         server' = server, wire.open => wire'.open,
         f.at = "none" => f = NoFetch, PageOK(server, f.page), f.before <= Len(server.log),
         f.fresh /\ ~f.older => wire'.open
  PROVE  FetchTyped'
<1>1. fetch' \in [Fetches -> FetchSet]
  BY DEF FetchTyped
<1>2. ASSUME NEW q \in Fetches
      PROVE  /\ fetch'[q].at = "none" => fetch'[q] = NoFetch
             /\ PageOK(server, fetch'[q].page) /\ fetch'[q].before <= Len(server.log)
             /\ fetch'[q].fresh /\ ~fetch'[q].older => wire'.open
  <2>1. fetch'[q] = IF q = r THEN f ELSE fetch[q]
    BY DEF FetchTyped
  <2> QED BY <2>1 DEF FetchTyped
<1> QED BY <1>1, <1>2 DEF FetchTyped

LEMMA FetchDone ==
  ASSUME FetchTyped, NEW r \in Fetches, Done(r), server' = server, server \in Servers,
         wire.open => wire'.open
  PROVE  FetchTyped'
<1>1. PageOK(server, NoFetch.page)
  BY EmptyFetch DEF PageOK
<1>2. NoFetch.before <= Len(server.log)
  BY EmptyFetch, LogShape
<1> QED BY <1>1, <1>2, EmptyFetch, FetchChange DEF Done

LEMMA DisconnectedStep ==
  ASSUME Typed, Disconnected
  PROVE  /\ wire' \in Wires /\ ~wire'.open /\ wire'.events = <<>> /\ wire'.synced = wire.synced
         /\ DOMAIN wire'.events = {}
         /\ \A r \in Fetches : fetch'[r] = [fetch[r] EXCEPT !.fresh = FALSE]
         /\ server' = server => FetchTyped'
         /\ h.drops < MaxDrops => HistoryTyped'
         /\ h'.overtaken = h.overtaken /\ h'.doubled = h.doubled /\ h'.crossed = h.crossed
<1>1. wire \in Wires /\ FetchTyped /\ HistoryTyped
  BY DEF Typed, WireTyped
<1>2. <<>> \in Seq(Said) /\ DOMAIN <<>> = {}
  OBVIOUS
<1>3. wire' = [wire EXCEPT !.open = FALSE, !.events = <<>>]
  BY DEF Disconnected
<1>4. wire' \in Wires /\ ~wire'.open /\ wire'.events = <<>> /\ wire'.synced = wire.synced
  BY <1>1, <1>2, <1>3 DEF Wires
<1>5. \A r \in Fetches : fetch'[r] = [fetch[r] EXCEPT !.fresh = FALSE]
  BY DEF Disconnected
<1>6. \A r \in Fetches : fetch'[r] \in FetchSet /\ ~fetch'[r].fresh
        /\ fetch'[r].at = fetch[r].at /\ fetch'[r].page = fetch[r].page
        /\ fetch'[r].before = fetch[r].before
  <2> TAKE r \in Fetches
  <2>1. fetch[r] \in FetchSet
    BY <1>1, FetchShape
  <2> QED BY <1>5, <2>1 DEF FetchSet
<1>7. \A r \in Fetches : fetch'[r].at = "none" => fetch'[r] = NoFetch
  <2> SUFFICES ASSUME NEW r \in Fetches, fetch'[r].at = "none" PROVE fetch'[r] = NoFetch
    OBVIOUS
  <2>1. fetch[r] = NoFetch
    BY <1>1, <1>6, FetchShape
  <2> QED BY <1>5, <2>1 DEF NoFetch
<1>8. fetch' \in [Fetches -> FetchSet]
  BY <1>6 DEF Disconnected
<1>9. server' = server => FetchTyped'
  BY <1>1, <1>6, <1>7, <1>8 DEF FetchTyped
<1>10. h' = [h EXCEPT !.drops = @ + 1]
  BY DEF Disconnected
<1>11. h.drops < MaxDrops => HistoryTyped'
  BY <1>1, <1>10, StoreAssumption DEF HistoryTyped
<1>12. h'.overtaken = h.overtaken /\ h'.doubled = h.doubled /\ h'.crossed = h.crossed
  BY <1>1, <1>10 DEF HistoryTyped
<1> QED BY <1>2, <1>4, <1>5, <1>9, <1>11, <1>12

\* What is left alone stays as it was.
LEMMA SameWire ==
  ASSUME Typed, server' = server, wire' = wire, wire.open => tab'.id = "this"
  PROVE  ServerTyped' /\ WireTyped'
BY DEF Typed, ServerTyped, WireTyped

LEMMA SameFetches ==
  ASSUME Typed, server' = server, fetch' = fetch, wire.open => wire'.open
  PROVE  FetchTyped'
BY DEF Typed, FetchTyped

\* A tab that shows the thread shows no other.
LEMMA TabMine ==
  ASSUME server' = server, IsTab(tab'), tab'.id = "this", tab'.cursor <= Len(server.log)
  PROVE  TabTyped' /\ NotAnothers'
BY DEF TabTyped, NotAnothers

LEMMA openTyped ==
  ASSUME Typed, open
  PROVE  Typed'
<1>1. tab' = Blank /\ UNCHANGED <<server, wire, call, fetch, h>>
  BY DEF open
<1>2. 0 <= Len(server.log)
  BY LogShape DEF Typed, ServerTyped
<1>3. TabTyped' /\ NotAnothers'
  BY <1>1, <1>2, BlankTab, TabMine
<1>4. ServerTyped' /\ WireTyped' /\ FetchTyped'
  BY <1>1, BlankTab, SameWire, SameFetches
<1> QED BY <1>1, <1>3, <1>4 DEF Typed, CallTyped, HistoryTyped

LEMMA closeTyped ==
  ASSUME Typed, close
  PROVE  Typed'
<1>1. /\ tab' = [Blank EXCEPT !.id = "other"] /\ Disconnected /\ h.drops < MaxDrops
      /\ server' = server /\ call' = call
  BY DEF close
<1>2. wire' \in Wires /\ ~wire'.open /\ wire'.events = <<>> /\ DOMAIN wire'.events = {}
      /\ FetchTyped' /\ HistoryTyped'
  BY <1>1, DisconnectedStep
<1>3. 0 <= Len(server.log)
  BY LogShape DEF Typed, ServerTyped
<1>4. TabTyped' /\ NotAnothers'
  BY <1>1, <1>3, BlankTab DEF TabTyped, NotAnothers
<1>5. WireTyped'
  BY <1>2 DEF WireTyped
<1> QED BY <1>1, <1>2, <1>4, <1>5 DEF Typed, CallTyped, ServerTyped

LEMMA StreamDropsTyped ==
  ASSUME Typed, StreamDrops
  PROVE  Typed'
<1>1. Disconnected /\ h.drops < MaxDrops /\ UNCHANGED <<server, tab, call>>
  BY DEF StreamDrops
<1>2. wire' \in Wires /\ ~wire'.open /\ wire'.events = <<>> /\ DOMAIN wire'.events = {}
      /\ FetchTyped' /\ HistoryTyped'
  BY <1>1, DisconnectedStep
<1>5. WireTyped'
  BY <1>2 DEF WireTyped
<1> QED BY <1>1, <1>2, <1>5 DEF Typed, CallTyped, ServerTyped, TabTyped, NotAnothers

LEMMA onOpenStep ==
  ASSUME Typed, NEW r \in Fetches, onOpen(r)
  PROVE  LET f == [NoFetch EXCEPT !.at = "sent", !.fresh = TRUE] IN
         /\ fetch[r] = NoFetch /\ fetch' = [fetch EXCEPT ![r] = f] /\ f \in FetchSet
         /\ wire' \in Wires /\ wire'.open /\ wire'.events = <<>> /\ DOMAIN wire'.events = {}
         /\ wire'.ver = server.ver /\ ~wire'.synced /\ ~wire.open
         /\ tab.id = "this" /\ h' = [h EXCEPT !.fetches = @ + 1] /\ h.fetches < MaxFetches
         /\ UNCHANGED <<server, tab, call>>
<1> DEFINE f == [NoFetch EXCEPT !.at = "sent", !.fresh = TRUE]
<1>1. /\ tab.id = "this" /\ ~wire.open /\ fetch[r].at = "none" /\ h.fetches < MaxFetches
      /\ wire' = [wire EXCEPT !.open = TRUE, !.ver = server.ver, !.synced = FALSE]
      /\ fetch' = [fetch EXCEPT ![r].at = "sent", ![r].fresh = TRUE]
      /\ h' = [h EXCEPT !.fetches = @ + 1]
      /\ UNCHANGED <<server, tab, call>>
  BY DEF onOpen, FreeFetch
<1>2. wire \in Wires /\ wire.events = <<>> /\ FetchTyped /\ server.ver \in Nat
  BY <1>1, ServerShape DEF Typed, WireTyped, ServerTyped
<1>3. fetch[r] = NoFetch /\ fetch \in [Fetches -> FetchSet]
  BY <1>1, <1>2, FetchShape DEF FetchTyped
<1>4. /\ wire' \in Wires /\ wire'.open /\ wire'.events = <<>>
      /\ wire'.ver = server.ver /\ ~wire'.synced
  BY <1>1, <1>2 DEF Wires
<1>5. f \in FetchSet
  BY EmptyFetch DEF FetchSet
<1>6. fetch' = [fetch EXCEPT ![r] = f]
  BY <1>1, <1>3
<1>7. DOMAIN wire'.events = {}
  BY <1>4
<1> HIDE DEF f
<1> QED BY <1>1, <1>3, <1>4, <1>5, <1>6, <1>7 DEF f

LEMMA onOpenTyped ==
  ASSUME Typed, NEW r \in Fetches, onOpen(r)
  PROVE  Typed'
<1> DEFINE f == [NoFetch EXCEPT !.at = "sent", !.fresh = TRUE]
<1>1. /\ fetch' = [fetch EXCEPT ![r] = f] /\ f \in FetchSet
      /\ wire' \in Wires /\ wire'.open /\ wire'.events = <<>> /\ DOMAIN wire'.events = {}
      /\ tab.id = "this" /\ h' = [h EXCEPT !.fetches = @ + 1] /\ h.fetches < MaxFetches
      /\ UNCHANGED <<server, tab, call>>
  BY onOpenStep
<1>2. f.at = "sent" /\ f.page = <<>> /\ f.before = 0
  BY DEF NoFetch
<1>3. PageOK(server, f.page) /\ f.before <= Len(server.log)
  BY <1>2, LogShape DEF PageOK, Typed, ServerTyped
<1> HIDE DEF f
<1>4. FetchTyped'
  BY <1>1, <1>2, <1>3, FetchChange DEF Typed
<1>5. WireTyped'
  BY <1>1 DEF WireTyped
<1>6. HistoryTyped'
  BY <1>1, StoreAssumption DEF Typed, HistoryTyped
<1> QED BY <1>1, <1>4, <1>5, <1>6 DEF Typed, CallTyped, ServerTyped, TabTyped, NotAnothers

\* One event is handled: the first of those on their way.
LEMMA onEventStep ==
  ASSUME Typed, onEvent
  PROVE  LET e == Head(wire.events) IN
         /\ e \in Said /\ EventOK(server, e) /\ e = wire.events[1] /\ tab' = applyEvent(tab, e)
         /\ wire' \in Wires /\ wire'.open = wire.open /\ wire'.synced = wire.synced
         /\ wire'.ver = (IF IsLive(e) THEN wire.ver + 1 ELSE wire.ver)
         /\ Len(wire.events) \in Nat \ {0} /\ Len(wire'.events) = Len(wire.events) - 1
         /\ DOMAIN wire.events = 1..Len(wire.events)
         /\ DOMAIN wire'.events = 1..(Len(wire.events) - 1)
         /\ \A k \in 1..(Len(wire.events) - 1) : wire'.events[k] = wire.events[k + 1]
         /\ wire.open /\ tab.id = "this"
         /\ UNCHANGED <<server, call, fetch, h>>
<1> DEFINE e == Head(wire.events)
           T == Tail(wire.events)
<1>1. /\ wire.events # <<>> /\ tab' = applyEvent(tab, e)
      /\ wire' = [wire EXCEPT !.events = T, !.ver = IF IsLive(e) THEN @ + 1 ELSE @]
      /\ UNCHANGED <<server, call, fetch, h>>
  BY DEF onEvent
<1>2. wire \in Wires /\ wire.events \in Seq(Said) /\ DOMAIN wire.events = 1..Len(wire.events)
      /\ Len(wire.events) \in Nat /\ wire.ver \in Nat
  BY WireShape DEF Typed, WireTyped
<1>3. /\ Len(wire.events) \in Nat \ {0} /\ e = wire.events[1] /\ e \in Said
      /\ T \in Seq(Said) /\ Len(T) = Len(wire.events) - 1
      /\ \A k \in 1..(Len(wire.events) - 1) : T[k] = wire.events[k + 1]
  BY <1>1, <1>2
<1>4. DOMAIN T = 1..(Len(wire.events) - 1)
  BY <1>3
<1>5. 1 \in DOMAIN wire.events /\ EventOK(server, wire.events[1])
  <2>1. 1 \in DOMAIN wire.events
    BY <1>2, <1>3
  <2> QED BY <2>1 DEF Typed, WireTyped
<1>6. wire.open /\ tab.id = "this"
  BY <1>1 DEF Typed, WireTyped
<1> HIDE DEF T
<1>7. /\ wire' \in Wires /\ wire'.open = wire.open /\ wire'.synced = wire.synced
      /\ wire'.ver = (IF IsLive(e) THEN wire.ver + 1 ELSE wire.ver) /\ wire'.events = T
  <2> DEFINE v == IF IsLive(e) THEN wire.ver + 1 ELSE wire.ver
  <2>1. v \in Nat
    BY <1>2
  <2>2. wire' = [wire EXCEPT !.events = T, !.ver = v]
    BY <1>1, <1>2 DEF Wires
  <2> HIDE DEF v, e
  <2>3. /\ wire' \in Wires /\ wire'.open = wire.open /\ wire'.synced = wire.synced
        /\ wire'.ver = v /\ wire'.events = T
    BY <1>2, <1>3, <2>1, <2>2 DEF Wires
  <2> QED BY <2>3 DEF v
<1>8. /\ Len(wire'.events) = Len(wire.events) - 1
      /\ DOMAIN wire'.events = 1..(Len(wire.events) - 1)
      /\ \A k \in 1..(Len(wire.events) - 1) : wire'.events[k] = wire.events[k + 1]
  BY <1>3, <1>4, <1>7
<1> HIDE DEF e
<1> QED BY <1>1, <1>2, <1>3, <1>5, <1>6, <1>7, <1>8 DEF e

LEMMA onEventTyped ==
  ASSUME Typed, onEvent
  PROVE  Typed'
<1> DEFINE e == Head(wire.events)
<1>1. /\ e \in Said /\ EventOK(server, e) /\ tab' = applyEvent(tab, e)
      /\ wire' \in Wires /\ wire'.open = wire.open /\ Len(wire.events) \in Nat \ {0}
      /\ DOMAIN wire.events = 1..Len(wire.events)
      /\ DOMAIN wire'.events = 1..(Len(wire.events) - 1)
      /\ \A k \in 1..(Len(wire.events) - 1) : wire'.events[k] = wire.events[k + 1]
      /\ wire.open /\ tab.id = "this"
      /\ UNCHANGED <<server, call, fetch, h>>
  BY onEventStep
<1>2. server \in Servers /\ IsTab(tab) /\ tab.cursor <= Len(server.log)
  BY DEF Typed, ServerTyped, TabTyped
<1> HIDE DEF e
<1>3. IsTab(tab') /\ Else(tab, tab')
  BY <1>1, <1>2, EventsTyped
<1>4. TabTyped' /\ NotAnothers'
  BY <1>1, <1>2, <1>3, TabMine DEF Else
<1>5. WireTyped'
  <2>1. \A k \in DOMAIN wire.events : EventOK(server, wire.events[k])
    BY DEF Typed, WireTyped
  <2>2. \A k \in DOMAIN wire'.events : EventOK(server, wire'.events[k])
    BY <1>1, <2>1
  <2> QED BY <1>1, <1>3, <2>2 DEF WireTyped, Else
<1>6. FetchTyped'
  BY <1>1, SameFetches
<1> QED BY <1>1, <1>4, <1>5, <1>6 DEF Typed, CallTyped, ServerTyped, HistoryTyped

LEMMA ReadDetailStep ==
  ASSUME Typed, NEW r \in Fetches, ReadDetail(r)
  PROVE  LET f == [fetch[r] EXCEPT !.detail = <<server.pending, server.turn, server.ver>>] IN
         /\ fetch' = [fetch EXCEPT ![r] = f] /\ f \in FetchSet /\ fetch[r].at # "none"
         /\ f.at = fetch[r].at /\ f.older = fetch[r].older /\ f.page = fetch[r].page
         /\ f.before = fetch[r].before /\ f.fresh = fetch[r].fresh
         /\ f.detail = <<server.pending, server.turn, server.ver>>
         /\ UNCHANGED <<server, wire, tab, call, h>>
<1> DEFINE d == <<server.pending, server.turn, server.ver>>
           f == [fetch[r] EXCEPT !.detail = d]
<1>1. /\ fetch[r].at # "none" /\ fetch' = [fetch EXCEPT ![r].detail = d]
      /\ UNCHANGED <<server, wire, tab, call, h>>
  BY DEF ReadDetail
<1>2. fetch[r] \in FetchSet
  BY FetchShape DEF Typed
<1>3. d \in Details
  BY ServerShape DEF Typed, ServerTyped, Details
<1>4. f \in FetchSet
  BY <1>2, <1>3 DEF FetchSet
<1>5. fetch' = [fetch EXCEPT ![r] = f]
  BY <1>1
<1> QED BY <1>1, <1>2, <1>4, <1>5 DEF FetchSet

LEMMA ReadPageStep ==
  ASSUME Typed, NEW r \in Fetches, ReadPage(r)
  PROVE  LET last == IF fetch[r].older THEN fetch[r].before ELSE Len(server.log)
             f == [fetch[r] EXCEPT !.at = "read", !.page = Page(last), !.before = Left(last)]
         IN
         /\ last \in Nat /\ last <= Len(server.log)
         /\ fetch' = [fetch EXCEPT ![r] = f] /\ f \in FetchSet /\ fetch[r].at = "sent"
         /\ f.at = "read" /\ f.older = fetch[r].older /\ f.page = Page(last)
         /\ f.before = Left(last) /\ f.fresh = fetch[r].fresh /\ f.detail = fetch[r].detail
         /\ UNCHANGED <<server, wire, tab, call, h>>
<1> DEFINE last == IF fetch[r].older THEN fetch[r].before ELSE Len(server.log)
           f == [fetch[r] EXCEPT !.at = "read", !.page = Page(last), !.before = Left(last)]
<1>1. /\ fetch[r].at = "sent"
      /\ fetch' = [fetch EXCEPT ![r].at = "read", ![r].page = Page(last), ![r].before = Left(last)]
      /\ UNCHANGED <<server, wire, tab, call, h>>
  BY DEF ReadPage, Left
<1>2. fetch[r] \in FetchSet /\ fetch[r].before \in Nat /\ fetch[r].before <= Len(server.log)
  BY FetchShape DEF Typed
<1>3. server \in Servers /\ Len(server.log) \in Nat
  BY LogShape DEF Typed, ServerTyped
<1>4. last \in Nat /\ last <= Len(server.log)
  BY <1>2, <1>3
<1> HIDE DEF last
<1>5. Page(last) \in Seq(EntrySet) /\ Left(last) \in 0..MaxLog
  BY <1>3, <1>4, PageShape
<1>6. f \in FetchSet
  BY <1>2, <1>5 DEF FetchSet
<1>7. /\ f.at = "read" /\ f.older = fetch[r].older /\ f.page = Page(last)
      /\ f.before = Left(last) /\ f.fresh = fetch[r].fresh /\ f.detail = fetch[r].detail
  BY <1>2 DEF FetchSet
<1>8. fetch' = [fetch EXCEPT ![r] = f]
  BY <1>1
<1> QED BY <1>1, <1>4, <1>6, <1>7, <1>8 DEF last

LEMMA ReadsTyped ==
  ASSUME Typed, NEW r \in Fetches, ReadDetail(r) \/ ReadPage(r)
  PROVE  Typed'
<1>1. FetchTyped /\ server \in Servers
  BY DEF Typed, ServerTyped
<1>2. CASE ReadDetail(r)
  <2> DEFINE f == [fetch[r] EXCEPT !.detail = <<server.pending, server.turn, server.ver>>]
  <2>1. /\ fetch' = [fetch EXCEPT ![r] = f] /\ f \in FetchSet /\ fetch[r].at # "none"
        /\ f.at = fetch[r].at /\ f.older = fetch[r].older /\ f.page = fetch[r].page
        /\ f.before = fetch[r].before /\ f.fresh = fetch[r].fresh
        /\ UNCHANGED <<server, wire, tab, call, h>>
    BY <1>2, ReadDetailStep
  <2> HIDE DEF f
  <2>2. f.fresh /\ ~f.older => wire'.open
    BY <1>1, <2>1 DEF FetchTyped
  <2>3. FetchTyped'
    BY <1>1, <2>1, <2>2, FetchShape, FetchChange
  <2> QED BY <2>1, <2>3 DEF Typed, ServerTyped, WireTyped, TabTyped, CallTyped, HistoryTyped, NotAnothers
<1>3. CASE ReadPage(r)
  <2> DEFINE last == IF fetch[r].older THEN fetch[r].before ELSE Len(server.log)
             f == [fetch[r] EXCEPT !.at = "read", !.page = Page(last), !.before = Left(last)]
  <2>1. /\ last \in Nat /\ last <= Len(server.log)
        /\ fetch' = [fetch EXCEPT ![r] = f] /\ f \in FetchSet
        /\ f.at = "read" /\ f.older = fetch[r].older /\ f.page = Page(last)
        /\ f.before = Left(last) /\ f.fresh = fetch[r].fresh
        /\ UNCHANGED <<server, wire, tab, call, h>>
    BY <1>3, ReadPageStep
  <2> HIDE DEF f, last
  <2>2. f.fresh /\ ~f.older => wire'.open
    BY <1>1, <2>1 DEF FetchTyped
  <2>3. PageOK(server, f.page) /\ f.before \in Nat /\ f.before <= last
    BY <1>1, <2>1, PageShape, StoreAssumption
  <2>4. f.before <= Len(server.log)
    BY <1>1, <2>1, <2>3, LogShape
  <2>5. FetchTyped'
    BY <1>1, <2>1, <2>2, <2>3, <2>4, FetchChange
  <2> QED BY <2>1, <2>5 DEF Typed, ServerTyped, WireTyped, TabTyped, CallTyped, HistoryTyped, NotAnothers
<1> QED BY <1>2, <1>3

\* The answer to a resync that is taken.
LEMMA resyncStep ==
  ASSUME Typed, NEW r \in Fetches, resync(r), tab.id = "this"
  PROVE  LET f == fetch[r]
             u == prependHistory(tab, f.page)
         IN
         /\ f.at = "read" /\ ~f.older /\ f.detail # <<>>
         /\ IsTab(tab') /\ tab'.id = "this" /\ tab'.items = u.items /\ tab'.seen = u.seen
         /\ tab'.pending = f.detail[1] /\ tab'.turn = f.detail[2] /\ tab'.cursor = f.before
         /\ ~tab'.loading
         /\ wire' \in Wires /\ wire'.open = wire.open /\ wire'.events = wire.events
         /\ wire'.ver = wire.ver /\ wire'.synced = (wire.synced \/ f.fresh)
         /\ HistoryTyped' /\ h'.overtaken = (h.overtaken \/ f.detail[3] < wire.ver)
         /\ h'.doubled = (h.doubled \/ Doubles(f.page)) /\ h'.crossed = (h.crossed \/ ~f.fresh)
         /\ \A q \in Fetches : fetch'[q] = IF q = r THEN NoFetch
                               ELSE [fetch[q] EXCEPT !.fresh = @ /\ ~fetch[q].older]
         /\ fetch' \in [Fetches -> FetchSet]
         /\ UNCHANGED <<server, call>>
<1> DEFINE f == fetch[r]
           d == f.detail
           u == prependHistory(tab, f.page)
<1>1. /\ f.at = "read" /\ ~f.older /\ d # <<>>
      /\ tab' = [u EXCEPT !.pending = d[1], !.turn = d[2], !.cursor = f.before, !.loading = FALSE]
      /\ h' = [Crossed(r) EXCEPT !.overtaken = @ \/ d[3] < wire.ver]
      /\ wire' = [wire EXCEPT !.synced = @ \/ f.fresh]
      /\ Overtaken(r) /\ UNCHANGED <<server, call>>
  BY DEF resync, Answered
<1>2. IsTab(tab) /\ FetchTyped /\ wire \in Wires /\ HistoryTyped
  BY DEF Typed, TabTyped, WireTyped
<1>3. /\ f.page \in Seq(EntrySet) /\ f.before \in 0..MaxLog /\ f.fresh \in BOOLEAN
      /\ d[1] \in SUBSET Asks /\ d[2] \in Turns /\ d[3] \in Nat
  BY <1>1, <1>2, FetchShape
<1>4. IsTab(u) /\ u.id = tab.id
  BY <1>2, <1>3, Pages DEF Screen, Else
<1>5. wire.synced \in BOOLEAN /\ wire.ver \in Nat
  BY <1>2, WireShape
<1>6. /\ wire' \in Wires /\ wire'.open = wire.open /\ wire'.events = wire.events
      /\ wire'.ver = wire.ver /\ wire'.synced = (wire.synced \/ f.fresh)
  BY <1>1, <1>2, <1>3, <1>5 DEF Wires
<1>7. /\ HistoryTyped' /\ h'.overtaken = (h.overtaken \/ d[3] < wire.ver)
      /\ h'.doubled = (h.doubled \/ Doubles(f.page)) /\ h'.crossed = (h.crossed \/ ~f.fresh)
  <2> DEFINE a == h.overtaken \/ d[3] < wire.ver
             b == h.doubled \/ Doubles(f.page)
             c == h.crossed \/ ~f.fresh
  <2>1. h' = [h EXCEPT !.overtaken = a, !.doubled = b, !.crossed = c]
    BY <1>1, <1>2 DEF Crossed, HistoryTyped
  <2>2. a \in BOOLEAN /\ b \in BOOLEAN /\ c \in BOOLEAN
    OBVIOUS
  <2> HIDE DEF a, b, c
  <2>3. HistoryTyped' /\ h'.overtaken = a /\ h'.doubled = b /\ h'.crossed = c
    BY <1>2, <2>1, <2>2 DEF HistoryTyped
  <2> QED BY <2>3 DEF a, b, c
<1>8. \A q \in Fetches : fetch'[q] = IF q = r THEN NoFetch
                         ELSE [fetch[q] EXCEPT !.fresh = @ /\ ~fetch[q].older]
  BY <1>1 DEF Overtaken
<1>9. fetch' \in [Fetches -> FetchSet]
  <2>1. ASSUME NEW q \in Fetches
        PROVE  (IF q = r THEN NoFetch ELSE [fetch[q] EXCEPT !.fresh = @ /\ ~fetch[q].older]) \in FetchSet
    <3>1. fetch[q] \in FetchSet
      BY <1>2, FetchShape
    <3>2. [fetch[q] EXCEPT !.fresh = @ /\ ~fetch[q].older] \in FetchSet
      BY <3>1 DEF FetchSet
    <3> QED BY <3>2, EmptyFetch
  <2> QED BY <1>1, <2>1 DEF Overtaken
<1> HIDE DEF u
<1>10. /\ tab' \in Tabs /\ tab'.id = u.id /\ tab'.items = u.items /\ tab'.seen = u.seen
       /\ tab'.pending = d[1] /\ tab'.turn = d[2] /\ tab'.cursor = f.before /\ ~tab'.loading
  BY <1>1, <1>3, <1>4 DEF IsTab, Tabs
<1>11. IsTab(tab')
  BY <1>4, <1>10 DEF IsTab
<1> QED BY <1>1, <1>4, <1>6, <1>7, <1>8, <1>9, <1>10, <1>11 DEF u

LEMMA resyncTyped ==
  ASSUME Typed, NEW r \in Fetches, resync(r)
  PROVE  Typed'
<1>1. FetchTyped /\ server \in Servers /\ wire \in Wires
  BY DEF Typed, ServerTyped, WireTyped
<1>2. CASE tab.id # "this"
  <2>1. Done(r) /\ UNCHANGED <<server, call, tab, h, wire>>
    BY <1>2 DEF resync
  <2>2. FetchTyped'
    BY <1>1, <2>1, FetchDone
  <2> QED BY <2>1, <2>2 DEF Typed, ServerTyped, WireTyped, TabTyped, CallTyped, HistoryTyped, NotAnothers
<1>3. CASE tab.id = "this"
  <2> DEFINE f == fetch[r]
  <2>1. /\ IsTab(tab') /\ tab'.id = "this" /\ tab'.cursor = f.before
        /\ wire' \in Wires /\ wire'.open = wire.open /\ wire'.events = wire.events
        /\ HistoryTyped'
        /\ \A q \in Fetches : fetch'[q] = IF q = r THEN NoFetch
                              ELSE [fetch[q] EXCEPT !.fresh = @ /\ ~fetch[q].older]
        /\ fetch' \in [Fetches -> FetchSet]
        /\ UNCHANGED <<server, call>>
    BY <1>3, resyncStep
  <2>2. f.before <= Len(server.log)
    BY <1>1, FetchShape
  <2>3. TabTyped' /\ NotAnothers'
    BY <2>1, <2>2, TabMine
  <2>4. WireTyped'
    BY <2>1 DEF Typed, WireTyped
  <2>5. ASSUME NEW q \in Fetches
        PROVE  /\ fetch'[q].at = "none" => fetch'[q] = NoFetch
               /\ PageOK(server, fetch'[q].page) /\ fetch'[q].before <= Len(server.log)
               /\ fetch'[q].fresh /\ ~fetch'[q].older => wire.open
    <3>1. CASE q = r
      <4>1. fetch'[q] = NoFetch
        BY <2>1, <3>1
      <4>2. PageOK(server, NoFetch.page) /\ NoFetch.before <= Len(server.log)
        BY <1>1, EmptyFetch, LogShape DEF PageOK
      <4> QED BY <4>1, <4>2, EmptyFetch
    <3>2. CASE q # r
      <4>1. /\ fetch[q].at = "none" => fetch[q] = NoFetch
            /\ PageOK(server, fetch[q].page) /\ fetch[q].before <= Len(server.log)
            /\ fetch[q].fresh /\ ~fetch[q].older => wire.open
            /\ fetch[q] \in FetchSet
        BY <1>1 DEF FetchTyped
      <4>2. fetch'[q] = [fetch[q] EXCEPT !.fresh = @ /\ ~fetch[q].older]
        BY <2>1, <3>2
      <4>3. /\ fetch'[q].at = fetch[q].at /\ fetch'[q].page = fetch[q].page
            /\ fetch'[q].before = fetch[q].before /\ fetch'[q].older = fetch[q].older
            /\ fetch'[q].fresh = (fetch[q].fresh /\ ~fetch[q].older)
        BY <4>1, <4>2 DEF FetchSet
      <4>4. fetch[q].at = "none" => fetch'[q] = NoFetch
        <5> SUFFICES ASSUME fetch[q].at = "none" PROVE fetch'[q] = NoFetch
          OBVIOUS
        <5>1. fetch[q] = NoFetch
          BY <4>1
        <5>2. fetch'[q] = [NoFetch EXCEPT !.fresh = FALSE]
          BY <4>2, <5>1, EmptyFetch
        <5> QED BY <5>2 DEF NoFetch
      <4> QED BY <4>1, <4>3, <4>4
    <3> QED BY <3>1, <3>2
  <2>6. FetchTyped'
    BY <2>1, <2>5 DEF FetchTyped
  <2> QED BY <2>1, <2>3, <2>4, <2>6 DEF Typed, ServerTyped, CallTyped
<1> QED BY <1>2, <1>3

LEMMA FetchFailsStep ==
  ASSUME Typed, NEW r \in Fetches, FetchFails(r)
  PROVE  /\ Done(r) /\ IsTab(tab') /\ UNCHANGED <<server, wire, call, h>>
         /\ tab'.id = tab.id /\ tab'.items = tab.items /\ tab'.seen = tab.seen
         /\ tab'.pending = tab.pending /\ tab'.turn = tab.turn /\ tab'.cursor = tab.cursor
         /\ tab'.loading = (tab.loading /\ ~(tab.id = "this" /\ ~fetch[r].older))
<1>1. /\ Done(r) /\ UNCHANGED <<server, wire, call, h>>
      /\ tab' = IF tab.id = "this" /\ ~fetch[r].older THEN [tab EXCEPT !.loading = FALSE] ELSE tab
  BY DEF FetchFails
<1>2. tab \in Tabs /\ IsItems(tab.items)
  BY DEF Typed, TabTyped, IsTab
<1>3. tab.loading \in BOOLEAN
  BY <1>2 DEF Tabs
<1>4. /\ tab' \in Tabs /\ tab'.id = tab.id /\ tab'.items = tab.items /\ tab'.seen = tab.seen
      /\ tab'.pending = tab.pending /\ tab'.turn = tab.turn /\ tab'.cursor = tab.cursor
      /\ tab'.loading = (tab.loading /\ ~(tab.id = "this" /\ ~fetch[r].older))
  <2>1. CASE tab.id = "this" /\ ~fetch[r].older
    BY <1>1, <1>2, <2>1 DEF Tabs
  <2>2. CASE ~(tab.id = "this" /\ ~fetch[r].older)
    BY <1>1, <1>2, <1>3, <2>2
  <2> QED BY <2>1, <2>2
<1> QED BY <1>1, <1>2, <1>4 DEF IsTab

LEMMA FetchFailsTyped ==
  ASSUME Typed, NEW r \in Fetches, FetchFails(r)
  PROVE  Typed'
<1>1. /\ Done(r) /\ IsTab(tab') /\ UNCHANGED <<server, wire, call, h>>
      /\ tab'.id = tab.id /\ tab'.items = tab.items
      /\ tab'.pending = tab.pending /\ tab'.turn = tab.turn /\ tab'.cursor = tab.cursor
  BY FetchFailsStep
<1>2. FetchTyped'
  BY <1>1, FetchDone DEF Typed, ServerTyped
<1> QED BY <1>1, <1>2 DEF Typed, ServerTyped, WireTyped, TabTyped, CallTyped, HistoryTyped, NotAnothers

LEMMA loadOlderStep ==
  ASSUME Typed, NEW r \in Fetches, loadOlder(r)
  PROVE  LET f == [NoFetch EXCEPT !.at = "sent", !.older = TRUE, !.fresh = TRUE,
                                  !.before = tab.cursor] IN
         /\ tab.id = "this" /\ fetch[r].at = "none" /\ fetch' = [fetch EXCEPT ![r] = f]
         /\ f \in FetchSet /\ f.at = "sent" /\ f.older /\ f.fresh /\ f.before = tab.cursor
         /\ f.page = <<>> /\ f.detail = <<>>
         /\ h' = [h EXCEPT !.fetches = @ + 1] /\ h.fetches < MaxFetches
         /\ UNCHANGED <<server, wire, tab, call>>
<1> DEFINE f == [NoFetch EXCEPT !.at = "sent", !.older = TRUE, !.fresh = TRUE, !.before = tab.cursor]
<1>1. /\ tab.id = "this" /\ fetch[r].at = "none" /\ fetch' = [fetch EXCEPT ![r] = f]
      /\ h' = [h EXCEPT !.fetches = @ + 1] /\ h.fetches < MaxFetches
      /\ UNCHANGED <<server, wire, tab, call>>
  BY DEF loadOlder, FreeFetch
<1>2. tab.cursor \in 0..MaxLog
  BY DEF Typed, TabTyped, IsTab, Tabs
<1>3. f \in FetchSet
  BY <1>2, EmptyFetch DEF FetchSet
<1>4. /\ f.at = "sent" /\ f.older /\ f.fresh /\ f.before = tab.cursor
      /\ f.page = <<>> /\ f.detail = <<>>
  BY DEF NoFetch
<1> HIDE DEF f
<1> QED BY <1>1, <1>3, <1>4 DEF f

LEMMA loadOlderTyped ==
  ASSUME Typed, NEW r \in Fetches, loadOlder(r)
  PROVE  Typed'
<1> DEFINE f == [NoFetch EXCEPT !.at = "sent", !.older = TRUE, !.fresh = TRUE, !.before = tab.cursor]
<1>1. /\ fetch' = [fetch EXCEPT ![r] = f]
      /\ f \in FetchSet /\ f.at = "sent" /\ f.older /\ f.fresh /\ f.before = tab.cursor
      /\ f.page = <<>>
      /\ h' = [h EXCEPT !.fetches = @ + 1] /\ h.fetches < MaxFetches
      /\ UNCHANGED <<server, wire, tab, call>>
  BY loadOlderStep
<1> HIDE DEF f
<1>2. PageOK(server, f.page) /\ f.before <= Len(server.log)
  BY <1>1 DEF PageOK, Typed, TabTyped
<1>3. FetchTyped'
  BY <1>1, <1>2, FetchChange DEF Typed
<1>4. HistoryTyped'
  BY <1>1, StoreAssumption DEF Typed, HistoryTyped
<1> QED BY <1>1, <1>3, <1>4 DEF Typed, ServerTyped, WireTyped, TabTyped, CallTyped, NotAnothers

\* An older page that is taken.
LEMMA OlderLoadedStep ==
  ASSUME Typed, NEW r \in Fetches, OlderLoaded(r), tab.id = "this"
  PROVE  LET f == fetch[r]
             u == prependHistory(tab, f.page)
         IN
         /\ f.at = "read" /\ f.older /\ Done(r)
         /\ IsTab(tab') /\ tab'.id = "this" /\ tab'.items = u.items /\ tab'.seen = u.seen
         /\ tab'.pending = tab.pending /\ tab'.turn = tab.turn /\ tab'.cursor = f.before
         /\ tab'.loading = tab.loading
         /\ HistoryTyped' /\ h'.overtaken = h.overtaken
         /\ h'.doubled = (h.doubled \/ Doubles(f.page)) /\ h'.crossed = (h.crossed \/ ~f.fresh)
         /\ UNCHANGED <<server, wire, call>>
<1> DEFINE f == fetch[r]
           u == prependHistory(tab, f.page)
<1>1. /\ f.at = "read" /\ f.older /\ Done(r)
      /\ tab' = [u EXCEPT !.cursor = f.before]
      /\ h' = Crossed(r) /\ UNCHANGED <<server, wire, call>>
  BY DEF OlderLoaded, Answered
<1>2. IsTab(tab) /\ FetchTyped /\ HistoryTyped
  BY DEF Typed, TabTyped
<1>3. f.page \in Seq(EntrySet) /\ f.before \in 0..MaxLog /\ f.fresh \in BOOLEAN
  BY <1>2, FetchShape
<1>4. IsTab(u) /\ u.id = tab.id /\ u.pending = tab.pending /\ u.turn = tab.turn /\ u.loading = tab.loading
  BY <1>2, <1>3, Pages DEF Screen, Else
<1>5. /\ HistoryTyped' /\ h'.overtaken = h.overtaken
      /\ h'.doubled = (h.doubled \/ Doubles(f.page)) /\ h'.crossed = (h.crossed \/ ~f.fresh)
  <2> DEFINE b == h.doubled \/ Doubles(f.page)
             c == h.crossed \/ ~f.fresh
  <2>1. h' = [h EXCEPT !.doubled = b, !.crossed = c]
    BY <1>1, <1>2 DEF Crossed, HistoryTyped
  <2>2. b \in BOOLEAN /\ c \in BOOLEAN
    OBVIOUS
  <2> HIDE DEF b, c
  <2>3. HistoryTyped' /\ h'.overtaken = h.overtaken /\ h'.doubled = b /\ h'.crossed = c
    BY <1>2, <2>1, <2>2 DEF HistoryTyped
  <2> QED BY <2>3 DEF b, c
<1> HIDE DEF u
<1>6. /\ tab' \in Tabs /\ tab'.id = u.id /\ tab'.items = u.items /\ tab'.seen = u.seen
      /\ tab'.pending = u.pending /\ tab'.turn = u.turn /\ tab'.cursor = f.before
      /\ tab'.loading = u.loading
  BY <1>1, <1>3, <1>4 DEF IsTab, Tabs
<1>7. IsTab(tab')
  BY <1>4, <1>6 DEF IsTab
<1> QED BY <1>1, <1>4, <1>5, <1>6, <1>7 DEF u

LEMMA OlderLoadedTyped ==
  ASSUME Typed, NEW r \in Fetches, OlderLoaded(r)
  PROVE  Typed'
<1>1. FetchTyped /\ server \in Servers
  BY DEF Typed, ServerTyped
<1>2. Done(r) /\ UNCHANGED <<server, wire, call>>
  BY DEF OlderLoaded
<1>3. FetchTyped'
  BY <1>1, <1>2, FetchDone
<1>4. CASE tab.id # "this"
  <2>1. UNCHANGED <<tab, h>>
    BY <1>4 DEF OlderLoaded
  <2> QED BY <1>2, <1>3, <2>1 DEF Typed, ServerTyped, WireTyped, TabTyped, CallTyped, HistoryTyped, NotAnothers
<1>5. CASE tab.id = "this"
  <2>1. IsTab(tab') /\ tab'.id = "this" /\ tab'.cursor = fetch[r].before /\ HistoryTyped'
    BY <1>5, OlderLoadedStep
  <2>2. fetch[r].before <= Len(server.log)
    BY <1>1, FetchShape
  <2>3. TabTyped' /\ NotAnothers'
    BY <1>2, <2>1, <2>2, TabMine
  <2> QED BY <1>2, <1>3, <2>1, <2>3 DEF Typed, ServerTyped, WireTyped, CallTyped
<1> QED BY <1>4, <1>5

LEMMA promptStep ==
  ASSUME Typed, NEW x \in Prompts, prompt(x)
  PROVE  /\ tab.id = "this" /\ call[x] = "new" /\ call' = [call EXCEPT ![x] = "sent"]
         /\ IsTab(tab') /\ tab'.id = "this" /\ tab'.seen = tab.seen \cup {Local(x)}
         /\ OneMore(tab.items, tab'.items, Local(x), x)
         /\ tab'.pending = tab.pending /\ tab'.turn = tab.turn /\ tab'.cursor = tab.cursor
         /\ tab'.loading = tab.loading
         /\ UNCHANGED <<server, wire, fetch, h>>
<1> DEFINE u == localPrompt(tab, x)
<1>1. /\ tab.id = "this" /\ call[x] = "new" /\ call' = [call EXCEPT ![x] = "sent"]
      /\ tab' = [u EXCEPT !.prompting = TRUE] /\ UNCHANGED <<server, wire, fetch, h>>
  BY DEF prompt
<1>2. IsTab(tab)
  BY DEF Typed, TabTyped
<1>3. Screen(tab, u, u.items, tab.seen \cup {Local(x)}) /\ OneMore(tab.items, u.items, Local(x), x)
  BY <1>2, LocalPrompts
<1> HIDE DEF u
<1>4. /\ tab' \in Tabs /\ tab'.id = u.id /\ tab'.items = u.items /\ tab'.seen = u.seen
      /\ tab'.pending = u.pending /\ tab'.turn = u.turn /\ tab'.cursor = u.cursor
      /\ tab'.loading = u.loading
  BY <1>1, <1>3 DEF Screen, IsTab, Tabs
<1> QED BY <1>1, <1>3, <1>4 DEF Screen, IsTab, Else

LEMMA PromptReturnsStep ==
  ASSUME Typed, NEW x \in Prompts, NEW ok \in BOOLEAN, PromptReturns(x, ok)
  PROVE  /\ call[x] \in {"sent", "taken", "refused"}
         /\ call' = [call EXCEPT ![x] = IF @ = "sent" THEN "cut" ELSE "returned"]
         /\ IsTab(tab') /\ tab'.id = tab.id
         /\ tab'.pending = tab.pending /\ tab'.turn = tab.turn /\ tab'.cursor = tab.cursor
         /\ tab'.loading = tab.loading
         /\ \/ tab'.items = tab.items /\ tab'.seen = tab.seen
            \/ /\ tab'.seen = tab.seen \ {Local(x)} /\ tab.id = "this"
               /\ \E i : /\ OneLess(tab.items, tab'.items, i)
                         /\ tab.items[i].x = x /\ tab.items[i].id = Local(x)
         /\ UNCHANGED <<server, wire, fetch, h>>
<1> DEFINE d == dropLocalPrompt(tab, x)
           u == IF ok THEN tab ELSE d
<1>1. /\ call[x] \in {"sent", "taken", "refused"}
      /\ call' = [call EXCEPT ![x] = IF @ = "sent" THEN "cut" ELSE "returned"]
      /\ tab' = (IF tab.id # "this" THEN tab ELSE [u EXCEPT !.prompting = FALSE])
      /\ UNCHANGED <<server, wire, fetch, h>>
  BY DEF PromptReturns
<1>2. IsTab(tab)
  BY DEF Typed, TabTyped
<1>3. CASE tab.id # "this"
  BY <1>1, <1>2, <1>3
<1>4. CASE tab.id = "this"
  <2>1. \/ u = tab
        \/ /\ Screen(tab, u, u.items, tab.seen \ {Local(x)})
           /\ \E i : OneLess(tab.items, u.items, i) /\ tab.items[i].x = x /\ tab.items[i].id = Local(x)
    <3>1. \/ d = tab
          \/ /\ Screen(tab, d, d.items, tab.seen \ {Local(x)})
             /\ \E i : OneLess(tab.items, d.items, i) /\ tab.items[i].x = x /\ tab.items[i].id = Local(x)
      BY <1>2, DroppedPrompts
    <3> HIDE DEF d
    <3> QED BY <3>1
  <2>2. tab' = [u EXCEPT !.prompting = FALSE]
    BY <1>1, <1>4
  <2> HIDE DEF u
  <2>3. IsTab(u) /\ Else(tab, u) /\ u.turn = tab.turn /\ u.pending = tab.pending
    BY <1>2, <2>1 DEF Screen, Else
  <2>4. /\ tab' \in Tabs /\ tab'.id = u.id /\ tab'.items = u.items /\ tab'.seen = u.seen
        /\ tab'.pending = u.pending /\ tab'.turn = u.turn /\ tab'.cursor = u.cursor
        /\ tab'.loading = u.loading
    BY <2>2, <2>3 DEF IsTab, Tabs
  <2>5. IsTab(tab')
    BY <2>3, <2>4 DEF IsTab
  <2>6. \/ tab'.items = tab.items /\ tab'.seen = tab.seen
        \/ /\ tab'.seen = tab.seen \ {Local(x)}
           /\ \E i : /\ OneLess(tab.items, tab'.items, i)
                     /\ tab.items[i].x = x /\ tab.items[i].id = Local(x)
    BY <2>1, <2>4 DEF Screen
  <2> QED BY <1>1, <1>4, <2>3, <2>4, <2>5, <2>6 DEF Else
<1> QED BY <1>3, <1>4

LEMMA PromptsTyped ==
  ASSUME Typed, NEW x \in Prompts,
         prompt(x) \/ ServerRefuses(x) \/ \E ok \in BOOLEAN : PromptReturns(x, ok)
  PROVE  Typed'
<1>1. CallTyped
  BY DEF Typed
<1>2. CASE prompt(x)
  <2>1. /\ call' = [call EXCEPT ![x] = "sent"] /\ tab.id = "this"
        /\ IsTab(tab') /\ tab'.id = "this" /\ tab'.cursor = tab.cursor
        /\ UNCHANGED <<server, wire, fetch, h>>
    BY <1>2, promptStep
  <2>2. CallTyped'
    BY <1>1, <2>1 DEF CallTyped, Calls
  <2> QED BY <2>1, <2>2 DEF Typed, ServerTyped, WireTyped, TabTyped, FetchTyped, HistoryTyped, NotAnothers
<1>3. CASE ServerRefuses(x)
  <2>1. call' = [call EXCEPT ![x] = "refused"] /\ UNCHANGED <<server, wire, tab, fetch, h>>
    BY <1>3 DEF ServerRefuses
  <2>2. CallTyped'
    BY <1>1, <2>1 DEF CallTyped, Calls
  <2> QED BY <2>1, <2>2 DEF Typed, ServerTyped, WireTyped, TabTyped, FetchTyped, HistoryTyped, NotAnothers
<1>4. ASSUME NEW ok \in BOOLEAN, PromptReturns(x, ok) PROVE Typed'
  <2>1. /\ call' = [call EXCEPT ![x] = IF @ = "sent" THEN "cut" ELSE "returned"]
        /\ IsTab(tab') /\ tab'.id = tab.id /\ tab'.cursor = tab.cursor
        /\ tab'.pending = tab.pending /\ tab'.turn = tab.turn
        /\ tab.id # "this" => tab'.items = tab.items
        /\ UNCHANGED <<server, wire, fetch, h>>
    BY <1>4, PromptReturnsStep
  <2>2. CallTyped'
    BY <1>1, <2>1 DEF CallTyped, Calls
  <2>3. NotAnothers'
    BY <2>1 DEF Typed, NotAnothers
  <2> QED BY <2>1, <2>2, <2>3 DEF Typed, ServerTyped, WireTyped, TabTyped, FetchTyped, HistoryTyped
<1> QED BY <1>2, <1>3, <1>4

LEMMA InitTyped == Init => Typed
<1> SUFFICES ASSUME Init PROVE Typed
  OBVIOUS
<1>1. <<>> \in Logs /\ <<>> \in Seq(Said) /\ DOMAIN <<>> = {} /\ Len(<<>>) = 0
  BY StoreAssumption DEF Logs
<1>2. ServerTyped /\ server.log = <<>>
  BY <1>1 DEF Init, ServerTyped, Servers, Turns
<1>3. WireTyped
  <2>1. wire \in Wires
    BY <1>1 DEF Init, Wires
  <2> QED BY <2>1 DEF Init, WireTyped
<1>4. TabTyped /\ NotAnothers
  BY <1>1, <1>2, BlankTab DEF Init, TabTyped, NotAnothers
<1>5. CallTyped
  BY DEF Init, CallTyped, Calls
<1>6. FetchTyped
  <2>1. \A r \in Fetches : fetch[r] = NoFetch
    BY DEF Init
  <2>2. fetch \in [Fetches -> FetchSet]
    BY EmptyFetch DEF Init
  <2> QED BY <1>1, <1>2, <2>1, <2>2, EmptyFetch DEF FetchTyped, PageOK
<1>7. HistoryTyped
  BY StoreAssumption DEF Init, HistoryTyped
<1> QED BY <1>2, <1>3, <1>4, <1>5, <1>6, <1>7 DEF Typed

LEMMA NextTyped == Typed /\ [Next]_vars => Typed'
<1> SUFFICES ASSUME Typed, [Next]_vars PROVE Typed'
  OBVIOUS
<1>1. CASE UNCHANGED vars
  BY <1>1 DEF vars, Typed, ServerTyped, WireTyped, TabTyped, CallTyped, FetchTyped, HistoryTyped, NotAnothers
<1>2. ASSUME NEW x \in Prompts,
             ServerTakes(x) \/ ServerRefuses(x) \/ prompt(x) \/ \E ok \in BOOLEAN : PromptReturns(x, ok)
      PROVE  Typed'
  BY <1>2, TakesTyped, PromptsTyped
<1>3. CASE ServerStep
  BY <1>3, ServerStepTyped
<1>4. CASE open \/ close \/ StreamDrops \/ onEvent
  BY <1>4, openTyped, closeTyped, StreamDropsTyped, onEventTyped
<1>5. ASSUME NEW r \in Fetches,
             onOpen(r) \/ ReadDetail(r) \/ ReadPage(r) \/ resync(r) \/ FetchFails(r)
               \/ loadOlder(r) \/ OlderLoaded(r)
      PROVE  Typed'
  BY <1>5, onOpenTyped, ReadsTyped, resyncTyped, FetchFailsTyped, loadOlderTyped, OlderLoadedTyped
<1> QED BY <1>1, <1>2, <1>3, <1>4, <1>5 DEF Next

\* Every variable keeps to its type, and what the stream and the answers under
\* way say is about entries the transcript has or streams (transcript.ts: the
\* reducer of events; thread.ts: open, resync, loadOlder and prompt).
THEOREM StoreTyped == Spec => []Typed
<1>1. Init => Typed
  BY InitTyped
<1>2. Typed /\ [Next]_vars => Typed'
  BY NextTyped
<1> QED BY <1>1, <1>2, PTL DEF Spec

\* The store holds what its types say, and nothing of one thread when it shows
\* another: an answer that comes after the owner left is dropped (thread.ts:
\* the checks of the thread id in resync, loadOlder and prompt; close).
THEOREM StoreIsSound == Spec => []StoreSound
BY StoreTyped, TypedSound, PTL

-----------------------------------------------------------------------------
(* Loading ends: whoever ends a resync ends the loading, and a connection  *)
(* brings a resync.                                                        *)

\* The requests of a resync that were under way still are.
ResyncsStay ==
  \A q \in Fetches : fetch[q].at # "none" /\ ~fetch[q].older
                     => fetch'[q].at # "none" /\ ~fetch'[q].older

LEMMA LoadingStays ==
  ASSUME LoadingEnds, tab'.id = tab.id, tab'.loading = tab.loading, wire'.open = wire.open,
         ResyncsStay
  PROVE  LoadingEnds'
BY DEF LoadingEnds, ResyncsStay

LEMMA OtherResyncs ==
  ASSUME FetchTyped, NEW r \in Fetches, NEW f, fetch' = [fetch EXCEPT ![r] = f],
         fetch[r].at # "none" /\ ~fetch[r].older => f.at # "none" /\ ~f.older
  PROVE  ResyncsStay
<1>1. \A q \in Fetches : fetch'[q] = IF q = r THEN f ELSE fetch[q]
  BY DEF FetchTyped
<1> QED BY <1>1 DEF ResyncsStay

LEMMA NextLoading == Typed /\ LoadingEnds /\ [Next]_vars => LoadingEnds'
<1> SUFFICES ASSUME Typed, LoadingEnds, [Next]_vars PROVE LoadingEnds'
  OBVIOUS
<1>0. ServerTyped /\ FetchTyped /\ wire \in Wires /\ IsTab(tab) /\ server \in Servers
  BY DEF Typed, WireTyped, TabTyped, ServerTyped
<1>1. CASE UNCHANGED vars
  BY <1>1 DEF vars, LoadingEnds
<1>2. ASSUME NEW events, Acts(events) PROVE LoadingEnds'
  <2>1. UNCHANGED <<tab, fetch>> /\ wire'.open = wire.open
    BY <1>0, <1>2 DEF Acts, Wires
  <2> QED BY <2>1, LoadingStays DEF ResyncsStay
<1>3. ASSUME NEW x \in Prompts, ServerTakes(x) PROVE LoadingEnds'
  BY <1>0, <1>2, <1>3, TakesStep
<1>4. CASE ServerStep
  <2>1. \E events : Acts(events)
    BY <1>0, <1>4, StreamsStep, SettlesStep, AsksStep, ResolvesStep, FinishesStep DEF ServerStep
  <2> QED BY <1>2, <2>1
<1>5. ASSUME NEW x \in Prompts,
             ServerRefuses(x) \/ prompt(x) \/ \E ok \in BOOLEAN : PromptReturns(x, ok)
      PROVE  LoadingEnds'
  <2>1. UNCHANGED <<wire, fetch>> /\ tab'.id = tab.id /\ tab'.loading = tab.loading
    BY <1>5, promptStep, PromptReturnsStep DEF ServerRefuses
  <2> QED BY <2>1, LoadingStays DEF ResyncsStay
<1>6. CASE open
  <2>1. tab.id = "other" /\ wire' = wire
    BY <1>6 DEF open
  <2>2. ~wire.open
    BY <2>1 DEF Typed, WireTyped
  <2> QED BY <2>1, <2>2 DEF LoadingEnds
<1>7. CASE close
  <2>1. tab'.id = "other"
    BY <1>7, BlankTab DEF close
  <2> QED BY <2>1 DEF LoadingEnds
<1>8. CASE StreamDrops
  <2>1. ~wire'.open
    BY <1>8, DisconnectedStep DEF StreamDrops
  <2> QED BY <2>1 DEF LoadingEnds
<1>9. CASE onEvent
  <2> DEFINE e == Head(wire.events)
  <2>1. /\ e \in Said /\ EventOK(server, e) /\ tab' = applyEvent(tab, e)
        /\ wire'.open = wire.open /\ fetch' = fetch
    BY <1>9, onEventStep
  <2> HIDE DEF e
  <2>2. tab'.id = tab.id /\ tab'.loading = tab.loading
    BY <1>0, <2>1, EventsTyped DEF Else
  <2> QED BY <2>1, <2>2, LoadingStays DEF ResyncsStay
<1>10. ASSUME NEW r \in Fetches, onOpen(r) PROVE LoadingEnds'
  <2> DEFINE f == [NoFetch EXCEPT !.at = "sent", !.fresh = TRUE]
  <2>1. fetch' = [fetch EXCEPT ![r] = f]
    BY <1>10, onOpenStep
  <2>2. f.at = "sent" /\ ~f.older
    BY DEF NoFetch
  <2> HIDE DEF f
  <2>3. fetch'[r] = f
    BY <1>0, <2>1 DEF FetchTyped
  <2> QED BY <2>2, <2>3 DEF LoadingEnds
<1>11. ASSUME NEW r \in Fetches, ReadDetail(r) PROVE LoadingEnds'
  <2> DEFINE f == [fetch[r] EXCEPT !.detail = <<server.pending, server.turn, server.ver>>]
  <2>1. /\ fetch' = [fetch EXCEPT ![r] = f] /\ f.at = fetch[r].at /\ f.older = fetch[r].older
        /\ UNCHANGED <<server, wire, tab, call, h>>
    BY <1>11, ReadDetailStep
  <2> HIDE DEF f
  <2>2. ResyncsStay
    BY <1>0, <2>1, OtherResyncs
  <2> QED BY <2>1, <2>2, LoadingStays
<1>12. ASSUME NEW r \in Fetches, ReadPage(r) PROVE LoadingEnds'
  <2> DEFINE last == IF fetch[r].older THEN fetch[r].before ELSE Len(server.log)
             f == [fetch[r] EXCEPT !.at = "read", !.page = Page(last), !.before = Left(last)]
  <2>1. /\ fetch' = [fetch EXCEPT ![r] = f] /\ f.at = "read" /\ f.older = fetch[r].older
        /\ UNCHANGED <<server, wire, tab, call, h>>
    BY <1>12, ReadPageStep
  <2> HIDE DEF f, last
  <2>2. ResyncsStay
    BY <1>0, <2>1, OtherResyncs
  <2> QED BY <2>1, <2>2, LoadingStays
<1>13. ASSUME NEW r \in Fetches, resync(r) PROVE LoadingEnds'
  <2>1. CASE tab.id = "this"
    <3>1. ~tab'.loading
      BY <1>13, <2>1, resyncStep
    <3> QED BY <3>1 DEF LoadingEnds
  <2>2. CASE tab.id # "this"
    <3>1. tab' = tab
      BY <1>13, <2>2 DEF resync
    <3> QED BY <2>2, <3>1 DEF LoadingEnds
  <2> QED BY <2>1, <2>2
<1>14. ASSUME NEW r \in Fetches, FetchFails(r) PROVE LoadingEnds'
  <2>1. /\ Done(r) /\ wire' = wire /\ tab'.id = tab.id
        /\ tab'.loading = (tab.loading /\ ~(tab.id = "this" /\ ~fetch[r].older))
    BY <1>14, FetchFailsStep
  <2>2. CASE tab'.id = "this" /\ tab'.loading
    <3>1. tab.loading /\ fetch[r].older
      BY <2>1, <2>2
    <3>2. ResyncsStay
      BY <1>0, <2>1, <3>1, OtherResyncs DEF Done
    <3>3. tab'.loading = tab.loading
      BY <2>1, <3>1
    <3> QED BY <2>1, <3>2, <3>3, LoadingStays
  <2>3. CASE ~(tab'.id = "this" /\ tab'.loading)
    BY <2>3 DEF LoadingEnds
  <2> QED BY <2>2, <2>3
<1>15. ASSUME NEW r \in Fetches, loadOlder(r) PROVE LoadingEnds'
  <2> DEFINE f == [NoFetch EXCEPT !.at = "sent", !.older = TRUE, !.fresh = TRUE,
                                  !.before = tab.cursor]
  <2>1. /\ fetch[r].at = "none" /\ fetch' = [fetch EXCEPT ![r] = f]
        /\ UNCHANGED <<server, wire, tab, call>>
    BY <1>15, loadOlderStep
  <2> HIDE DEF f
  <2>2. ResyncsStay
    BY <1>0, <2>1, OtherResyncs
  <2> QED BY <2>1, <2>2, LoadingStays
<1>16. ASSUME NEW r \in Fetches, OlderLoaded(r) PROVE LoadingEnds'
  <2>1. fetch[r].older /\ Done(r) /\ wire' = wire
    BY <1>16 DEF OlderLoaded
  <2>2. ResyncsStay
    BY <1>0, <2>1, OtherResyncs DEF Done
  <2>3. tab'.id = tab.id /\ tab'.loading = tab.loading
    <3>1. CASE tab.id = "this"
      BY <1>16, <3>1, OlderLoadedStep
    <3>2. CASE tab.id # "this"
      BY <1>16, <3>2 DEF OlderLoaded
    <3> QED BY <3>1, <3>2
  <2> QED BY <2>1, <2>2, <2>3, LoadingStays
<1> QED BY <1>1, <1>3, <1>4, <1>5, <1>6, <1>7, <1>8, <1>9, <1>10, <1>11, <1>12, <1>13, <1>14,
           <1>15, <1>16 DEF Next

\* A tab that loads has a resync under way, or no connection, and the next one
\* brings a resync (thread.ts: onOpen, resync and its failure, open, close).
THEOREM LoadingIsEnded == Spec => []LoadingEnds
<1>1. Init => Typed /\ LoadingEnds
  BY InitTyped DEF Init, LoadingEnds, Blank
<1>2. (Typed /\ LoadingEnds) /\ [Next]_vars => (Typed /\ LoadingEnds)'
  BY NextTyped, NextLoading
<1> QED BY <1>1, <1>2, PTL DEF Spec

-----------------------------------------------------------------------------
(* What is pending and the turn: the events on their way, handled in their *)
(* order, end in the server's state, whichever state at or before them the *)
(* tab starts from.                                                        *)

\* The state (P, T) is right already in what no event after the k-th is about.
Lasting(s, evs, k, P, T) ==
  /\ (\A j \in (k + 1)..Len(evs) : ~IsTurn(evs[j])) => s.turn = T
  /\ \A n \in Asks : (\A j \in (k + 1)..Len(evs) : ~IsAbout(evs[j], n))
                      => (n \in s.pending <=> n \in P)

\* The last event about something says how it is.
Tells(s, evs) ==
  \A k \in 1..Len(evs) :
    /\ IsTurn(evs[k]) /\ (\A j \in (k + 1)..Len(evs) : ~IsTurn(evs[j])) => s.turn = TurnOf(evs[k])
    /\ \A n \in Asks :
         IsAbout(evs[k], n) /\ (\A j \in (k + 1)..Len(evs) : ~IsAbout(evs[j], n))
         => (n \in s.pending <=> evs[k][1] = "interaction_request")

\* V[k] is the version of the server's state after the k-th event on its way.
Counted(s, v0, evs, V) ==
  /\ V \in [0..Len(evs) -> Nat] /\ V[0] = v0 /\ V[Len(evs)] = s.ver
  /\ \A k \in 1..Len(evs) : V[k] = IF IsLive(evs[k]) THEN V[k - 1] + 1 ELSE V[k - 1]

\* The state read is one the server was in, after the k-th of these events.
ReadAt(s, evs, V, d) ==
  \E k \in 0..Len(evs) : d[3] = V[k] /\ Lasting(s, evs, k, d[1], d[2])

OnTime ==
  \A r \in Fetches : fetch[r].detail # <<>> =>
    /\ fetch[r].detail[3] <= server.ver
    /\ fetch[r].detail[3] = server.ver =>
         fetch[r].detail[1] = server.pending /\ fetch[r].detail[2] = server.turn

DetailsTell(s, v0, evs, V) ==
  \A r \in Fetches : fetch[r].detail # <<>> /\ v0 <= fetch[r].detail[3]
                     => ReadAt(s, evs, V, fetch[r].detail)

Relaying(s, v0, evs) ==
  Tells(s, evs) /\ \E V : Counted(s, v0, evs, V) /\ DetailsTell(s, v0, evs, V)

Relayed == wire.open => Relaying(server, wire.ver, wire.events)

TabTells ==
  wire.open /\ wire.synced /\ ~h.overtaken
  => Lasting(server, wire.events, 0, tab.pending, tab.turn)

Told == OnTime /\ Relayed /\ TabTells

\* One event more at the end of a sequence of events.
Then(evs, e, more) ==
  /\ evs \in Seq(Said) /\ more \in Seq(Said) /\ e \in Said
  /\ Len(more) = Len(evs) + 1 /\ more[Len(evs) + 1] = e
  /\ \A k \in 1..Len(evs) : more[k] = evs[k]

LEMMA Relay ==
  ASSUME NEW s, NEW u, NEW evs, NEW more, NEW e, Then(evs, e, more),
         Turned(e, s.turn, u.turn), Asked(e, s.pending, u.pending), Tells(s, evs)
  PROVE  /\ Tells(u, more)
         /\ \A k \in 0..Len(evs) : \A P, T : Lasting(s, evs, k, P, T) => Lasting(u, more, k, P, T)
<1>1. /\ Len(evs) \in Nat /\ Len(more) = Len(evs) + 1 /\ more[Len(evs) + 1] = e
      /\ \A k \in 1..Len(evs) : more[k] = evs[k]
  BY DEF Then
<1>2. \A k \in 0..Len(evs) : Len(evs) + 1 \in (k + 1)..Len(more)
  BY <1>1
<1>3. \A k \in 0..Len(evs) : \A j \in (k + 1)..Len(evs) : j \in (k + 1)..Len(more) /\ more[j] = evs[j]
  BY <1>1
<1>4. ASSUME NEW k \in 0..Len(evs), NEW P, NEW T, Lasting(s, evs, k, P, T)
      PROVE  Lasting(u, more, k, P, T)
  <2>1. ASSUME \A j \in (k + 1)..Len(more) : ~IsTurn(more[j]) PROVE u.turn = T
    <3>1. ~IsTurn(e)
      BY <1>1, <1>2, <2>1
    <3>2. \A j \in (k + 1)..Len(evs) : ~IsTurn(evs[j])
      BY <1>3, <2>1
    <3> QED BY <1>4, <3>1, <3>2 DEF Lasting, Turned
  <2>2. ASSUME NEW n \in Asks, \A j \in (k + 1)..Len(more) : ~IsAbout(more[j], n)
        PROVE  n \in u.pending <=> n \in P
    <3>1. ~IsAbout(e, n)
      BY <1>1, <1>2, <2>2
    <3>2. \A j \in (k + 1)..Len(evs) : ~IsAbout(evs[j], n)
      BY <1>3, <2>2
    <3> QED BY <1>4, <3>1, <3>2 DEF Lasting, Asked
  <2> QED BY <2>1, <2>2 DEF Lasting
<1>5. ASSUME NEW k \in 1..Len(more), IsTurn(more[k]),
             \A j \in (k + 1)..Len(more) : ~IsTurn(more[j])
      PROVE  u.turn = TurnOf(more[k])
  <2>1. CASE k = Len(evs) + 1
    BY <1>1, <1>5, <2>1 DEF Turned
  <2>2. CASE k # Len(evs) + 1
    <3>1. k \in 1..Len(evs) /\ k \in 0..Len(evs)
      BY <1>1, <2>2
    <3>2. ~IsTurn(e) /\ more[k] = evs[k]
      BY <1>1, <1>2, <1>5, <3>1
    <3>3. \A j \in (k + 1)..Len(evs) : ~IsTurn(evs[j])
      BY <1>3, <1>5, <3>1
    <3> QED BY <1>5, <3>1, <3>2, <3>3 DEF Tells, Turned
  <2> QED BY <2>1, <2>2
<1>6. ASSUME NEW n \in Asks, NEW k \in 1..Len(more), IsAbout(more[k], n),
             \A j \in (k + 1)..Len(more) : ~IsAbout(more[j], n)
      PROVE  n \in u.pending <=> more[k][1] = "interaction_request"
  <2>1. CASE k = Len(evs) + 1
    BY <1>1, <1>6, <2>1 DEF Asked
  <2>2. CASE k # Len(evs) + 1
    <3>1. k \in 1..Len(evs) /\ k \in 0..Len(evs)
      BY <1>1, <2>2
    <3>2. ~IsAbout(e, n) /\ more[k] = evs[k]
      BY <1>1, <1>2, <1>6, <3>1
    <3>3. \A j \in (k + 1)..Len(evs) : ~IsAbout(evs[j], n)
      BY <1>3, <1>6, <3>1
    <3> QED BY <1>6, <3>1, <3>2, <3>3 DEF Tells, Asked
  <2> QED BY <2>1, <2>2
<1> QED BY <1>4, <1>5, <1>6 DEF Tells

\* What the server does and says of it.
Says(s, e, u) ==
  /\ Turned(e, s.turn, u.turn) /\ Asked(e, s.pending, u.pending)
  /\ u.ver = IF IsLive(e) THEN s.ver + 1 ELSE s.ver

\* The versions of these events are the same.
Upto(evs, V, W) == \A k \in 0..Len(evs) : W[k] = V[k]

LEMMA RelayCounts ==
  ASSUME NEW s, NEW u, NEW v0, NEW evs, NEW more, NEW e, NEW V, Then(evs, e, more),
         s.ver \in Nat, Says(s, e, u), Counted(s, v0, evs, V)
  PROVE  \E W : Counted(u, v0, more, W) /\ Upto(evs, V, W)
<1> DEFINE W == [k \in 0..Len(more) |-> IF k \in 0..Len(evs) THEN V[k] ELSE u.ver]
<1>1. /\ Len(evs) \in Nat /\ Len(more) = Len(evs) + 1 /\ more[Len(evs) + 1] = e
      /\ \A k \in 1..Len(evs) : more[k] = evs[k]
  BY DEF Then
<1>2. /\ V \in [0..Len(evs) -> Nat] /\ V[0] = v0 /\ V[Len(evs)] = s.ver
      /\ \A k \in 1..Len(evs) : V[k] = IF IsLive(evs[k]) THEN V[k - 1] + 1 ELSE V[k - 1]
  BY DEF Counted
<1>3. u.ver \in Nat /\ u.ver = IF IsLive(e) THEN s.ver + 1 ELSE s.ver
  BY DEF Says
<1>4. /\ W \in [0..Len(more) -> Nat] /\ \A k \in 0..Len(evs) : W[k] = V[k]
      /\ W[Len(more)] = u.ver
  BY <1>1, <1>2, <1>3
<1> HIDE DEF W
<1>5. W[0] = v0
  BY <1>1, <1>2, <1>4
<1>6. ASSUME NEW k \in 1..Len(more)
      PROVE  W[k] = IF IsLive(more[k]) THEN W[k - 1] + 1 ELSE W[k - 1]
  <2>1. CASE k = Len(evs) + 1
    <3>1. k - 1 = Len(evs) /\ W[k - 1] = s.ver /\ more[k] = e /\ W[k] = u.ver
      BY <1>1, <1>2, <1>4, <2>1
    <3> QED BY <1>3, <3>1
  <2>2. CASE k # Len(evs) + 1
    <3>1. k \in 1..Len(evs) /\ k - 1 \in 0..Len(evs) /\ k \in 0..Len(evs)
      BY <1>1, <2>2
    <3> QED BY <1>1, <1>2, <1>4, <3>1
  <2> QED BY <2>1, <2>2
<1> QED BY <1>4, <1>5, <1>6 DEF Counted, Upto

\* What the tab makes of an event about the live state.
LEMMA EventsAsk ==
  ASSUME NEW t, IsTab(t), NEW e \in Said, NEW s \in Servers, EventOK(s, e)
  PROVE  LET u == applyEvent(t, e) IN
         Turned(e, t.turn, u.turn) /\ Asked(e, t.pending, u.pending)
<1> DEFINE u == applyEvent(t, e)
<1>1. CASE IsLive(e)
  BY <1>1, LiveEvents
<1>2. CASE ~IsLive(e)
  <2>1. ~IsTurn(e) /\ \A n : ~IsAbout(e, n)
    BY <1>2 DEF IsLive, IsTurn, IsAbout
  <2>2. u.turn = t.turn /\ u.pending = t.pending
    <3>2. CASE e[1] = "user_message"
      BY <3>2, UserMessages DEF Screen
    <3>3. CASE e[1] = "assistant_message"
      <4>1. PICK n \in DOMAIN s.log : e[2] = Message(n)
        BY <3>3 DEF EventOK
      <4>2. n \in Nat
        BY LogShape
      <4> QED BY <3>3, <4>1, <4>2, AssistantMessages DEF Screen
    <3>4. CASE e[1] = "text_delta"
      <4>1. PICK n \in 1..(Len(s.log) + 1) : e[2] = Message(n)
        BY <3>4 DEF EventOK
      <4>2. n \in Nat
        BY LogShape
      <4> QED BY <3>4, <4>1, <4>2, TextDeltas DEF Screen
    <3> QED BY <1>2, <3>2, <3>3, <3>4, SaidShape DEF IsLive
  <2> QED BY <2>1, <2>2 DEF Turned, Asked
<1> QED BY <1>1, <1>2

LEMMA RelayingMore ==
  ASSUME NEW s, NEW u, NEW v0, NEW evs, NEW more, NEW e, Then(evs, e, more),
         s.ver \in Nat, Says(s, e, u), Relaying(s, v0, evs)
  PROVE  Relaying(u, v0, more)
<1>1. Turned(e, s.turn, u.turn) /\ Asked(e, s.pending, u.pending) /\ Tells(s, evs)
  BY DEF Says, Relaying
<1>2. /\ Tells(u, more)
      /\ \A k \in 0..Len(evs) : \A P, T : Lasting(s, evs, k, P, T) => Lasting(u, more, k, P, T)
  BY <1>1, Relay
<1>3. PICK V : Counted(s, v0, evs, V) /\ DetailsTell(s, v0, evs, V)
  BY DEF Relaying
<1>4. PICK W : Counted(u, v0, more, W) /\ \A k \in 0..Len(evs) : W[k] = V[k]
  <2>1. \E W : Counted(u, v0, more, W) /\ Upto(evs, V, W)
    BY <1>3, RelayCounts
  <2> QED BY <2>1 DEF Upto
<1>5. \A k \in 0..Len(evs) : k \in 0..Len(more)
  BY DEF Then
<1>6. \A d : ReadAt(s, evs, V, d) => ReadAt(u, more, W, d)
  BY <1>2, <1>4, <1>5 DEF ReadAt
<1>7. DetailsTell(u, v0, more, W)
  BY <1>3, <1>6 DEF DetailsTell
<1> QED BY <1>2, <1>4, <1>7 DEF Relaying

LEMMA OneMoreHeard ==
  ASSUME wire \in Wires, wire.open, NEW e \in Said, Acts(<<e>>)
  PROVE  Then(wire.events, e, wire'.events) /\ wire'.ver = wire.ver
<1>1. Heard(wire, wire', <<e>>)
  BY OneEvent, ActsHeard
<1>2. wire'.events \in Seq(Said) /\ wire.events \in Seq(Said) /\ DOMAIN wire.events = 1..Len(wire.events)
  BY <1>1, WireShape DEF Heard
<1> HIDE DEF Heard
<1>3. Len(wire'.events) = Len(wire.events) + 1 /\ wire'.events[Len(wire.events) + 1] = e
  BY <1>1, OneEvent DEF Heard
<1>4. \A k \in 1..Len(wire.events) : wire'.events[k] = wire.events[k]
  BY <1>1, <1>2 DEF Heard
<1> QED BY <1>1, <1>2, <1>3, <1>4 DEF Then, Heard

LEMMA TwoMoreHeard ==
  ASSUME wire \in Wires, wire.open, NEW e \in Said, NEW f \in Said, Acts(<<e, f>>)
  PROVE  /\ wire'.ver = wire.ver
         /\ \E mid : Then(wire.events, e, mid) /\ Then(mid, f, wire'.events)
<1> DEFINE mid == Append(wire.events, e)
           two == <<e, f>>
<1>1. two \in Seq(Said) /\ Len(two) = 2 /\ DOMAIN two = {1, 2} /\ two[1] = e /\ two[2] = f
  OBVIOUS
<1> HIDE DEF two
<1>2. Heard(wire, wire', two)
  BY <1>1, ActsHeard DEF two
<1>3. /\ wire'.events \in Seq(Said) /\ wire.events \in Seq(Said) /\ Len(wire.events) \in Nat
      /\ DOMAIN wire.events = 1..Len(wire.events)
  BY <1>2, WireShape DEF Heard
<1>4. /\ mid \in Seq(Said) /\ Len(mid) = Len(wire.events) + 1 /\ mid[Len(wire.events) + 1] = e
      /\ \A k \in 1..Len(wire.events) : mid[k] = wire.events[k]
  BY <1>3
<1> HIDE DEF mid
<1>5. Then(wire.events, e, mid)
  BY <1>3, <1>4 DEF Then
<1>6. /\ Len(wire'.events) = Len(wire.events) + 2 /\ wire'.events[Len(wire.events) + 2] = f
      /\ wire'.events[Len(wire.events) + 1] = e
  BY <1>1, <1>2 DEF Heard
<1>7. \A k \in 1..Len(wire.events) : wire'.events[k] = wire.events[k]
  BY <1>2, <1>3 DEF Heard
<1>8. Len(wire'.events) = Len(mid) + 1 /\ wire'.events[Len(mid) + 1] = f
  BY <1>3, <1>4, <1>6
<1>9. \A k \in 1..Len(mid) : wire'.events[k] = mid[k]
  <2> TAKE k \in 1..Len(mid)
  <2>1. k \in 1..Len(wire.events) \/ k = Len(wire.events) + 1
    BY <1>3, <1>4
  <2> QED BY <1>4, <1>6, <1>7, <2>1
<1>10. Then(mid, f, wire'.events)
  BY <1>3, <1>4, <1>8, <1>9 DEF Then
<1> QED BY <1>2, <1>5, <1>10 DEF Heard

LEMMA OnTimeStays ==
  ASSUME Typed, OnTime, \A r \in Fetches : fetch'[r].detail # <<>> => fetch'[r].detail = fetch[r].detail,
         server.ver \in Nat,
         \/ server'.ver = server.ver + 1
         \/ server'.ver = server.ver /\ server'.pending = server.pending /\ server'.turn = server.turn
  PROVE  OnTime'
<1> SUFFICES ASSUME NEW r \in Fetches, fetch'[r].detail # <<>>
             PROVE  /\ fetch'[r].detail[3] <= server'.ver
                    /\ fetch'[r].detail[3] = server'.ver =>
                         fetch'[r].detail[1] = server'.pending /\ fetch'[r].detail[2] = server'.turn
  BY DEF OnTime
<1> DEFINE d == fetch[r].detail
<1>1. fetch'[r].detail = d /\ d # <<>>
  OBVIOUS
<1>2. d[3] \in Nat
  BY <1>1, FetchShape DEF Typed
<1>3. d[3] <= server.ver /\ (d[3] = server.ver => d[1] = server.pending /\ d[2] = server.turn)
  BY <1>1 DEF OnTime
<1> QED BY <1>1, <1>2, <1>3

\* One event, or the two of a prompt that is taken.
LEMMA SaysTold ==
  ASSUME Typed, Told, NEW e \in Said, Acts(<<e>>), Says(server, e, server'), server'.ver \in Nat,
         \/ server'.ver = server.ver + 1
         \/ server'.ver = server.ver /\ server'.pending = server.pending /\ server'.turn = server.turn
  PROVE  Told'
<1>1. wire \in Wires /\ server.ver \in Nat /\ UNCHANGED <<tab, fetch, h>>
  BY ServerShape DEF Typed, WireTyped, ServerTyped, Acts
<1>2. OnTime'
  BY <1>1, OnTimeStays DEF Told
<1>3. CASE ~wire.open
  <2>1. ~wire'.open
    BY <1>3 DEF Acts
  <2> QED BY <1>2, <2>1 DEF Told, Relayed, TabTells
<1>4. CASE wire.open
  <2>1. Then(wire.events, e, wire'.events) /\ wire'.ver = wire.ver
    BY <1>1, <1>4, OneMoreHeard
  <2>2. wire'.synced = wire.synced
    BY <1>1, <1>4 DEF Acts, Wires
  <2>3. Relaying(server, wire.ver, wire.events)
    BY <1>4 DEF Told, Relayed
  <2>4. Relaying(server', wire.ver, wire'.events)
    BY <1>1, <2>1, <2>3, RelayingMore
  <2>5. Relayed'
    BY <1>1, <2>1, <2>4 DEF Relayed, Relaying, DetailsTell
  <2>6. TabTells'
    <3> SUFFICES ASSUME wire.synced, ~h.overtaken
                 PROVE  Lasting(server', wire'.events, 0, tab.pending, tab.turn)
      BY <1>1, <2>2 DEF TabTells
    <3>1. Lasting(server, wire.events, 0, tab.pending, tab.turn)
      BY <1>4 DEF Told, TabTells
    <3>2. 0 \in 0..Len(wire.events)
      BY <2>1 DEF Then
    <3> QED BY <2>1, <2>3, <3>1, <3>2, Relay DEF Says, Relaying
  <2> QED BY <1>2, <2>5, <2>6 DEF Told
<1> QED BY <1>3, <1>4

LEMMA TakesTold ==
  ASSUME Typed, Told, NEW x \in Prompts, ServerTakes(x)
  PROVE  Told'
<1> DEFINE n == Len(server.log) + 1
           e == <<"turn_started", x>>
           f == UserMessage(n, x)
<1>1. ServerTyped /\ server \in Servers /\ wire \in Wires /\ server.ver \in Nat /\ n \in Nat
  BY LogShape, ServerShape DEF Typed, ServerTyped, WireTyped
<1>2. /\ server' \in Servers /\ server'.turn = x /\ server'.pending = server.pending
      /\ server'.ver = server.ver + 1 /\ Acts(<<e, f>>)
  BY <1>1, TakesStep
<1>3. e \in Said /\ f \in Said
  <2>1. (IF SameId THEN Message(n) ELSE Local(x)) \in Ids
    BY <1>1, Names
  <2> QED BY <2>1 DEF Said, UserMessage
<1>4. Says(server, e, server')
  BY <1>2 DEF Says, Turned, Asked, IsTurn, TurnOf, IsAbout, IsLive
<1>5. Says(server', f, server')
  BY DEF Says, Turned, Asked, IsTurn, IsAbout, IsLive, UserMessage
<1> HIDE DEF e, f
<1>6. UNCHANGED <<tab, fetch, h>>
  BY <1>2 DEF Acts
<1>7. OnTime'
  BY <1>1, <1>2, <1>6, OnTimeStays DEF Told
<1>8. CASE ~wire.open
  <2>1. ~wire'.open
    BY <1>2, <1>8 DEF Acts
  <2> QED BY <1>7, <2>1 DEF Told, Relayed, TabTells
<1>9. CASE wire.open
  <2>1. wire'.ver = wire.ver
    BY <1>1, <1>2, <1>3, <1>9, TwoMoreHeard
  <2>2. PICK mid : Then(wire.events, e, mid) /\ Then(mid, f, wire'.events)
    BY <1>1, <1>2, <1>3, <1>9, TwoMoreHeard
  <2>3. wire'.synced = wire.synced
    BY <1>1, <1>2, <1>9 DEF Acts, Wires
  <2>4. Relaying(server, wire.ver, wire.events)
    BY <1>9 DEF Told, Relayed
  <2>5. Relaying(server', wire.ver, mid)
    BY <1>1, <1>4, <2>2, <2>4, RelayingMore
  <2>6. server'.ver \in Nat
    BY <1>2, ServerShape
  <2>7. Relaying(server', wire.ver, wire'.events)
    BY <1>5, <2>2, <2>5, <2>6, RelayingMore
  <2>8. Relayed'
    BY <1>6, <2>1, <2>7 DEF Relayed, Relaying, DetailsTell
  <2>9. TabTells'
    <3> SUFFICES ASSUME wire.synced, ~h.overtaken
                 PROVE  Lasting(server', wire'.events, 0, tab.pending, tab.turn)
      BY <1>6, <2>3 DEF TabTells
    <3>1. Lasting(server, wire.events, 0, tab.pending, tab.turn)
      BY <1>9 DEF Told, TabTells
    <3>2. 0 \in 0..Len(wire.events) /\ 0 \in 0..Len(mid)
      BY <2>2 DEF Then
    <3>3. Lasting(server', mid, 0, tab.pending, tab.turn)
      BY <1>4, <2>2, <2>4, <3>1, <3>2, Relay DEF Says, Relaying
    <3> QED BY <1>5, <2>2, <2>5, <3>2, <3>3, Relay DEF Says, Relaying
  <2> QED BY <1>7, <2>8, <2>9 DEF Told
<1> QED BY <1>8, <1>9

LEMMA ServerStepTold ==
  ASSUME Typed, Told, ServerStep
  PROVE  Told'
<1> DEFINE n == Len(server.log) + 1
<1>1. ServerTyped /\ server \in Servers /\ server.ver \in Nat /\ n \in Nat /\ server.pending \subseteq Asks
  BY LogShape, ServerShape DEF Typed, ServerTyped
<1>2. Message(n) \in Ids
  BY <1>1, Names
<1>3. server' \in Servers => server'.ver \in Nat
  BY ServerShape
<1>4. CASE ServerStreams
  <2> DEFINE e == <<"text_delta", Message(n)>>
  <2>1. /\ server' \in Servers /\ server'.turn = server.turn /\ server'.pending = server.pending
        /\ server'.ver = server.ver /\ Acts(<<e>>)
    BY <1>1, <1>4, StreamsStep
  <2>2. e \in Said /\ Says(server, e, server')
    BY <1>2, <2>1 DEF Said, Says, Turned, Asked, IsTurn, IsAbout, IsLive
  <2> HIDE DEF e
  <2> QED BY <1>3, <2>1, <2>2, SaysTold
<1>5. CASE ServerSettles
  <2> DEFINE e == <<"assistant_message", Message(n)>>
  <2>1. /\ server' \in Servers /\ server'.turn = server.turn /\ server'.pending = server.pending
        /\ server'.ver = server.ver /\ Acts(<<e>>)
    BY <1>1, <1>5, SettlesStep
  <2>2. e \in Said /\ Says(server, e, server')
    BY <1>2, <2>1 DEF Said, Says, Turned, Asked, IsTurn, IsAbout, IsLive
  <2> HIDE DEF e
  <2> QED BY <1>3, <2>1, <2>2, SaysTold
<1>6. CASE ServerAsks
  <2> DEFINE a == server.asked + 1
             e == <<"interaction_request", a>>
  <2>1. /\ server' \in Servers /\ server'.turn = server.turn /\ a \in Asks
        /\ server'.pending = server.pending \cup {a} /\ server'.ver = server.ver + 1 /\ Acts(<<e>>)
    BY <1>1, <1>6, AsksStep
  <2> HIDE DEF a
  <2>2. e \in Said /\ Says(server, e, server')
    BY <2>1 DEF Said, Says, Turned, Asked, IsTurn, IsAbout, IsLive
  <2> HIDE DEF e
  <2> QED BY <1>3, <2>1, <2>2, SaysTold
<1>7. CASE ServerFinishes
  <2> DEFINE e == <<"turn_finished">>
  <2>1. /\ server' \in Servers /\ server'.turn = None /\ server'.pending = server.pending
        /\ server'.ver = server.ver + 1 /\ Acts(<<e>>)
    BY <1>1, <1>7, FinishesStep
  <2>2. e[1] = "turn_finished" /\ e \in Said
    BY DEF Said
  <2> HIDE DEF e
  <2>3. Says(server, e, server')
    BY <2>1, <2>2 DEF Says, Turned, Asked, IsTurn, TurnOf, IsAbout, IsLive
  <2> QED BY <1>3, <2>1, <2>2, <2>3, SaysTold
<1>8. ASSUME NEW a \in Asks, ServerResolves(a) PROVE Told'
  <2> DEFINE e == <<"interaction_resolved", a>>
  <2>1. /\ server' \in Servers /\ server'.turn = server.turn
        /\ server'.pending = server.pending \ {a} /\ server'.ver = server.ver + 1 /\ Acts(<<e>>)
    BY <1>1, <1>8, ResolvesStep
  <2>2. e \in Said /\ Says(server, e, server')
    BY <2>1 DEF Said, Says, Turned, Asked, IsTurn, IsAbout, IsLive
  <2> HIDE DEF e
  <2> QED BY <1>3, <2>1, <2>2, SaysTold
<1> QED BY <1>4, <1>5, <1>6, <1>7, <1>8 DEF ServerStep

\* The tab handles the first of the events on their way.
LEMMA onEventTold ==
  ASSUME Typed, Told, onEvent
  PROVE  Told'
<1> DEFINE e == Head(wire.events)
           evs == wire.events
           L == Len(wire.events)
<1>1. /\ e \in Said /\ EventOK(server, e) /\ e = evs[1] /\ tab' = applyEvent(tab, e)
      /\ wire'.open = wire.open /\ wire'.synced = wire.synced
      /\ wire'.ver = (IF IsLive(e) THEN wire.ver + 1 ELSE wire.ver)
      /\ L \in Nat \ {0} /\ Len(wire'.events) = L - 1
      /\ \A k \in 1..(L - 1) : wire'.events[k] = evs[k + 1]
      /\ wire.open /\ UNCHANGED <<server, call, fetch, h>>
  BY onEventStep
<1>2. server \in Servers /\ IsTab(tab) /\ wire.ver \in Nat /\ server.ver \in Nat
  BY WireShape, ServerShape DEF Typed, ServerTyped, TabTyped, WireTyped
<1> HIDE DEF e, evs, L
<1> DEFINE vs == wire'.events
<1>3. Turned(e, tab.turn, tab'.turn) /\ Asked(e, tab.pending, tab'.pending)
  BY <1>1, <1>2, EventsAsk
<1>4. Relaying(server, wire.ver, evs)
  BY <1>1 DEF Told, Relayed, evs
<1>5. PICK V : Counted(server, wire.ver, evs, V) /\ DetailsTell(server, wire.ver, evs, V)
  BY <1>4 DEF Relaying
<1>6. Len(evs) = L /\ Len(vs) = L - 1 /\ \A k \in 1..(L - 1) : vs[k] = evs[k + 1]
  BY <1>1 DEF evs, L
<1> HIDE DEF vs
<1>7. \A k \in 1..L : \A j \in (k + 1)..L : j - 1 \in k..(L - 1) /\ vs[j - 1] = evs[j]
  <2> TAKE k \in 1..L
  <2> TAKE j \in (k + 1)..L
  <2>1. j - 1 \in k..(L - 1) /\ j - 1 \in 1..(L - 1) /\ (j - 1) + 1 = j
    BY <1>1
  <2> QED BY <1>6, <2>1
<1>9. ASSUME NEW k \in 1..L, NEW P, NEW T, Lasting(server, evs, k, P, T)
      PROVE  Lasting(server, vs, k - 1, P, T)
  <2>1. (k - 1) + 1 = k /\ Len(vs) = L - 1 /\ Len(evs) = L
    BY <1>1, <1>6
  <2>2. (\A j \in k..(L - 1) : ~IsTurn(vs[j])) => \A j \in (k + 1)..L : ~IsTurn(evs[j])
    BY <1>7
  <2>3. \A n \in Asks : (\A j \in k..(L - 1) : ~IsAbout(vs[j], n))
                          => \A j \in (k + 1)..L : ~IsAbout(evs[j], n)
    BY <1>7
  <2> QED BY <1>9, <2>1, <2>2, <2>3 DEF Lasting
<1>10. Tells(server, vs)
  <2>1. Tells(server, evs)
    BY <1>4 DEF Relaying
  <2>2. ASSUME NEW k \in 1..(L - 1)
        PROVE  /\ IsTurn(vs[k]) /\ (\A j \in (k + 1)..(L - 1) : ~IsTurn(vs[j]))
                    => server.turn = TurnOf(vs[k])
               /\ \A n \in Asks :
                    IsAbout(vs[k], n) /\ (\A j \in (k + 1)..(L - 1) : ~IsAbout(vs[j], n))
                    => (n \in server.pending <=> vs[k][1] = "interaction_request")
    <3>1. k + 1 \in 1..L /\ vs[k] = evs[k + 1]
      BY <1>1, <1>6
    <3>2. (\A j \in (k + 1)..(L - 1) : ~IsTurn(vs[j])) => \A j \in (k + 1 + 1)..L : ~IsTurn(evs[j])
      BY <1>7, <3>1
    <3>3. \A n \in Asks : (\A j \in (k + 1)..(L - 1) : ~IsAbout(vs[j], n))
                            => \A j \in (k + 1 + 1)..L : ~IsAbout(evs[j], n)
      BY <1>7, <3>1
    <3> QED BY <1>6, <2>1, <3>1, <3>2, <3>3 DEF Tells
  <2> QED BY <1>6, <2>2 DEF Tells
<1> DEFINE W == [k \in 0..(L - 1) |-> V[k + 1]]
<1>11. /\ V \in [0..L -> Nat] /\ V[0] = wire.ver /\ V[L] = server.ver
       /\ \A k \in 1..L : V[k] = IF IsLive(evs[k]) THEN V[k - 1] + 1 ELSE V[k - 1]
  BY <1>5, <1>6 DEF Counted
<1>12. /\ W \in [0..(L - 1) -> Nat] /\ \A k \in 0..(L - 1) : k + 1 \in 1..L /\ W[k] = V[k + 1]
  <2>1. \A k \in 0..(L - 1) : k + 1 \in 0..L /\ k + 1 \in 1..L
    BY <1>1
  <2> QED BY <1>11, <2>1
<1> HIDE DEF W
<1>13. Counted(server, wire'.ver, vs, W)
  <2>1. 0 \in 0..(L - 1) /\ L - 1 \in 0..(L - 1) /\ (L - 1) + 1 = L /\ 1 \in 1..L
    BY <1>1
  <2>2. W[0] = wire'.ver
    <3>1. W[0] = V[1] /\ V[1] = IF IsLive(e) THEN V[0] + 1 ELSE V[0]
      BY <1>1, <1>11, <1>12, <2>1 DEF evs
    <3> QED BY <1>1, <1>11, <3>1
  <2>3. W[L - 1] = server.ver
    BY <1>11, <1>12, <2>1
  <2>4. ASSUME NEW k \in 1..(L - 1) PROVE W[k] = IF IsLive(vs[k]) THEN W[k - 1] + 1 ELSE W[k - 1]
    <3>1. k + 1 \in 1..L /\ k - 1 \in 0..(L - 1) /\ k \in 0..(L - 1) /\ (k - 1) + 1 = k /\ (k + 1) - 1 = k
      BY <1>1
    <3>2. W[k] = V[k + 1] /\ W[k - 1] = V[k] /\ vs[k] = evs[k + 1]
      BY <1>6, <1>12, <3>1
    <3> QED BY <1>11, <3>1, <3>2
  <2> QED BY <1>6, <1>12, <2>2, <2>3, <2>4 DEF Counted
<1>14. DetailsTell(server, wire'.ver, vs, W)
  <2> SUFFICES ASSUME NEW r \in Fetches, fetch[r].detail # <<>>, wire'.ver <= fetch[r].detail[3]
               PROVE  ReadAt(server, vs, W, fetch[r].detail)
    BY DEF DetailsTell
  <2> DEFINE d == fetch[r].detail
  <2>1. d[3] \in Nat
    BY FetchShape DEF Typed
  <2>2. wire.ver <= d[3]
    BY <1>1, <1>2, <2>1
  <2>3. PICK k \in 0..L : d[3] = V[k] /\ Lasting(server, evs, k, d[1], d[2])
    BY <1>5, <1>6, <2>2 DEF DetailsTell, ReadAt
  <2>4. CASE k # 0
    <3>1. k \in 1..L /\ k - 1 \in 0..(L - 1) /\ (k - 1) + 1 = k
      BY <1>1, <2>4
    <3>2. W[k - 1] = V[k]
      BY <1>12, <3>1
    <3> QED BY <1>6, <1>9, <2>3, <3>1, <3>2 DEF ReadAt
  <2>5. CASE k = 0
    <3>1. d[3] = wire.ver /\ ~IsLive(e)
      BY <1>1, <1>2, <1>11, <2>3, <2>5
    <3>2. 0 \in 0..(L - 1) /\ 1 \in 1..L /\ 0 + 1 = 1 /\ \A j \in 1..L : j = 1 \/ j \in 2..L
      BY <1>1
    <3>3. W[0] = d[3]
      BY <1>1, <1>11, <1>12, <3>1, <3>2 DEF evs
    <3>4. ~IsTurn(evs[1]) /\ \A n : ~IsAbout(evs[1], n)
      BY <1>1, <3>1 DEF IsTurn, IsAbout, IsLive, evs
    <3>5. Lasting(server, evs, 1, d[1], d[2])
      BY <1>6, <2>3, <2>5, <3>2, <3>4 DEF Lasting
    <3>6. Lasting(server, vs, 0, d[1], d[2])
      BY <1>9, <3>2, <3>5
    <3> QED BY <1>6, <3>2, <3>3, <3>6 DEF ReadAt
  <2> QED BY <2>4, <2>5
<1>15. Relayed'
  BY <1>1, <1>10, <1>13, <1>14 DEF Relayed, Relaying, DetailsTell, vs
<1>16. TabTells'
  <2> SUFFICES ASSUME wire.synced, ~h.overtaken
               PROVE  Lasting(server, vs, 0, tab'.pending, tab'.turn)
    BY <1>1 DEF TabTells, vs
  <2>1. Lasting(server, evs, 0, tab.pending, tab.turn) /\ Tells(server, evs)
    BY <1>1, <1>4 DEF Told, TabTells, Relaying, evs
  <2>2. 1 \in 1..L /\ 0 + 1 = 1 /\ 1 + 1 = 2 /\ \A j \in 1..L : j = 1 \/ j \in 2..L
    BY <1>1
  <2>3. e = evs[1]
    BY <1>1
  <2>4. Lasting(server, evs, 1, tab'.pending, tab'.turn)
    <3>1. ASSUME \A j \in 2..L : ~IsTurn(evs[j]) PROVE server.turn = tab'.turn
      <4>1. CASE IsTurn(e)
        BY <1>3, <1>6, <2>1, <2>2, <2>3, <3>1, <4>1 DEF Tells, Turned
      <4>2. CASE ~IsTurn(e)
        BY <1>3, <1>6, <2>1, <2>2, <2>3, <3>1, <4>2 DEF Lasting, Turned
      <4> QED BY <4>1, <4>2
    <3>2. ASSUME NEW n \in Asks, \A j \in 2..L : ~IsAbout(evs[j], n)
          PROVE  n \in server.pending <=> n \in tab'.pending
      <4>1. CASE IsAbout(e, n)
        BY <1>3, <1>6, <2>1, <2>2, <2>3, <3>2, <4>1 DEF Tells, Asked
      <4>2. CASE ~IsAbout(e, n)
        BY <1>3, <1>6, <2>1, <2>2, <2>3, <3>2, <4>2 DEF Lasting, Asked
      <4> QED BY <4>1, <4>2
    <3> QED BY <1>6, <2>2, <3>1, <3>2 DEF Lasting
  <2> QED BY <1>9, <2>2, <2>4
<1>17. OnTime'
  BY <1>1 DEF Told, OnTime
<1> QED BY <1>15, <1>16, <1>17 DEF Told

\* Nothing the tab was told changes.
LEMMA ToldStays ==
  ASSUME Typed, Told, server' = server,
         wire'.open => wire.open /\ wire'.events = wire.events /\ wire'.ver = wire.ver,
         \A r \in Fetches : fetch'[r].detail # <<>> => fetch'[r].detail = fetch[r].detail,
         TabTells'
  PROVE  Told'
<1>1. OnTime'
  BY DEF Told, OnTime
<1>2. Relayed'
  <2> SUFFICES ASSUME wire'.open PROVE Relaying(server, wire.ver, wire.events)'
    BY DEF Relayed
  <2>1. wire.open /\ wire'.events = wire.events /\ wire'.ver = wire.ver
    OBVIOUS
  <2>2. Tells(server, wire.events)
    BY <2>1 DEF Told, Relayed, Relaying
  <2>3. PICK V : /\ Counted(server, wire.ver, wire.events, V)
                 /\ DetailsTell(server, wire.ver, wire.events, V)
    BY <2>1 DEF Told, Relayed, Relaying
  <2>4. DetailsTell(server, wire.ver, wire.events, V)'
    BY <2>1, <2>3 DEF DetailsTell
  <2> QED BY <2>1, <2>2, <2>3, <2>4 DEF Relaying
<1> QED BY <1>1, <1>2 DEF Told

LEMMA TabStays ==
  ASSUME Told, server' = server,
         wire'.open => wire.open /\ wire'.events = wire.events /\ wire'.synced = wire.synced
                       /\ tab'.pending = tab.pending /\ tab'.turn = tab.turn,
         h'.overtaken = h.overtaken
  PROVE  TabTells'
BY DEF Told, TabTells

\* A connection: what was read before it was read in time, or is overtaken.
LEMMA onOpenTold ==
  ASSUME Typed, Told, NEW r \in Fetches, onOpen(r)
  PROVE  Told'
<1> DEFINE f == [NoFetch EXCEPT !.at = "sent", !.fresh = TRUE]
<1>1. /\ fetch' = [fetch EXCEPT ![r] = f]
      /\ wire' \in Wires /\ wire'.events = <<>> /\ wire'.ver = server.ver /\ ~wire'.synced
      /\ server' = server
  BY onOpenStep
<1>2. f.detail = <<>>
  BY DEF NoFetch
<1> HIDE DEF f
<1>3. \A q \in Fetches : fetch'[q].detail # <<>> => fetch'[q].detail = fetch[q].detail
  BY <1>1, <1>2 DEF Typed, FetchTyped
<1>4. server.ver \in Nat /\ Len(wire'.events) = 0 /\ 0..0 = {0} /\ 1..0 = {}
  BY <1>1, ServerShape DEF Typed, ServerTyped
<1>5. OnTime'
  BY <1>1, <1>3 DEF Told, OnTime
<1>6. Tells(server', wire'.events)
  BY <1>4 DEF Tells
<1>7. PICK V : V \in [{0} -> Nat] /\ V[0] = server.ver
  <2>1. [k \in {0} |-> server.ver] \in [{0} -> Nat] /\ [k \in {0} |-> server.ver][0] = server.ver
    BY <1>4
  <2> QED BY <2>1
<1>8. Counted(server', wire'.ver, wire'.events, V)
  BY <1>1, <1>4, <1>7 DEF Counted
<1>9. DetailsTell(server, wire.ver, wire.events, V)'
  <2> SUFFICES ASSUME NEW q \in Fetches, fetch'[q].detail # <<>>, server.ver <= fetch'[q].detail[3]
               PROVE  ReadAt(server, wire'.events, V, fetch'[q].detail)
    BY <1>1 DEF DetailsTell
  <2> DEFINE d == fetch[q].detail
  <2>1. d = fetch'[q].detail /\ d # <<>>
    BY <1>3
  <2>2. d[3] \in Nat /\ d[3] <= server.ver
    BY <2>1, FetchShape DEF Typed, Told, OnTime
  <2>3. d[3] = server.ver
    BY <1>4, <2>1, <2>2
  <2>4. d[1] = server.pending /\ d[2] = server.turn
    BY <2>1, <2>3 DEF Told, OnTime
  <2>5. Lasting(server, wire'.events, 0, d[1], d[2])
    BY <2>4 DEF Lasting
  <2> QED BY <1>4, <1>7, <2>1, <2>3, <2>5 DEF ReadAt
<1>10. Relayed'
  BY <1>6, <1>8, <1>9 DEF Relayed, Relaying
<1> QED BY <1>1, <1>5, <1>10 DEF Told, TabTells

\* The state that is read is the one after all that was said.
LEMMA ReadDetailTold ==
  ASSUME Typed, Told, NEW r \in Fetches, ReadDetail(r)
  PROVE  Told'
<1> DEFINE f == [fetch[r] EXCEPT !.detail = <<server.pending, server.turn, server.ver>>]
           L == Len(wire.events)
<1>1. /\ fetch' = [fetch EXCEPT ![r] = f]
      /\ f.detail = <<server.pending, server.turn, server.ver>>
      /\ UNCHANGED <<server, wire, tab, call, h>>
  BY ReadDetailStep
<1> HIDE DEF f
<1>2. \A q \in Fetches : fetch'[q].detail = fetch[q].detail \/ fetch'[q].detail = f.detail
  BY <1>1 DEF Typed, FetchTyped
<1>3. server.ver \in Nat /\ L \in Nat
  BY ServerShape, WireShape DEF Typed, ServerTyped, WireTyped
<1>4. f.detail[1] = server.pending /\ f.detail[2] = server.turn /\ f.detail[3] = server.ver
  BY <1>1
<1>5. OnTime'
  BY <1>1, <1>2, <1>3, <1>4 DEF Told, OnTime
<1>6. Relayed'
  <2> SUFFICES ASSUME wire.open PROVE Relaying(server, wire.ver, wire.events)'
    BY <1>1 DEF Relayed
  <2>1. Tells(server, wire.events)
    BY DEF Told, Relayed, Relaying
  <2>2. PICK V : /\ Counted(server, wire.ver, wire.events, V)
                 /\ DetailsTell(server, wire.ver, wire.events, V)
    BY DEF Told, Relayed, Relaying
  <2>3. ReadAt(server, wire.events, V, f.detail)
    <3>1. L \in 0..L /\ (L + 1)..L = {} /\ V[L] = server.ver
      BY <1>3, <2>2 DEF Counted
    <3>2. Lasting(server, wire.events, L, server.pending, server.turn)
      BY <3>1 DEF Lasting
    <3> QED BY <1>4, <3>1, <3>2 DEF ReadAt
  <2>4. DetailsTell(server, wire.ver, wire.events, V)'
    BY <1>1, <1>2, <2>2, <2>3 DEF DetailsTell
  <2> QED BY <1>1, <2>1, <2>2, <2>4 DEF Relaying
<1> QED BY <1>1, <1>5, <1>6 DEF Told, TabTells

\* An answer that no event overtook starts the tab at one of the server's states.
LEMMA resyncTold ==
  ASSUME Typed, Told, NEW r \in Fetches, resync(r)
  PROVE  Told'
<1>1. FetchTyped /\ wire \in Wires
  BY DEF Typed, WireTyped
<1>2. CASE tab.id # "this"
  <2>1. Done(r) /\ UNCHANGED <<server, call, tab, h, wire>>
    BY <1>2 DEF resync
  <2>2. \A q \in Fetches : fetch'[q].detail # <<>> => fetch'[q].detail = fetch[q].detail
    BY <1>1, <2>1, EmptyFetch DEF Done, FetchTyped
  <2> QED BY <2>1, <2>2, TabStays, ToldStays
<1>3. CASE tab.id = "this"
  <2> DEFINE d == fetch[r].detail
  <2>1. /\ d # <<>> /\ tab'.pending = d[1] /\ tab'.turn = d[2] /\ server' = server
        /\ wire'.open = wire.open /\ wire'.events = wire.events /\ wire'.ver = wire.ver
        /\ h'.overtaken = (h.overtaken \/ d[3] < wire.ver)
        /\ \A q \in Fetches : fetch'[q] = IF q = r THEN NoFetch
                               ELSE [fetch[q] EXCEPT !.fresh = @ /\ ~fetch[q].older]
    BY <1>3, resyncStep
  <2>2. \A q \in Fetches : fetch'[q].detail # <<>> => fetch'[q].detail = fetch[q].detail
    <3> SUFFICES ASSUME NEW q \in Fetches, fetch'[q].detail # <<>>
                 PROVE  fetch'[q].detail = fetch[q].detail
      OBVIOUS
    <3>1. q # r
      BY <2>1, EmptyFetch
    <3>2. fetch[q] \in FetchSet /\ fetch'[q] = [fetch[q] EXCEPT !.fresh = @ /\ ~fetch[q].older]
      BY <1>1, <2>1, <3>1, FetchShape
    <3> QED BY <3>2 DEF FetchSet
  <2>3. TabTells'
    <3> SUFFICES ASSUME wire.open, ~(h.overtaken \/ d[3] < wire.ver)
                 PROVE  Lasting(server, wire.events, 0, d[1], d[2])
      BY <2>1 DEF TabTells
    <3>1. d[3] \in Nat /\ wire.ver \in Nat
      BY <1>1, <2>1, FetchShape, WireShape
    <3>2. PICK V : DetailsTell(server, wire.ver, wire.events, V)
      BY DEF Told, Relayed, Relaying
    <3>3. ReadAt(server, wire.events, V, d)
      BY <2>1, <3>1, <3>2 DEF DetailsTell
    <3>4. PICK k \in 0..Len(wire.events) : Lasting(server, wire.events, k, d[1], d[2])
      BY <3>3 DEF ReadAt
    <3>5. \A j \in (k + 1)..Len(wire.events) : j \in (0 + 1)..Len(wire.events)
      BY <1>1, WireShape
    <3> QED BY <3>4, <3>5 DEF Lasting
  <2> QED BY <2>1, <2>2, <2>3, ToldStays
<1> QED BY <1>2, <1>3

\* Requests and prompts leave alone what the tab was told.
LEMMA OthersTold ==
  ASSUME Typed, Told, server' = server, wire' = wire, FetchTyped,
         \A r \in Fetches : fetch'[r].detail # <<>> => fetch'[r].detail = fetch[r].detail,
         tab'.pending = tab.pending, tab'.turn = tab.turn, h'.overtaken = h.overtaken
  PROVE  Told'
BY TabStays, ToldStays

LEMMA NextTold == Typed /\ Told /\ [Next]_vars => Told'
<1> SUFFICES ASSUME Typed, Told, [Next]_vars PROVE Told'
  OBVIOUS
<1>0. FetchTyped
  BY DEF Typed
<1>1. CASE UNCHANGED vars
  <2>1. UNCHANGED <<server, wire, tab, fetch, h>>
    BY <1>1 DEF vars
  <2> QED BY <1>0, <2>1, OthersTold
<1>2. ASSUME NEW r \in Fetches, NEW f, fetch' = [fetch EXCEPT ![r] = f],
             f.detail = <<>> \/ f.detail = fetch[r].detail
      PROVE  \A q \in Fetches : fetch'[q].detail # <<>> => fetch'[q].detail = fetch[q].detail
  BY <1>0, <1>2 DEF FetchTyped
<1>3. ASSUME NEW r \in Fetches, Done(r)
      PROVE  \A q \in Fetches : fetch'[q].detail # <<>> => fetch'[q].detail = fetch[q].detail
  BY <1>2, <1>3, EmptyFetch DEF Done
<1>4. ASSUME NEW x \in Prompts, ServerTakes(x) PROVE Told'
  BY <1>4, TakesTold
<1>5. ASSUME NEW x \in Prompts, ServerRefuses(x) PROVE Told'
  <2>1. UNCHANGED <<server, wire, tab, fetch, h>>
    BY <1>5 DEF ServerRefuses
  <2> QED BY <1>0, <2>1, OthersTold
<1>6. ASSUME NEW x \in Prompts, prompt(x) PROVE Told'
  <2>1. /\ tab'.pending = tab.pending /\ tab'.turn = tab.turn
        /\ UNCHANGED <<server, wire, fetch, h>>
    BY <1>6, promptStep
  <2> QED BY <1>0, <2>1, OthersTold
<1>7. ASSUME NEW x \in Prompts, NEW ok \in BOOLEAN, PromptReturns(x, ok) PROVE Told'
  <2>1. /\ tab'.pending = tab.pending /\ tab'.turn = tab.turn
        /\ UNCHANGED <<server, wire, fetch, h>>
    BY <1>7, PromptReturnsStep
  <2> QED BY <1>0, <2>1, OthersTold
<1>8. CASE ServerStep
  BY <1>8, ServerStepTold
<1>9. CASE open
  <2>1. tab.id = "other" /\ UNCHANGED <<server, wire, fetch, h>>
    BY <1>9 DEF open
  <2>2. ~wire.open
    BY <2>1 DEF Typed, WireTyped
  <2> QED BY <2>1, <2>2, TabStays, ToldStays
<1>10. CASE close \/ StreamDrops
  <2>1. Disconnected /\ server' = server
    BY <1>10 DEF close, StreamDrops
  <2>2. ~wire'.open /\ h'.overtaken = h.overtaken
        /\ \A r \in Fetches : fetch'[r] = [fetch[r] EXCEPT !.fresh = FALSE]
    BY <2>1, DisconnectedStep
  <2>3. \A r \in Fetches : fetch'[r].detail = fetch[r].detail
    <3> TAKE r \in Fetches
    <3>1. fetch[r] \in FetchSet
      BY <1>0, FetchShape
    <3> QED BY <2>2, <3>1 DEF FetchSet
  <2> QED BY <2>1, <2>2, <2>3, TabStays, ToldStays
<1>11. CASE onEvent
  BY <1>11, onEventTold
<1>12. ASSUME NEW r \in Fetches, onOpen(r) \/ ReadDetail(r) \/ resync(r) PROVE Told'
  BY <1>12, onOpenTold, ReadDetailTold, resyncTold
<1>13. ASSUME NEW r \in Fetches, ReadPage(r) PROVE Told'
  <2> DEFINE last == IF fetch[r].older THEN fetch[r].before ELSE Len(server.log)
             f == [fetch[r] EXCEPT !.at = "read", !.page = Page(last), !.before = Left(last)]
  <2>1. /\ fetch' = [fetch EXCEPT ![r] = f] /\ f.detail = fetch[r].detail
        /\ UNCHANGED <<server, wire, tab, call, h>>
    BY <1>13, ReadPageStep
  <2> HIDE DEF f, last
  <2> QED BY <1>0, <1>2, <2>1, OthersTold
<1>14. ASSUME NEW r \in Fetches, FetchFails(r) PROVE Told'
  <2>1. /\ Done(r) /\ tab'.pending = tab.pending /\ tab'.turn = tab.turn
        /\ UNCHANGED <<server, wire, h>>
    BY <1>14, FetchFailsStep
  <2> QED BY <1>0, <1>3, <2>1, OthersTold
<1>15. ASSUME NEW r \in Fetches, loadOlder(r) PROVE Told'
  <2> DEFINE f == [NoFetch EXCEPT !.at = "sent", !.older = TRUE, !.fresh = TRUE,
                                  !.before = tab.cursor]
  <2>1. /\ fetch' = [fetch EXCEPT ![r] = f] /\ f.detail = <<>>
        /\ h' = [h EXCEPT !.fetches = @ + 1] /\ UNCHANGED <<server, wire, tab>>
    BY <1>15, loadOlderStep
  <2> HIDE DEF f
  <2>2. h'.overtaken = h.overtaken
    BY <2>1 DEF Typed, HistoryTyped
  <2> QED BY <1>0, <1>2, <2>1, <2>2, OthersTold
<1>16. ASSUME NEW r \in Fetches, OlderLoaded(r) PROVE Told'
  <2>1. Done(r) /\ UNCHANGED <<server, wire>>
    BY <1>16 DEF OlderLoaded
  <2>2. tab'.pending = tab.pending /\ tab'.turn = tab.turn /\ h'.overtaken = h.overtaken
    <3>1. CASE tab.id = "this"
      BY <1>16, <3>1, OlderLoadedStep
    <3>2. CASE tab.id # "this"
      BY <1>16, <3>2 DEF OlderLoaded
    <3> QED BY <3>1, <3>2
  <2> QED BY <1>0, <1>3, <2>1, <2>2, OthersTold
<1> QED BY <1>1, <1>4, <1>5, <1>6, <1>7, <1>8, <1>9, <1>10, <1>11, <1>12, <1>13, <1>14, <1>15,
           <1>16 DEF Next

LEMMA ToldConverges == Typed /\ Told => Converges
<1> SUFFICES ASSUME Typed, Told, Quiet, ~h.overtaken
             PROVE  tab.pending = server.pending /\ tab.turn = server.turn
  BY DEF Converges
<1>1. wire.open /\ wire.synced /\ Len(wire.events) = 0
  BY DEF Quiet
<1>2. Lasting(server, wire.events, 0, tab.pending, tab.turn)
  BY <1>1 DEF Told, TabTells
<1>3. tab.turn = server.turn /\ \A n \in Asks : n \in server.pending <=> n \in tab.pending
  BY <1>1, <1>2 DEF Lasting
<1>4. tab.pending \subseteq Asks /\ server.pending \subseteq Asks
  BY ServerShape DEF Typed, TabTyped, IsTab, Tabs, ServerTyped
<1> QED BY <1>3, <1>4

\* A tab that has heard all there is shows the server's pending permissions and
\* its turn, whatever the stream lost, unless a live event was handled before the
\* answer to a resync read earlier (thread.ts: resync, applyEvent's live cases).
THEOREM StoreConverges == Spec => []Converges
<1>1. Init => Typed /\ Told
  <2>1. Init => OnTime
    BY EmptyFetch DEF Init, OnTime
  <2> QED BY <2>1, InitTyped DEF Init, Told, Relayed, TabTells
<1>2. (Typed /\ Told) /\ [Next]_vars => (Typed /\ Told)'
  BY NextTyped, NextTold
<1>3. Typed /\ Told => Converges
  BY ToldConverges
<1> QED BY <1>1, <1>2, <1>3, PTL DEF Spec

-----------------------------------------------------------------------------
(* Nothing is missing: an entry of the transcript is on screen, on its way,  *)
(* in an answer under way, or older than the cursor.                         *)

\* On screen, and not as a prompt that waits for its echo.
Kept(items, e) ==
  \E i \in DOMAIN items :
    items[i].x = None /\ (items[i].id = e.id \/ (e.x # None /\ items[i].id = Local(e.x)))

Announced(evs, e) ==
  \E k \in DOMAIN evs :
    \/ evs[k][1] = "assistant_message" /\ evs[k][2] = e.id
    \/ /\ evs[k][1] = "user_message" /\ evs[k][3] = e.x
       /\ evs[k][2] = IF SameId THEN e.id ELSE Local(e.x)

Had(t, evs, e) == Kept(t.items, e) \/ Announced(evs, e)

HadAfter(s, t, evs, b) == \A n \in DOMAIN s.log : n > b => Had(t, evs, s.log[n])

Held(s, t, evs, f) ==
  \A n \in DOMAIN s.log :
    n > f.before => Had(t, evs, s.log[n]) \/ \E j \in DOMAIN f.page : f.page[j] = s.log[n]

Current == wire.open /\ wire.synced /\ ~h.crossed

\* What an answer under way leaves for the screen and the stream to hold.
Holds(s, t, evs, current, f) ==
  f.fresh =>
    /\ f.at = "read" /\ (f.older => current) => Held(s, t, evs, f)
    /\ f.at = "sent" /\ f.older /\ current => HadAfter(s, t, evs, f.before)

\* What the tab has seen it shows.
MessagesShown(s, t) == \A n \in Nat : Message(n) \in t.seen => n \in DOMAIN s.log /\ Kept(t.items, s.log[n])
PromptsShown(t) == \A x \in Prompts : Local(x) \in t.seen => Has(t.items, Local(x))

AllHeld ==
  /\ MessagesShown(server, tab) /\ PromptsShown(tab)
  /\ \A r \in Fetches : Holds(server, tab, wire.events, Current, fetch[r])
  /\ Current => HadAfter(server, tab, wire.events, tab.cursor)

-----------------------------------------------------------------------------
\* What waits no longer stays on screen.
Persists(a, b) == \A i \in DOMAIN a : a[i].x = None => \E k \in DOMAIN b : b[k].id = a[i].id /\ b[k].x = None

LEMMA KeptPersists ==
  ASSUME NEW a, NEW b, Persists(a, b), NEW e, Kept(a, e)
  PROVE  Kept(b, e)
BY DEF Kept, Persists

LEMMA ItemsPersist ==
  ASSUME NEW a, IsItems(a)
  PROVE  /\ Persists(a, a)
         /\ \A b : SameItems(a, b) => Persists(a, b) /\ \A id : Has(a, id) => Has(b, id)
         /\ \A b, id, x : OneMore(a, b, id, x) =>
              Persists(a, b) /\ Has(b, id) /\ (\A i : Has(a, i) => Has(b, i))
              /\ (x = None => \E k \in DOMAIN b : b[k].id = id /\ b[k].x = None)
         /\ \A b, i : OneLess(a, b, i) /\ a[i].x # None =>
              Persists(a, b) /\ \A id : id # a[i].id /\ Has(a, id) => Has(b, id)
<1>1. Len(a) \in Nat /\ DOMAIN a = 1..Len(a)
  BY ItemsShape
<1>2. Persists(a, a)
  BY DEF Persists
<1>3. ASSUME NEW b, SameItems(a, b) PROVE Persists(a, b) /\ \A id : Has(a, id) => Has(b, id)
  <2>1. DOMAIN b = DOMAIN a /\ \A i \in DOMAIN a : b[i].id = a[i].id /\ b[i].x \in {a[i].x, None}
    BY <1>3 DEF SameItems
  <2> QED BY <2>1 DEF Persists, Has
<1>4. ASSUME NEW b, NEW id, NEW x, OneMore(a, b, id, x)
      PROVE  /\ Persists(a, b) /\ Has(b, id) /\ (\A i : Has(a, i) => Has(b, i))
             /\ (x = None => \E k \in DOMAIN b : b[k].id = id /\ b[k].x = None)
  <2>1. /\ DOMAIN b = 1..(Len(a) + 1) /\ \A i \in DOMAIN a : b[i] = a[i]
        /\ b[Len(a) + 1].id = id /\ b[Len(a) + 1].x = x
    BY <1>4 DEF OneMore
  <2>2. Len(a) + 1 \in DOMAIN b /\ \A i \in DOMAIN a : i \in DOMAIN b
    BY <1>1, <2>1
  <2> QED BY <2>1, <2>2 DEF Persists, Has
<1>5. ASSUME NEW b, NEW i, OneLess(a, b, i), a[i].x # None
      PROVE  Persists(a, b) /\ \A id : id # a[i].id /\ Has(a, id) => Has(b, id)
  <2>1. \A j \in DOMAIN a : j # i => \E k \in DOMAIN b : b[k] = a[j]
    BY <1>5 DEF OneLess
  <2> QED BY <1>5, <2>1 DEF Persists, Has
<1> QED BY <1>2, <1>3, <1>4, <1>5

\* An item with a message's name does not wait.
LEMMA KeptByName ==
  ASSUME NEW a, IsItems(a), NEW n, NEW e, e.id = Message(n), Has(a, e.id)
  PROVE  Kept(a, e)
<1>1. PICK i \in DOMAIN a : a[i].id = Message(n)
  BY DEF Has
<1>2. a[i].x = None
  BY <1>1, ItemsShape, Names
<1> QED BY <1>1, <1>2 DEF Kept

-----------------------------------------------------------------------------
(* The reducer keeps what was said.                                        *)

LEMMA UserHeld ==
  ASSUME NEW s \in Servers, NEW t, IsTab(t), NEW e \in Said, EventOK(s, e), e[1] = "user_message",
         MessagesShown(s, t), PromptsShown(t)
  PROVE  LET u == applyEvent(t, e) IN
         /\ Persists(t.items, u.items) /\ MessagesShown(s, u) /\ PromptsShown(u)
         /\ \A n \in DOMAIN s.log : Announced(<<e>>, s.log[n]) => Kept(u.items, s.log[n])
<1> DEFINE u == applyEvent(t, e)
           x == e[3]
<1>1. PICK n \in DOMAIN s.log : s.log[n].x = x /\ e[2] = IF SameId THEN Message(n) ELSE Local(x)
  BY DEF EventOK
<1>2. n \in Nat /\ x \in Prompts /\ x # None /\ IsItems(t.items)
  BY LogShape, SaidShape, StoreAssumption DEF IsTab
<1>3. \A k \in DOMAIN s.log : k \in Nat /\ s.log[k].id = Message(k)
  BY LogShape
<1>4. SameId \in BOOLEAN
  BY StoreAssumption
<1>5. \A k \in DOMAIN s.log : Announced(<<e>>, s.log[k]) =>
         s.log[k].x = x /\ (SameId => k = n)
  <2> SUFFICES ASSUME NEW k \in DOMAIN s.log, Announced(<<e>>, s.log[k])
               PROVE  s.log[k].x = x /\ (SameId => k = n)
    OBVIOUS
  <2>1. x = s.log[k].x /\ e[2] = IF SameId THEN s.log[k].id ELSE Local(s.log[k].x)
    <3>1. DOMAIN <<e>> = {1} /\ <<e>>[1] = e
      OBVIOUS
    <3> QED BY <3>1 DEF Announced
  <2> QED BY <1>1, <1>3, <2>1, Names
<1>6. \/ /\ Screen(t, u, u.items, t.seen \cup {e[2]}) /\ SameItems(t.items, u.items)
         /\ \E i \in DOMAIN t.items : t.items[i].id = Local(x) /\ u.items[i].x = None
      \/ e[2] \in t.seen /\ Waits(t.items, x) = {} /\ Screen(t, u, t.items, t.seen)
      \/ /\ e[2] \notin t.seen /\ Waits(t.items, x) = {}
         /\ Screen(t, u, u.items, t.seen \cup {e[2]}) /\ OneMore(t.items, u.items, e[2], None)
  BY UserMessages
<1> SUFFICES /\ Persists(t.items, u.items) /\ MessagesShown(s, u) /\ PromptsShown(u)
             /\ \A k \in DOMAIN s.log : Announced(<<e>>, s.log[k]) => Kept(u.items, s.log[k])
  OBVIOUS
<1> HIDE DEF u
<1>7. ASSUME Screen(t, u, u.items, u.seen), Persists(t.items, u.items), \A id : Has(t.items, id) => Has(u.items, id),
             u.seen \in {t.seen, t.seen \cup {e[2]}},
             \A k \in DOMAIN s.log : s.log[k].x = x /\ (SameId => k = n) => Kept(u.items, s.log[k]),
             ~SameId => Has(u.items, Local(x))
      PROVE  /\ Persists(t.items, u.items) /\ MessagesShown(s, u) /\ PromptsShown(u)
             /\ \A k \in DOMAIN s.log : Announced(<<e>>, s.log[k]) => Kept(u.items, s.log[k])
  <2>1. ASSUME NEW k \in Nat, Message(k) \in u.seen PROVE k \in DOMAIN s.log /\ Kept(u.items, s.log[k])
    <3>1. CASE Message(k) \in t.seen
      BY <1>7, <3>1, KeptPersists DEF MessagesShown
    <3>2. CASE Message(k) \notin t.seen
      <4>1. Message(k) = e[2]
        BY <1>7, <2>1, <3>2
      <4>2. SameId /\ k = n
        BY <1>1, <4>1, Names
      <4> QED BY <1>1, <1>7, <4>2
    <3> QED BY <3>1, <3>2
  <2>2. ASSUME NEW y \in Prompts, Local(y) \in u.seen PROVE Has(u.items, Local(y))
    <3>1. CASE Local(y) \in t.seen
      BY <1>7, <3>1 DEF PromptsShown
    <3>2. CASE Local(y) \notin t.seen
      <4>1. Local(y) = e[2]
        BY <1>7, <2>2, <3>2
      <4>2. ~SameId /\ y = x
        BY <1>1, <4>1, Names
      <4> QED BY <1>7, <4>2
    <3> QED BY <3>1, <3>2
  <2> QED BY <1>5, <1>7, <2>1, <2>2 DEF MessagesShown, PromptsShown
<1>8. CASE /\ Screen(t, u, u.items, t.seen \cup {e[2]}) /\ SameItems(t.items, u.items)
           /\ \E i \in DOMAIN t.items : t.items[i].id = Local(x) /\ u.items[i].x = None
  <2>1. PICK i \in DOMAIN t.items : t.items[i].id = Local(x) /\ u.items[i].x = None
    BY <1>8
  <2>2. i \in DOMAIN u.items /\ u.items[i].id = Local(x)
    BY <1>8, <2>1 DEF SameItems
  <2>3. \A k \in DOMAIN s.log : s.log[k].x = x => Kept(u.items, s.log[k])
    BY <1>2, <2>1, <2>2 DEF Kept
  <2>4. Has(u.items, Local(x))
    BY <2>2 DEF Has
  <2>5. Persists(t.items, u.items) /\ \A id : Has(t.items, id) => Has(u.items, id)
    BY <1>2, <1>8, ItemsPersist
  <2>6. u.seen \in {t.seen, t.seen \cup {e[2]}} /\ Screen(t, u, u.items, u.seen)
    BY <1>8 DEF Screen
  <2> QED BY <1>7, <2>3, <2>4, <2>5, <2>6
<1>9. CASE e[2] \in t.seen /\ Waits(t.items, x) = {} /\ Screen(t, u, t.items, t.seen)
  <2>1. /\ u.items = t.items /\ Screen(t, u, u.items, u.seen)
        /\ u.seen \in {t.seen, t.seen \cup {e[2]}}
    BY <1>9 DEF Screen
  <2>2. ~SameId => Has(t.items, Local(x))
    BY <1>1, <1>2, <1>9 DEF PromptsShown
  <2>3. ASSUME NEW k \in DOMAIN s.log, s.log[k].x = x, SameId => k = n PROVE Kept(t.items, s.log[k])
    <3>1. CASE SameId
      BY <1>1, <1>2, <1>9, <2>3, <3>1 DEF MessagesShown
    <3>2. CASE ~SameId
      <4>1. PICK i \in DOMAIN t.items : t.items[i].id = Local(x)
        BY <2>2, <3>2 DEF Has
      <4>2. t.items[i].x = None
        BY <1>2, <1>9, <4>1, NoEcho
      <4> QED BY <1>2, <2>3, <4>1, <4>2 DEF Kept
    <3> QED BY <3>1, <3>2
  <2>4. Persists(t.items, t.items)
    BY <1>2, ItemsPersist
  <2> QED BY <1>7, <2>1, <2>2, <2>3, <2>4
<1>10. CASE /\ e[2] \notin t.seen /\ Waits(t.items, x) = {}
            /\ Screen(t, u, u.items, t.seen \cup {e[2]}) /\ OneMore(t.items, u.items, e[2], None)
  <2>1. /\ Persists(t.items, u.items) /\ Has(u.items, e[2]) /\ \A id : Has(t.items, id) => Has(u.items, id)
        /\ \E k \in DOMAIN u.items : u.items[k].id = e[2] /\ u.items[k].x = None
    BY <1>2, <1>10, ItemsPersist
  <2>2. \A k \in DOMAIN s.log : s.log[k].x = x /\ (SameId => k = n) => Kept(u.items, s.log[k])
    BY <1>1, <1>2, <1>3, <2>1 DEF Kept
  <2>3. ~SameId => Has(u.items, Local(x))
    BY <1>1, <2>1
  <2>4. u.seen \in {t.seen, t.seen \cup {e[2]}} /\ Screen(t, u, u.items, u.seen)
    BY <1>10 DEF Screen
  <2> QED BY <1>7, <2>1, <2>2, <2>3, <2>4
<1> QED BY <1>6, <1>8, <1>9, <1>10

\* The screen persists and nothing is seen that is not shown.
LEMMA SeenStays ==
  ASSUME NEW s, NEW t, NEW u, MessagesShown(s, t), PromptsShown(t), Persists(t.items, u.items),
         \A id : Has(t.items, id) => Has(u.items, id),
         \A id : id \in u.seen => id \in t.seen
  PROVE  MessagesShown(s, u) /\ PromptsShown(u)
BY KeptPersists DEF MessagesShown, PromptsShown

LEMMA EventHeld ==
  ASSUME NEW s \in Servers, NEW t, IsTab(t), NEW e \in Said, EventOK(s, e),
         MessagesShown(s, t), PromptsShown(t)
  PROVE  LET u == applyEvent(t, e) IN
         /\ Persists(t.items, u.items) /\ MessagesShown(s, u) /\ PromptsShown(u)
         /\ \A n \in DOMAIN s.log : Announced(<<e>>, s.log[n]) => Kept(u.items, s.log[n])
<1> DEFINE u == applyEvent(t, e)
<1> SUFFICES /\ Persists(t.items, u.items) /\ MessagesShown(s, u) /\ PromptsShown(u)
             /\ \A n \in DOMAIN s.log : Announced(<<e>>, s.log[n]) => Kept(u.items, s.log[n])
  OBVIOUS
<1>1. IsItems(t.items) /\ \A k \in DOMAIN s.log : k \in Nat /\ s.log[k].id = Message(k)
  BY LogShape DEF IsTab
<1>2. DOMAIN <<e>> = {1} /\ <<e>>[1] = e
  OBVIOUS
<1>3. CASE e[1] = "user_message"
  BY <1>3, UserHeld
<1>4. CASE IsLive(e)
  <2>1. u.seen = t.seen /\ SameItems(t.items, u.items)
    BY <1>4, LiveEvents
  <2> HIDE DEF u
  <2>2. Persists(t.items, u.items) /\ \A id : Has(t.items, id) => Has(u.items, id)
    BY <1>1, <2>1, ItemsPersist
  <2>3. \A n \in DOMAIN s.log : ~Announced(<<e>>, s.log[n])
    BY <1>2, <1>4 DEF Announced, IsLive
  <2> QED BY <2>1, <2>2, <2>3, SeenStays
<1>5. CASE e[1] = "text_delta"
  <2>1. PICK n \in 1..(Len(s.log) + 1) : e[2] = Message(n)
    BY <1>5 DEF EventOK
  <2>2. n \in Nat
    BY LogShape
  <2>3. /\ Screen(t, u, u.items, t.seen)
        /\ SameItems(t.items, u.items) \/ OneMore(t.items, u.items, e[2], None)
    BY <1>5, <2>1, <2>2, TextDeltas
  <2> HIDE DEF u
  <2>4. Persists(t.items, u.items) /\ \A id : Has(t.items, id) => Has(u.items, id)
    BY <1>1, <2>3, ItemsPersist
  <2>5. \A k \in DOMAIN s.log : ~Announced(<<e>>, s.log[k])
    BY <1>2, <1>5 DEF Announced
  <2> QED BY <2>3, <2>4, <2>5, SeenStays DEF Screen
<1>6. CASE e[1] = "assistant_message"
  <2>1. PICK n \in DOMAIN s.log : s.log[n].x = None /\ e[2] = Message(n)
    BY <1>6 DEF EventOK
  <2>2. n \in Nat /\ s.log[n].id = Message(n) /\ IsTab(u)
    BY <1>1, EventsTyped
  <2>3. \/ e[2] \in t.seen /\ Screen(t, u, t.items, t.seen)
        \/ Screen(t, u, u.items, t.seen \cup {e[2]}) /\ SameItems(t.items, u.items) /\ Has(t.items, e[2])
        \/ Screen(t, u, u.items, t.seen \cup {e[2]}) /\ OneMore(t.items, u.items, e[2], None)
    BY <1>6, <2>1, <2>2, AssistantMessages
  <2> HIDE DEF u
  <2>4. Persists(t.items, u.items) /\ \A id : Has(t.items, id) => Has(u.items, id)
    BY <1>1, <2>3, ItemsPersist DEF Screen
  <2>5. Kept(u.items, s.log[n])
    <3>1. CASE e[2] \in t.seen /\ Screen(t, u, t.items, t.seen)
      BY <2>1, <2>2, <3>1 DEF MessagesShown, Screen
    <3>2. CASE Has(u.items, e[2])
      BY <2>1, <2>2, <3>2, KeptByName DEF IsTab
    <3>3. CASE Has(t.items, e[2])
      BY <2>4, <3>2, <3>3
    <3>4. CASE OneMore(t.items, u.items, e[2], None)
      BY <1>1, <3>2, <3>4, ItemsPersist
    <3> QED BY <2>3, <3>1, <3>3, <3>4
  <2>6. \A k \in DOMAIN s.log : Announced(<<e>>, s.log[k]) => Kept(u.items, s.log[k])
    <3> SUFFICES ASSUME NEW k \in DOMAIN s.log, Announced(<<e>>, s.log[k]) PROVE k = n
      BY <2>5
    <3>1. e[2] = s.log[k].id
      BY <1>2, <1>6 DEF Announced
    <3> QED BY <1>1, <2>1, <3>1, Names
  <2>7. \A id : id \in u.seen => id \in t.seen \/ id = Message(n)
    BY <2>1, <2>3 DEF Screen
  <2>8. MessagesShown(s, u)
    BY <2>4, <2>5, <2>7, KeptPersists, Names DEF MessagesShown
  <2>9. PromptsShown(u)
    BY <2>4, <2>7, Names DEF PromptsShown
  <2> QED BY <2>4, <2>6, <2>8, <2>9
<1> QED BY <1>3, <1>4, <1>5, <1>6, SaidShape DEF IsLive

LEMMA PagesHeld ==
  ASSUME NEW s \in Servers, NEW t, IsTab(t), NEW page \in Seq(EntrySet), PageOK(s, page),
         MessagesShown(s, t), PromptsShown(t)
  PROVE  LET u == prependHistory(t, page) IN
         /\ Persists(t.items, u.items) /\ MessagesShown(s, u) /\ PromptsShown(u)
         /\ \A j \in DOMAIN page : Kept(u.items, page[j])
<1> DEFINE u == prependHistory(t, page)
<1> SUFFICES /\ Persists(t.items, u.items) /\ MessagesShown(s, u) /\ PromptsShown(u)
             /\ \A j \in DOMAIN page : Kept(u.items, page[j])
  OBVIOUS
<1>1. Screen(t, u, u.items, t.seen \cup PageIds(page)) /\ \E m \in Nat : \E q : InFront(t, page, u.items, m, q)
  BY Pages
<1> HIDE DEF u
<1>2. PICK m \in Nat : \E q : InFront(t, page, u.items, m, q)
  BY <1>1
<1>3. /\ Len(t.items) \in Nat /\ DOMAIN t.items = 1..Len(t.items)
      /\ DOMAIN u.items = 1..(m + Len(t.items))
      /\ \A k \in 1..m : u.items[k].x = None
      /\ \A j \in DOMAIN t.items : u.items[m + j] = t.items[j]
      /\ \A i \in DOMAIN page : page[i].id \notin t.seen => \E k \in 1..m : u.items[k].id = page[i].id
  BY <1>2 DEF InFront
<1>4. /\ \A j \in DOMAIN t.items : m + j \in DOMAIN u.items
      /\ \A k \in 1..m : k \in DOMAIN u.items
  BY <1>3
<1>5. Persists(t.items, u.items) /\ \A id : Has(t.items, id) => Has(u.items, id)
  BY <1>3, <1>4 DEF Persists, Has
<1>6. ASSUME NEW j \in DOMAIN page PROVE Kept(u.items, page[j])
  <2>1. PICK n \in DOMAIN s.log : page[j] = s.log[n]
    BY DEF PageOK
  <2>2. n \in Nat /\ page[j].id = Message(n)
    BY <2>1, LogShape
  <2>3. CASE page[j].id \in t.seen
    BY <1>5, <2>1, <2>2, <2>3, KeptPersists DEF MessagesShown
  <2>4. CASE page[j].id \notin t.seen
    BY <1>3, <1>4, <2>4 DEF Kept
  <2> QED BY <2>3, <2>4
<1>7. \A id : id \in u.seen => id \in t.seen \/ \E j \in DOMAIN page : id = page[j].id
  BY <1>1 DEF Screen, PageIds
<1>8. MessagesShown(s, u)
  <2> SUFFICES ASSUME NEW n \in Nat, Message(n) \in u.seen
               PROVE  n \in DOMAIN s.log /\ Kept(u.items, s.log[n])
    BY DEF MessagesShown
  <2>1. CASE Message(n) \in t.seen
    BY <1>5, <2>1, KeptPersists DEF MessagesShown
  <2>2. CASE Message(n) \notin t.seen
    <3>1. PICK j \in DOMAIN page : Message(n) = page[j].id
      BY <1>7, <2>2
    <3>2. PICK k \in DOMAIN s.log : page[j] = s.log[k]
      BY DEF PageOK
    <3>3. k = n
      BY <3>1, <3>2, LogShape, Names
    <3> QED BY <1>6, <3>2, <3>3
  <2> QED BY <2>1, <2>2
<1>9. PromptsShown(u)
  <2> SUFFICES ASSUME NEW x \in Prompts, Local(x) \in u.seen PROVE Has(u.items, Local(x))
    BY DEF PromptsShown
  <2>1. \A j \in DOMAIN page : page[j].id # Local(x)
    BY LogShape, Names DEF PageOK
  <2> QED BY <1>5, <1>7, <2>1 DEF PromptsShown
<1> QED BY <1>5, <1>6, <1>8, <1>9

-----------------------------------------------------------------------------
(* Step by step.                                                           *)

\* What was held still is, and so is what is new.
HadStays ==
  \A n \in DOMAIN server'.log :
    (n \in DOMAIN server.log => Had(tab, wire.events, server.log[n]))
    => Had(tab', wire'.events, server'.log[n])

SameRequest(f, g) ==
  /\ g.at = f.at /\ g.older = f.older /\ g.page = f.page /\ g.before = f.before /\ g.fresh = f.fresh

LEMMA HeldStays ==
  ASSUME Typed, Typed', AllHeld, wire'.open => HadStays,
         MessagesShown(server', tab'), PromptsShown(tab'), LogKept(server, server'),
         \A r \in Fetches : fetch'[r].fresh => \/ SameRequest(fetch[r], fetch'[r])
                                               \/ Holds(server', tab', wire'.events, Current', fetch'[r]),
         Current' => Current \/ \A r \in Fetches : fetch'[r].fresh => ~fetch'[r].older,
         Current' => \/ Current /\ tab'.cursor = tab.cursor
                     \/ HadAfter(server', tab', wire'.events, tab'.cursor)
  PROVE  AllHeld'
<1>1. \A n \in DOMAIN server.log : n \in DOMAIN server'.log /\ server'.log[n] = server.log[n]
  BY DEF LogKept
<1>2. ASSUME NEW r \in Fetches PROVE Holds(server', tab', wire'.events, Current', fetch'[r])
  <2> DEFINE f == fetch[r]
             g == fetch'[r]
  <2> SUFFICES ASSUME g.fresh, SameRequest(f, g)
               PROVE  Holds(server', tab', wire'.events, Current', g)
    BY DEF Holds
  <2>1. f.fresh /\ f.at = g.at /\ f.older = g.older /\ f.page = g.page /\ f.before = g.before
    BY DEF SameRequest
  <2>2. Holds(server, tab, wire.events, Current, f)
    BY DEF AllHeld
  <2>3. ~g.older => wire'.open
    BY DEF Typed, FetchTyped
  <2>4. Current' => wire'.open
    BY DEF Current
  <2>5. ASSUME g.at = "read", g.older => Current' PROVE Held(server', tab', wire'.events, g)
    <3>1. HadStays /\ Held(server, tab, wire.events, f)
      BY <2>1, <2>2, <2>3, <2>4, <2>5 DEF Holds
    <3> QED BY <1>1, <2>1, <3>1 DEF HadStays, Held
  <2>6. ASSUME g.at = "sent", g.older, Current' PROVE HadAfter(server', tab', wire'.events, g.before)
    <3>1. HadStays /\ HadAfter(server, tab, wire.events, f.before)
      BY <2>1, <2>2, <2>4, <2>6 DEF Holds
    <3> QED BY <1>1, <2>1, <3>1 DEF HadStays, HadAfter
  <2> QED BY <2>5, <2>6 DEF Holds
<1>3. Current' => HadAfter(server', tab', wire'.events, tab'.cursor)
  <2> SUFFICES ASSUME Current', Current, tab'.cursor = tab.cursor
               PROVE  HadAfter(server', tab', wire'.events, tab'.cursor)
    OBVIOUS
  <2>1. HadStays /\ HadAfter(server, tab, wire.events, tab.cursor)
    BY DEF AllHeld, Current
  <2> QED BY <1>1, <2>1 DEF HadStays, HadAfter
<1> QED BY <1>2, <1>3 DEF AllHeld

\* The screen persists and what was on its way still is.
LEMMA ScreenStays ==
  ASSUME Persists(tab.items, tab'.items), server' = server, wire'.events = wire.events
  PROVE  HadStays
BY KeptPersists DEF HadStays, Had

LEMMA RequestDone ==
  ASSUME FetchTyped, NEW r \in Fetches, Done(r), NEW q \in Fetches, fetch'[q].fresh
  PROVE  SameRequest(fetch[q], fetch'[q])
BY EmptyFetch DEF FetchTyped, SameRequest, Done

LEMMA ServerHeld ==
  ASSUME Typed, Typed', AllHeld, LogKept(server, server'), NEW events \in Seq(Said), Acts(events),
         \A n \in DOMAIN server'.log : n \notin DOMAIN server.log => Announced(events, server'.log[n])
  PROVE  AllHeld'
<1>1. wire \in Wires /\ UNCHANGED <<tab, fetch, h>>
  BY DEF Typed, WireTyped, Acts
<1>2. Heard(wire, wire', events)
  BY <1>1, ActsHeard
<1>3. wire'.open = wire.open /\ wire'.synced = wire.synced
  BY <1>2 DEF Heard
<1>4. \A n \in DOMAIN server.log : n \in DOMAIN server'.log /\ server'.log[n] = server.log[n]
  BY DEF LogKept
<1>5. ASSUME wire.open PROVE HadStays
  <2>1. /\ DOMAIN wire'.events = 1..(Len(wire.events) + Len(events)) /\ DOMAIN wire.events = 1..Len(wire.events)
        /\ \A k \in DOMAIN wire.events : wire'.events[k] = wire.events[k]
        /\ \A k \in DOMAIN events : wire'.events[Len(wire.events) + k] = events[k]
    BY <1>2, <1>5 DEF Heard
  <2>2. Len(wire.events) \in Nat /\ Len(events) \in Nat /\ DOMAIN events = 1..Len(events)
    BY <1>1, WireShape
  <2>3. /\ \A k \in DOMAIN wire.events : k \in DOMAIN wire'.events
        /\ \A k \in DOMAIN events : Len(wire.events) + k \in DOMAIN wire'.events
    BY <2>1, <2>2
  <2>4. \A e : Announced(wire.events, e) \/ Announced(events, e) => Announced(wire'.events, e)
    BY <2>1, <2>3 DEF Announced
  <2> QED BY <1>1, <1>4, <2>4 DEF HadStays, Had
<1>6. MessagesShown(server', tab') /\ PromptsShown(tab')
  BY <1>1, <1>4 DEF AllHeld, MessagesShown
<1>7. Current' => Current
  BY <1>1, <1>3 DEF Current
<1>8. \A r \in Fetches : SameRequest(fetch[r], fetch'[r])
  BY <1>1 DEF SameRequest
<1> QED BY <1>1, <1>3, <1>5, <1>6, <1>7, <1>8, HeldStays

LEMMA TakesHeld ==
  ASSUME Typed, Typed', AllHeld, NEW x \in Prompts, ServerTakes(x)
  PROVE  AllHeld'
<1> DEFINE n == Len(server.log) + 1
           e == <<"turn_started", x>>
           f == UserMessage(n, x)
           two == <<e, f>>
<1>1. ServerTyped /\ server \in Servers /\ n \in Nat
  BY LogShape DEF Typed, ServerTyped
<1>2. MoreLog(x) /\ Acts(two)
  BY <1>1, TakesStep
<1>3. e \in Said /\ f \in Said
  <2>1. (IF SameId THEN Message(n) ELSE Local(x)) \in Ids
    BY <1>1, Names
  <2> QED BY <2>1 DEF Said, UserMessage
<1>4. /\ f[1] = "user_message" /\ f[3] = x /\ f[2] = IF SameId THEN Message(n) ELSE Local(x)
  BY DEF UserMessage
<1> HIDE DEF e, f
<1>5. two \in Seq(Said) /\ DOMAIN two = {1, 2} /\ two[2] = f
  BY <1>3
<1>6. LogKept(server, server')
  BY TakesTyped
<1> HIDE DEF two
<1>7. ASSUME NEW k \in DOMAIN server'.log, k \notin DOMAIN server.log PROVE Announced(two, server'.log[k])
  <2>1. server'.log[n] = Entry(n, x) /\ k = n
    BY <1>1, <1>2, <1>7, LogAppended DEF MoreLog, Turns
  <2>2. server'.log[k].id = Message(n) /\ server'.log[k].x = x
    BY <2>1 DEF Entry
  <2> QED BY <1>4, <1>5, <2>2 DEF Announced
<1> QED BY <1>2, <1>5, <1>6, <1>7, ServerHeld

LEMMA ServerStepHeld ==
  ASSUME Typed, Typed', AllHeld, ServerStep
  PROVE  AllHeld'
<1> DEFINE n == Len(server.log) + 1
<1>1. ServerTyped /\ server \in Servers /\ n \in Nat /\ Message(n) \in Ids
  BY LogShape, Names DEF Typed, ServerTyped
<1>2. LogKept(server, server')
  BY ServerStepTyped
<1>3. ASSUME NEW e \in Said, Acts(<<e>>), SameLog PROVE AllHeld'
  <2>1. \A k \in DOMAIN server'.log : k \in DOMAIN server.log
    BY <1>3 DEF SameLog
  <2> QED BY <1>2, <1>3, <2>1, OneEvent, ServerHeld
<1>4. CASE ServerStreams
  <2>1. SameLog /\ Acts(<<<<"text_delta", Message(n)>>>>)
    BY <1>1, <1>4, StreamsStep
  <2>2. <<"text_delta", Message(n)>> \in Said
    BY <1>1 DEF Said
  <2> QED BY <1>3, <2>1, <2>2
<1>5. CASE ServerSettles
  <2> DEFINE e == <<"assistant_message", Message(n)>>
  <2>1. MoreLog(None) /\ Acts(<<e>>)
    BY <1>1, <1>5, SettlesStep
  <2>2. e \in Said /\ e[1] = "assistant_message" /\ e[2] = Message(n)
    BY <1>1 DEF Said
  <2> HIDE DEF e
  <2>3. ASSUME NEW k \in DOMAIN server'.log, k \notin DOMAIN server.log
        PROVE  Announced(<<e>>, server'.log[k])
    <3>1. server'.log[n] = Entry(n, None) /\ k = n
      BY <1>1, <2>1, <2>3, LogAppended DEF MoreLog, Turns
    <3> QED BY <2>2, <3>1, OneEvent DEF Announced, Entry
  <2> QED BY <1>2, <2>1, <2>2, <2>3, OneEvent, ServerHeld
<1>6. CASE ServerAsks
  <2> DEFINE a == server.asked + 1
  <2>1. SameLog /\ Acts(<<<<"interaction_request", a>>>>) /\ a \in Asks
    BY <1>1, <1>6, AsksStep
  <2> HIDE DEF a
  <2>2. <<"interaction_request", a>> \in Said
    BY <2>1 DEF Said
  <2> QED BY <1>3, <2>1, <2>2
<1>7. CASE ServerFinishes
  <2>1. SameLog /\ Acts(<<<<"turn_finished">>>>)
    BY <1>1, <1>7, FinishesStep
  <2>2. <<"turn_finished">> \in Said
    BY DEF Said
  <2> QED BY <1>3, <2>1, <2>2
<1>8. ASSUME NEW a \in Asks, ServerResolves(a) PROVE AllHeld'
  <2>1. SameLog /\ Acts(<<<<"interaction_resolved", a>>>>)
    BY <1>1, <1>8, ResolvesStep
  <2>2. <<"interaction_resolved", a>> \in Said
    BY DEF Said
  <2> QED BY <1>3, <2>1, <2>2
<1> QED BY <1>4, <1>5, <1>6, <1>7, <1>8 DEF ServerStep

LEMMA onEventHeld ==
  ASSUME Typed, Typed', AllHeld, onEvent
  PROVE  AllHeld'
<1> DEFINE e == Head(wire.events)
           L == Len(wire.events)
<1>1. /\ e \in Said /\ EventOK(server, e) /\ e = wire.events[1] /\ tab' = applyEvent(tab, e)
      /\ wire'.open = wire.open /\ wire'.synced = wire.synced
      /\ L \in Nat \ {0} /\ DOMAIN wire.events = 1..L /\ DOMAIN wire'.events = 1..(L - 1)
      /\ \A k \in 1..(L - 1) : wire'.events[k] = wire.events[k + 1]
      /\ UNCHANGED <<server, call, fetch, h>>
  BY onEventStep
<1>2. server \in Servers /\ IsTab(tab)
  BY DEF Typed, ServerTyped, TabTyped
<1> HIDE DEF e, L
<1>3. /\ Persists(tab.items, tab'.items) /\ MessagesShown(server, tab') /\ PromptsShown(tab')
      /\ \A n \in DOMAIN server.log : Announced(<<e>>, server.log[n]) => Kept(tab'.items, server.log[n])
  BY <1>1, <1>2, EventHeld DEF AllHeld
<1>4. tab'.cursor = tab.cursor
  BY <1>1, <1>2, EventsTyped DEF Else
<1>5. \A a : Announced(wire.events, a) => Announced(<<e>>, a) \/ Announced(wire'.events, a)
  <2>1. DOMAIN <<e>> = {1} /\ <<e>>[1] = e
    OBVIOUS
  <2>2. \A k \in 1..L : k = 1 \/ (k - 1 \in 1..(L - 1) /\ wire'.events[k - 1] = wire.events[k])
    <3> TAKE k \in 1..L
    <3>1. k # 1 => k - 1 \in 1..(L - 1) /\ (k - 1) + 1 = k
      BY <1>1
    <3> QED BY <1>1, <3>1
  <2> SUFFICES ASSUME NEW a, NEW k \in 1..L,
                      \/ wire.events[k][1] = "assistant_message" /\ wire.events[k][2] = a.id
                      \/ /\ wire.events[k][1] = "user_message" /\ wire.events[k][3] = a.x
                         /\ wire.events[k][2] = IF SameId THEN a.id ELSE Local(a.x)
               PROVE  Announced(<<e>>, a) \/ Announced(wire'.events, a)
    BY <1>1 DEF Announced
  <2>3. CASE k = 1
    BY <1>1, <2>1, <2>3 DEF Announced
  <2>4. CASE k # 1
    <3>1. k - 1 \in DOMAIN wire'.events /\ wire'.events[k - 1] = wire.events[k]
      BY <1>1, <2>2, <2>4
    <3> QED BY <3>1 DEF Announced
  <2> QED BY <2>3, <2>4
<1>6. HadStays
  BY <1>1, <1>3, <1>5, KeptPersists DEF HadStays, Had
<1>7. LogKept(server, server') /\ MessagesShown(server', tab')
  BY <1>1, <1>2, <1>3, SameKept
<1>8. Current' => Current
  BY <1>1 DEF Current
<1>9. \A r \in Fetches : SameRequest(fetch[r], fetch'[r])
  BY <1>1 DEF SameRequest
<1> QED BY <1>3, <1>4, <1>6, <1>7, <1>8, <1>9, HeldStays

LEMMA ReadPageHeld ==
  ASSUME Typed, Typed', AllHeld, NEW r \in Fetches, ReadPage(r)
  PROVE  AllHeld'
<1> DEFINE last == IF fetch[r].older THEN fetch[r].before ELSE Len(server.log)
           f == [fetch[r] EXCEPT !.at = "read", !.page = Page(last), !.before = Left(last)]
<1>1. /\ last \in Nat /\ last <= Len(server.log)
      /\ fetch' = [fetch EXCEPT ![r] = f] /\ fetch[r].at = "sent"
      /\ f.at = "read" /\ f.older = fetch[r].older /\ f.page = Page(last)
      /\ f.before = Left(last) /\ f.fresh = fetch[r].fresh
      /\ UNCHANGED <<server, wire, tab, call, h>>
  BY ReadPageStep
<1>2. server \in Servers /\ IsTab(tab) /\ FetchTyped
  BY DEF Typed, ServerTyped, TabTyped
<1>3. /\ DOMAIN server.log = 1..Len(server.log) /\ Len(server.log) \in Nat
      /\ \A n \in DOMAIN server.log : n \in Nat
  BY <1>2, LogShape
<1>4. ~fetch[r].older => last = Len(server.log)
  OBVIOUS
<1>5. fetch[r].older => last = fetch[r].before
  OBVIOUS
<1> HIDE DEF last, f
<1>6. /\ Left(last) \in Nat
      /\ \A n \in (Left(last) + 1)..last : \E j \in DOMAIN Page(last) : Page(last)[j] = server.log[n]
  BY <1>1, <1>2, PageShape, StoreAssumption
<1>7. Holds(server', tab', wire'.events, Current', f)
  <2> SUFFICES ASSUME f.fresh, f.older => Current' PROVE Held(server, tab, wire.events, f)
    BY <1>1 DEF Holds
  <2> SUFFICES ASSUME NEW n \in DOMAIN server.log, n > Left(last)
               PROVE  \/ Had(tab, wire.events, server.log[n])
                      \/ \E j \in DOMAIN Page(last) : Page(last)[j] = server.log[n]
    BY <1>1 DEF Held
  <2>1. CASE n <= last
    <3>1. n \in (Left(last) + 1)..last
      BY <1>1, <1>3, <1>6, <2>1
    <3> QED BY <1>6, <3>1
  <2>2. CASE ~(n <= last)
    <3>1. fetch[r].older /\ n > fetch[r].before
      BY <1>1, <1>3, <1>4, <1>5, <2>2
    <3>2. Current /\ fetch[r].fresh
      BY <1>1, <3>1 DEF Current
    <3>3. HadAfter(server, tab, wire.events, fetch[r].before)
      BY <1>1, <3>1, <3>2 DEF AllHeld, Holds
    <3> QED BY <3>1, <3>3 DEF HadAfter
  <2> QED BY <2>1, <2>2
<1>8. \A q \in Fetches : SameRequest(fetch[q], fetch'[q]) \/ fetch'[q] = f
  BY <1>1, <1>2 DEF FetchTyped, SameRequest
<1>9. HadStays
  <2>1. Persists(tab.items, tab.items)
    BY <1>2, ItemsPersist DEF IsTab
  <2> QED BY <1>1, <2>1, ScreenStays
<1>10. LogKept(server, server') /\ MessagesShown(server', tab') /\ PromptsShown(tab')
  BY <1>1, <1>2, SameKept DEF AllHeld
<1>11. (Current' => Current) /\ tab'.cursor = tab.cursor
  BY <1>1 DEF Current
<1> QED BY <1>7, <1>8, <1>9, <1>10, <1>11, HeldStays

LEMMA resyncHeld ==
  ASSUME Typed, Typed', AllHeld, NEW r \in Fetches, resync(r), tab.id = "this"
  PROVE  AllHeld'
<1> DEFINE f == fetch[r]
           u == prependHistory(tab, f.page)
<1>1. /\ f.at = "read" /\ ~f.older
      /\ tab'.items = u.items /\ tab'.seen = u.seen /\ tab'.cursor = f.before
      /\ wire'.open = wire.open /\ wire'.events = wire.events
      /\ h'.crossed = (h.crossed \/ ~f.fresh)
      /\ wire'.synced = (wire.synced \/ f.fresh)
      /\ \A q \in Fetches : fetch'[q] = IF q = r THEN NoFetch
                             ELSE [fetch[q] EXCEPT !.fresh = @ /\ ~fetch[q].older]
      /\ server' = server
  BY resyncStep
<1>2. server \in Servers /\ IsTab(tab) /\ FetchTyped
  BY DEF Typed, ServerTyped, TabTyped
<1>3. f.page \in Seq(EntrySet) /\ PageOK(server, f.page)
  BY <1>2, FetchShape
<1>4. /\ Persists(tab.items, u.items) /\ MessagesShown(server, u) /\ PromptsShown(u)
      /\ \A j \in DOMAIN f.page : Kept(u.items, f.page[j])
  BY <1>2, <1>3, PagesHeld DEF AllHeld
<1> HIDE DEF u
<1>5. MessagesShown(server', tab') /\ PromptsShown(tab')
  BY <1>1, <1>4 DEF MessagesShown, PromptsShown
<1>6. HadStays
  BY <1>1, <1>4, ScreenStays
<1>7. \A q \in Fetches : fetch'[q].fresh => SameRequest(fetch[q], fetch'[q])
  <2> SUFFICES ASSUME NEW q \in Fetches, fetch'[q].fresh PROVE SameRequest(fetch[q], fetch'[q])
    OBVIOUS
  <2>1. q # r
    BY <1>1, EmptyFetch
  <2>2. fetch[q] \in FetchSet /\ fetch'[q] = [fetch[q] EXCEPT !.fresh = @ /\ ~fetch[q].older]
    BY <1>1, <1>2, <2>1, FetchShape
  <2>3. /\ fetch'[q].at = fetch[q].at /\ fetch'[q].page = fetch[q].page
        /\ fetch'[q].before = fetch[q].before /\ fetch'[q].older = fetch[q].older
        /\ fetch'[q].fresh = (fetch[q].fresh /\ ~fetch[q].older)
    BY <2>2 DEF FetchSet
  <2>4. fetch'[q].fresh = fetch[q].fresh
    <3>1. fetch[q].fresh \in BOOLEAN
      BY <2>2 DEF FetchSet
    <3> QED BY <2>3, <3>1
  <2> QED BY <2>3, <2>4 DEF SameRequest
<1>8. ASSUME Current' PROVE HadAfter(server', tab', wire'.events, tab'.cursor)
  <2>1. f.fresh
    BY <1>1, <1>8 DEF Current
  <2>2. Held(server, tab, wire.events, f)
    BY <1>1, <2>1 DEF AllHeld, Holds
  <2> SUFFICES ASSUME NEW n \in DOMAIN server.log, n > f.before
               PROVE  Had(tab', wire.events, server.log[n])
    BY <1>1 DEF HadAfter
  <2>3. CASE Had(tab, wire.events, server.log[n])
    BY <1>1, <1>6, <2>3 DEF HadStays
  <2>4. CASE \E j \in DOMAIN f.page : f.page[j] = server.log[n]
    BY <1>1, <1>4, <2>4 DEF Had
  <2> QED BY <2>2, <2>3, <2>4 DEF Held
<1>9. \A q \in Fetches : fetch'[q].fresh => ~fetch'[q].older
  <2> SUFFICES ASSUME NEW q \in Fetches, fetch'[q].fresh PROVE ~fetch'[q].older
    OBVIOUS
  <2>1. q # r
    BY <1>1, EmptyFetch
  <2>2. fetch[q] \in FetchSet /\ fetch'[q] = [fetch[q] EXCEPT !.fresh = @ /\ ~fetch[q].older]
    BY <1>1, <1>2, <2>1, FetchShape
  <2> QED BY <2>2 DEF FetchSet
<1>10. LogKept(server, server')
  BY <1>1, <1>2, SameKept
<1> QED BY <1>5, <1>6, <1>7, <1>8, <1>9, <1>10, HeldStays

LEMMA OlderLoadedHeld ==
  ASSUME Typed, Typed', AllHeld, NEW r \in Fetches, OlderLoaded(r), tab.id = "this"
  PROVE  AllHeld'
<1> DEFINE f == fetch[r]
           u == prependHistory(tab, f.page)
<1>1. /\ f.at = "read" /\ f.older /\ Done(r)
      /\ tab'.items = u.items /\ tab'.seen = u.seen /\ tab'.cursor = f.before
      /\ h'.crossed = (h.crossed \/ ~f.fresh)
      /\ UNCHANGED <<server, wire, call>>
  BY OlderLoadedStep
<1>2. server \in Servers /\ IsTab(tab) /\ FetchTyped
  BY DEF Typed, ServerTyped, TabTyped
<1>3. f.page \in Seq(EntrySet) /\ PageOK(server, f.page)
  BY <1>2, FetchShape
<1>4. /\ Persists(tab.items, u.items) /\ MessagesShown(server, u) /\ PromptsShown(u)
      /\ \A j \in DOMAIN f.page : Kept(u.items, f.page[j])
  BY <1>2, <1>3, PagesHeld DEF AllHeld
<1> HIDE DEF u
<1>5. MessagesShown(server', tab') /\ PromptsShown(tab')
  BY <1>1, <1>4 DEF MessagesShown, PromptsShown
<1>6. HadStays
  BY <1>1, <1>4, ScreenStays
<1>7. \A q \in Fetches : fetch'[q].fresh => SameRequest(fetch[q], fetch'[q])
  BY <1>1, <1>2, RequestDone
<1>8. Current' => Current
  BY <1>1 DEF Current
<1>9. ASSUME Current' PROVE HadAfter(server', tab', wire'.events, tab'.cursor)
  <2>1. f.fresh /\ Current
    BY <1>1, <1>8, <1>9 DEF Current
  <2>2. Held(server, tab, wire.events, f)
    BY <1>1, <2>1 DEF AllHeld, Holds
  <2> SUFFICES ASSUME NEW n \in DOMAIN server.log, n > f.before
               PROVE  Had(tab', wire.events, server.log[n])
    BY <1>1 DEF HadAfter
  <2>3. CASE Had(tab, wire.events, server.log[n])
    BY <1>1, <1>6, <2>3 DEF HadStays
  <2>4. CASE \E j \in DOMAIN f.page : f.page[j] = server.log[n]
    BY <1>1, <1>4, <2>4 DEF Had
  <2> QED BY <2>2, <2>3, <2>4 DEF Held
<1>10. LogKept(server, server')
  BY <1>1, <1>2, SameKept
<1> QED BY <1>5, <1>6, <1>7, <1>8, <1>9, <1>10, HeldStays

\* The tab's own prompts: what waits for its echo is not held by the screen.
LEMMA PromptsHeld ==
  ASSUME Typed, Typed', AllHeld, NEW x \in Prompts,
         prompt(x) \/ \E ok \in BOOLEAN : PromptReturns(x, ok)
  PROVE  AllHeld'
<1>1. server \in Servers /\ IsTab(tab) /\ IsItems(tab.items)
  BY DEF Typed, ServerTyped, TabTyped, IsTab
<1>2. MessagesShown(server, tab) /\ PromptsShown(tab)
  BY DEF AllHeld
<1>3. \A n : Message(n) # Local(x)
  BY Names
<1>4. /\ UNCHANGED <<server, wire, fetch, h>> /\ tab'.cursor = tab.cursor
      /\ Persists(tab.items, tab'.items) /\ MessagesShown(server, tab') /\ PromptsShown(tab')
  <2>1. CASE prompt(x)
    <3>1. /\ tab'.seen = tab.seen \cup {Local(x)} /\ OneMore(tab.items, tab'.items, Local(x), x)
          /\ tab'.cursor = tab.cursor /\ UNCHANGED <<server, wire, fetch, h>>
      BY <2>1, promptStep
    <3>2. /\ Persists(tab.items, tab'.items) /\ Has(tab'.items, Local(x))
          /\ \A id : Has(tab.items, id) => Has(tab'.items, id)
      BY <1>1, <3>1, ItemsPersist
    <3>3. MessagesShown(server, tab')
      BY <1>2, <1>3, <3>1, <3>2, KeptPersists DEF MessagesShown
    <3>4. PromptsShown(tab')
      BY <1>2, <3>1, <3>2, Names DEF PromptsShown
    <3> QED BY <3>1, <3>2, <3>3, <3>4
  <2>2. ASSUME NEW ok \in BOOLEAN, PromptReturns(x, ok)
        PROVE  /\ UNCHANGED <<server, wire, fetch, h>> /\ tab'.cursor = tab.cursor
               /\ Persists(tab.items, tab'.items) /\ MessagesShown(server, tab') /\ PromptsShown(tab')
    <3>1. /\ \/ tab'.items = tab.items /\ tab'.seen = tab.seen
             \/ /\ tab'.seen = tab.seen \ {Local(x)}
                /\ \E i : /\ OneLess(tab.items, tab'.items, i)
                          /\ tab.items[i].x = x /\ tab.items[i].id = Local(x)
          /\ tab'.cursor = tab.cursor /\ UNCHANGED <<server, wire, fetch, h>>
      BY <2>2, PromptReturnsStep
    <3>2. CASE tab'.items = tab.items /\ tab'.seen = tab.seen
      <4>1. Persists(tab.items, tab'.items)
        BY <1>1, <3>2, ItemsPersist
      <4> QED BY <1>2, <3>1, <3>2, <4>1 DEF MessagesShown, PromptsShown
    <3>3. CASE /\ tab'.seen = tab.seen \ {Local(x)}
               /\ \E i : /\ OneLess(tab.items, tab'.items, i)
                         /\ tab.items[i].x = x /\ tab.items[i].id = Local(x)
      <4>1. PICK i : /\ OneLess(tab.items, tab'.items, i)
                     /\ tab.items[i].x = x /\ tab.items[i].id = Local(x)
        BY <3>3
      <4>2. x # None
        BY StoreAssumption
      <4>3. Persists(tab.items, tab'.items) /\ \A id : id # Local(x) /\ Has(tab.items, id) => Has(tab'.items, id)
        BY <1>1, <4>1, <4>2, ItemsPersist
      <4>4. MessagesShown(server, tab')
        BY <1>2, <3>3, <4>3, KeptPersists DEF MessagesShown
      <4>5. PromptsShown(tab')
        BY <1>2, <3>3, <4>3 DEF PromptsShown
      <4> QED BY <3>1, <4>3, <4>4, <4>5
    <3> QED BY <3>1, <3>2, <3>3
  <2> QED BY <2>1, <2>2
<1>5. HadStays
  BY <1>4, ScreenStays
<1>6. LogKept(server, server') /\ MessagesShown(server', tab')
  BY <1>1, <1>4, SameKept
<1>7. Current' = Current /\ \A r \in Fetches : SameRequest(fetch[r], fetch'[r])
  BY <1>4 DEF Current, SameRequest
<1> QED BY <1>4, <1>5, <1>6, <1>7, HeldStays

\* The screen is left alone.
LEMMA ScreenHeld ==
  ASSUME Typed, Typed', AllHeld, server' = server, tab'.items = tab.items, tab'.seen = tab.seen,
         wire'.open => wire'.events = wire.events,
         Current' => Current /\ tab'.cursor = tab.cursor,
         \A r \in Fetches : fetch'[r].fresh => \/ SameRequest(fetch[r], fetch'[r])
                                               \/ Holds(server', tab', wire'.events, Current', fetch'[r])
  PROVE  AllHeld'
<1>1. server \in Servers /\ IsItems(tab.items)
  BY DEF Typed, ServerTyped, TabTyped, IsTab
<1>2. Persists(tab.items, tab'.items)
  BY <1>1, ItemsPersist
<1>3. wire'.open => HadStays
  BY <1>2, ScreenStays
<1>4. MessagesShown(server', tab') /\ PromptsShown(tab')
  BY DEF AllHeld, MessagesShown, PromptsShown
<1>5. LogKept(server, server')
  BY <1>1, SameKept
<1> QED BY <1>3, <1>4, <1>5, HeldStays

LEMMA NextHeld == Typed /\ Typed' /\ AllHeld /\ [Next]_vars => AllHeld'
<1> SUFFICES ASSUME Typed, Typed', AllHeld, [Next]_vars PROVE AllHeld'
  OBVIOUS
<1>0. FetchTyped /\ \A f : SameRequest(f, f)
  BY DEF Typed, SameRequest
<1>1. CASE UNCHANGED vars
  <2>1. UNCHANGED <<server, wire, tab, fetch, h>>
    BY <1>1 DEF vars
  <2>2. Current' = Current /\ \A r \in Fetches : SameRequest(fetch[r], fetch'[r])
    BY <2>1 DEF Current, SameRequest
  <2> QED BY <2>1, <2>2, ScreenHeld
<1>4. ASSUME NEW x \in Prompts, ServerTakes(x) PROVE AllHeld'
  BY <1>4, TakesHeld
<1>5. ASSUME NEW x \in Prompts, ServerRefuses(x) PROVE AllHeld'
  <2>1. UNCHANGED <<server, wire, tab, fetch, h>>
    BY <1>5 DEF ServerRefuses
  <2>2. Current' = Current /\ \A r \in Fetches : SameRequest(fetch[r], fetch'[r])
    BY <2>1 DEF Current, SameRequest
  <2> QED BY <2>1, <2>2, ScreenHeld
<1>6. ASSUME NEW x \in Prompts, prompt(x) \/ \E ok \in BOOLEAN : PromptReturns(x, ok) PROVE AllHeld'
  BY <1>6, PromptsHeld
<1>8. CASE ServerStep
  BY <1>8, ServerStepHeld
<1>9. CASE open
  <2>1. tab.id = "other" /\ tab' = Blank /\ UNCHANGED <<server, wire, fetch, h>>
    BY <1>9 DEF open
  <2>2. ~wire.open /\ server \in Servers
    BY <2>1 DEF Typed, WireTyped, ServerTyped
  <2>3. MessagesShown(server', tab') /\ PromptsShown(tab')
    BY <2>1, BlankTab DEF MessagesShown, PromptsShown
  <2>4. ~wire'.open /\ ~Current' /\ \A r \in Fetches : SameRequest(fetch[r], fetch'[r])
    BY <2>1, <2>2 DEF Current, SameRequest
  <2>5. LogKept(server, server')
    BY <2>1, <2>2, SameKept
  <2> QED BY <2>3, <2>4, <2>5, HeldStays
<1>10. CASE close \/ StreamDrops
  <2>1. Disconnected /\ server' = server
    BY <1>10 DEF close, StreamDrops
  <2>2. ~wire'.open /\ \A r \in Fetches : fetch'[r] = [fetch[r] EXCEPT !.fresh = FALSE]
    BY <2>1, DisconnectedStep
  <2>3. \A r \in Fetches : ~fetch'[r].fresh
    <3> TAKE r \in Fetches
    <3>1. fetch[r] \in FetchSet
      BY <1>0, FetchShape
    <3> QED BY <2>2, <3>1 DEF FetchSet
  <2>4. MessagesShown(server', tab') /\ PromptsShown(tab')
    <3>1. CASE close
      <4>1. tab' = [Blank EXCEPT !.id = "other"]
        BY <3>1 DEF close
      <4>2. tab'.seen = {}
        BY <4>1, BlankTab
      <4> QED BY <4>2 DEF MessagesShown, PromptsShown
    <3>2. CASE StreamDrops
      <4>1. tab' = tab
        BY <3>2 DEF StreamDrops
      <4> QED BY <2>1, <4>1 DEF AllHeld
    <3> QED BY <1>10, <3>1, <3>2
  <2>5. LogKept(server, server') /\ ~Current'
    BY <2>1, <2>2, SameKept DEF Typed, ServerTyped, Current
  <2> QED BY <2>2, <2>3, <2>4, <2>5, HeldStays
<1>11. CASE onEvent
  BY <1>11, onEventHeld
<1>12. ASSUME NEW r \in Fetches, onOpen(r) PROVE AllHeld'
  <2> DEFINE f == [NoFetch EXCEPT !.at = "sent", !.fresh = TRUE]
  <2>1. /\ fetch[r] = NoFetch /\ fetch' = [fetch EXCEPT ![r] = f]
        /\ wire'.events = <<>> /\ ~wire'.synced /\ ~wire.open /\ UNCHANGED <<server, tab, call>>
    BY <1>12, onOpenStep
  <2>2. f.at = "sent" /\ ~f.older
    BY DEF NoFetch
  <2> HIDE DEF f
  <2>3. ~Current' /\ wire'.events = wire.events
    BY <2>1 DEF Current, Typed, WireTyped
  <2>4. Holds(server', tab', wire'.events, Current', f)
    BY <2>2 DEF Holds
  <2>5. \A q \in Fetches : SameRequest(fetch[q], fetch'[q]) \/ fetch'[q] = f
    BY <1>0, <2>1 DEF FetchTyped
  <2> QED BY <2>1, <2>3, <2>4, <2>5, ScreenHeld
<1>13. ASSUME NEW r \in Fetches, ReadDetail(r) PROVE AllHeld'
  <2> DEFINE f == [fetch[r] EXCEPT !.detail = <<server.pending, server.turn, server.ver>>]
  <2>1. /\ fetch' = [fetch EXCEPT ![r] = f]
        /\ f.at = fetch[r].at /\ f.older = fetch[r].older /\ f.page = fetch[r].page
        /\ f.before = fetch[r].before /\ f.fresh = fetch[r].fresh
        /\ UNCHANGED <<server, wire, tab, call, h>>
    BY <1>13, ReadDetailStep
  <2> HIDE DEF f
  <2>2. \A q \in Fetches : SameRequest(fetch[q], fetch'[q])
    BY <1>0, <2>1 DEF FetchTyped, SameRequest
  <2>3. Current' = Current
    BY <2>1 DEF Current
  <2> QED BY <2>1, <2>2, <2>3, ScreenHeld
<1>14. ASSUME NEW r \in Fetches, ReadPage(r) PROVE AllHeld'
  BY <1>14, ReadPageHeld
<1>15. ASSUME NEW r \in Fetches, resync(r) PROVE AllHeld'
  <2>1. CASE tab.id = "this"
    BY <1>15, <2>1, resyncHeld
  <2>2. CASE tab.id # "this"
    <3>1. Done(r) /\ UNCHANGED <<server, call, tab, h, wire>>
      BY <1>15, <2>2 DEF resync
    <3>2. \A q \in Fetches : fetch'[q].fresh => SameRequest(fetch[q], fetch'[q])
      BY <1>0, <3>1, RequestDone
    <3>3. Current' = Current
      BY <3>1 DEF Current
    <3> QED BY <3>1, <3>2, <3>3, ScreenHeld
  <2> QED BY <2>1, <2>2
<1>16. ASSUME NEW r \in Fetches, FetchFails(r) PROVE AllHeld'
  <2>1. /\ Done(r) /\ UNCHANGED <<server, wire, call, h>>
        /\ tab'.items = tab.items /\ tab'.seen = tab.seen /\ tab'.cursor = tab.cursor
    BY <1>16, FetchFailsStep
  <2>2. \A q \in Fetches : fetch'[q].fresh => SameRequest(fetch[q], fetch'[q])
    BY <1>0, <2>1, RequestDone
  <2>3. Current' = Current
    BY <2>1 DEF Current
  <2> QED BY <2>1, <2>2, <2>3, ScreenHeld
<1>17. ASSUME NEW r \in Fetches, loadOlder(r) PROVE AllHeld'
  <2> DEFINE f == [NoFetch EXCEPT !.at = "sent", !.older = TRUE, !.fresh = TRUE,
                                  !.before = tab.cursor]
  <2>1. /\ fetch' = [fetch EXCEPT ![r] = f] /\ f.at = "sent" /\ f.before = tab.cursor
        /\ h' = [h EXCEPT !.fetches = @ + 1]
        /\ UNCHANGED <<server, wire, tab, call>>
    BY <1>17, loadOlderStep
  <2> HIDE DEF f
  <2>2. Current' = Current
    BY <2>1 DEF Current, Typed, HistoryTyped
  <2>3. Holds(server', tab', wire'.events, Current', f)
    BY <2>1, <2>2 DEF Holds, AllHeld
  <2>4. \A q \in Fetches : SameRequest(fetch[q], fetch'[q]) \/ fetch'[q] = f
    BY <1>0, <2>1 DEF FetchTyped
  <2> QED BY <2>1, <2>2, <2>3, <2>4, ScreenHeld
<1>18. ASSUME NEW r \in Fetches, OlderLoaded(r) PROVE AllHeld'
  <2>1. CASE tab.id = "this"
    BY <1>18, <2>1, OlderLoadedHeld
  <2>2. CASE tab.id # "this"
    <3>1. Done(r) /\ UNCHANGED <<server, wire, tab, h>>
      BY <1>18, <2>2 DEF OlderLoaded
    <3>2. \A q \in Fetches : fetch'[q].fresh => SameRequest(fetch[q], fetch'[q])
      BY <1>0, <3>1, RequestDone
    <3>3. Current' = Current
      BY <3>1 DEF Current
    <3> QED BY <3>1, <3>2, <3>3, ScreenHeld
  <2> QED BY <2>1, <2>2
<1> QED BY <1>1, <1>4, <1>5, <1>6, <1>8, <1>9, <1>10, <1>11, <1>12, <1>13, <1>14, <1>15,
           <1>16, <1>17, <1>18 DEF Next

LEMMA HeldShows == Typed /\ AllHeld => NothingMissing
<1> SUFFICES ASSUME Typed, AllHeld, Quiet, ~h.crossed, NEW n \in (tab.cursor + 1)..Len(server.log)
             PROVE  Shows(tab.items, server.log[n]) # {}
  BY DEF NothingMissing
<1>1. Current /\ DOMAIN wire.events = {}
  BY DEF Quiet, Current
<1>2. server \in Servers /\ tab.cursor \in Nat
  BY StoreAssumption DEF Typed, ServerTyped, TabTyped, IsTab, Tabs
<1>3. n \in DOMAIN server.log /\ n > tab.cursor
  BY <1>2, LogShape
<1>4. Had(tab, wire.events, server.log[n])
  BY <1>1, <1>3 DEF AllHeld, HadAfter
<1>5. Kept(tab.items, server.log[n])
  BY <1>1, <1>4 DEF Had, Announced
<1> QED BY <1>5 DEF Kept, Shows

\* A tab that has heard all there is shows every entry that a further page of
\* history would not bring, however the stream, the resyncs and the older pages
\* met, unless an answer crossed a loss of the stream (thread.ts: resync,
\* loadOlder; transcript.ts: prependHistory and the reducer of events).
THEOREM NothingIsMissing == Spec => []NothingMissing
<1>1. Init => Typed /\ AllHeld
  <2> SUFFICES ASSUME Init PROVE AllHeld
    BY InitTyped
  <2>1. tab.seen = {}
    BY BlankTab DEF Init
  <2>2. \A r \in Fetches : ~fetch[r].fresh
    BY EmptyFetch DEF Init
  <2>3. ~Current
    BY DEF Init, Current
  <2> QED BY <2>1, <2>2, <2>3 DEF AllHeld, MessagesShown, PromptsShown, Holds
<1>2. (Typed /\ AllHeld) /\ [Next]_vars => (Typed /\ AllHeld)'
  BY NextTyped, NextHeld
<1>3. Typed /\ AllHeld => NothingMissing
  BY HeldShows
<1> QED BY <1>1, <1>2, <1>3, PTL DEF Spec

-----------------------------------------------------------------------------
(* Nothing is there twice: what is on screen is accounted for by the log,    *)
(* and no two places show one entry.                                         *)

OnceTaken(s, c) ==
  /\ \A n \in DOMAIN s.log : s.log[n].x # None => c[s.log[n].x] \in {"taken", "returned"}
  /\ \A n, k \in DOMAIN s.log : s.log[n].x # None /\ s.log[n].x = s.log[k].x => n = k

PageOnce(page) == \A i, j \in DOMAIN page : page[i].id = page[j].id => i = j

Echoed(s, seen, x) == \E n \in DOMAIN s.log : s.log[n].x = x /\ Message(n) \in seen

\* A message is of the log, or streams; one not seen is the agent's. A prompt was
\* sent, and waits for its echo until that was seen.
Accounted(s, c, seen, a) ==
  /\ \A n \in Nat : a.id = Message(n) =>
       /\ n <= Len(s.log) \/ (s.streams /\ n = Len(s.log) + 1)
       /\ n \in DOMAIN s.log /\ Message(n) \notin seen => s.log[n].x = None
  /\ \A x \in Prompts : a.id = Local(x) =>
       c[x] # "new" /\ (a.x = None => Echoed(s, seen, x))

AllAccounted(s, c, t) == \A i \in DOMAIN t.items : Accounted(s, c, t.seen, t.items[i])

\* Two items that show one entry.
Twice(s, a, b) ==
  \/ a.id = b.id
  \/ \E n \in DOMAIN s.log : s.log[n].x # None /\ a.id = Message(n) /\ b.id = Local(s.log[n].x)

Distinct(s, items) == \A i, j \in DOMAIN items : Twice(s, items[i], items[j]) => i = j

Single ==
  /\ OnceTaken(server, call) /\ \A r \in Fetches : PageOnce(fetch[r].page)
  /\ SameId => /\ AllAccounted(server, call, tab)
               /\ ~h.doubled => Distinct(server, tab.items)

-----------------------------------------------------------------------------
\* The log grows by one entry at most.
Grown(s, u) == LogKept(s, u) /\ \A n \in DOMAIN u.log : n \in DOMAIN s.log \/ n = Len(s.log) + 1

LEMMA AccountedStays ==
  ASSUME NEW s \in Servers, NEW u \in Servers, Grown(s, u), NEW c, NEW d,
         \A x \in Prompts : c[x] # "new" => d[x] # "new",
         NEW seen, NEW more, \A n : Message(n) \in seen => Message(n) \in more,
         NEW a, NEW b, b.id = a.id, b.x = None => a.x = None, Accounted(s, c, seen, a)
  PROVE  Accounted(u, d, more, b)
<1>1. /\ Len(s.log) \in Nat /\ DOMAIN s.log = 1..Len(s.log)
      /\ Len(u.log) \in Nat /\ DOMAIN u.log = 1..Len(u.log)
  BY LogShape
<1>2. /\ \A n \in DOMAIN s.log : n \in DOMAIN u.log /\ u.log[n] = s.log[n]
      /\ Len(s.log) <= Len(u.log)
      /\ s.streams => IF Len(u.log) = Len(s.log) THEN u.streams
                      ELSE Len(s.log) + 1 \in DOMAIN u.log /\ u.log[Len(s.log) + 1].x = None
      /\ \A n \in DOMAIN u.log : n \in DOMAIN s.log \/ n = Len(s.log) + 1
  BY DEF Grown, LogKept
<1>3. ASSUME NEW n \in Nat, b.id = Message(n)
      PROVE  /\ n <= Len(u.log) \/ (u.streams /\ n = Len(u.log) + 1)
             /\ n \in DOMAIN u.log /\ Message(n) \notin more => u.log[n].x = None
  <2>1. /\ n <= Len(s.log) \/ (s.streams /\ n = Len(s.log) + 1)
        /\ n \in DOMAIN s.log /\ Message(n) \notin seen => s.log[n].x = None
    BY <1>3 DEF Accounted
  <2>2. CASE n <= Len(s.log)
    <3>1. n <= Len(u.log)
      BY <1>1, <1>2, <2>2
    <3>2. n \in DOMAIN u.log => n \in DOMAIN s.log
      BY <1>1, <2>2
    <3> QED BY <1>2, <2>1, <3>1, <3>2
  <2>3. CASE s.streams /\ n = Len(s.log) + 1
    <3>1. CASE Len(u.log) = Len(s.log)
      BY <1>1, <1>2, <2>3, <3>1
    <3>2. CASE Len(u.log) # Len(s.log)
      <4>1. n \in DOMAIN u.log /\ u.log[n].x = None
        BY <1>2, <2>3, <3>2
      <4> QED BY <1>1, <4>1
    <3> QED BY <3>1, <3>2
  <2> QED BY <2>1, <2>2, <2>3
<1>4. ASSUME NEW x \in Prompts, b.id = Local(x)
      PROVE  d[x] # "new" /\ (b.x = None => Echoed(u, more, x))
  <2>1. c[x] # "new" /\ (a.x = None => Echoed(s, seen, x))
    BY <1>4 DEF Accounted
  <2>2. Echoed(s, seen, x) => Echoed(u, more, x)
    BY <1>2 DEF Echoed
  <2> QED BY <2>1, <2>2
<1> QED BY <1>3, <1>4 DEF Accounted

LEMMA SeenAccounted ==
  ASSUME NEW s, NEW c, NEW seen, NEW more, \A n : Message(n) \in seen => Message(n) \in more,
         NEW a, Accounted(s, c, seen, a)
  PROVE  Accounted(s, c, more, a)
BY DEF Accounted, Echoed

LEMMA DistinctStays ==
  ASSUME NEW s \in Servers, NEW u \in Servers, Grown(s, u), NEW c, NEW t,
         AllAccounted(s, c, t), Distinct(s, t.items)
  PROVE  Distinct(u, t.items)
<1> SUFFICES ASSUME NEW i \in DOMAIN t.items, NEW j \in DOMAIN t.items,
                    Twice(u, t.items[i], t.items[j])
             PROVE  i = j
  BY DEF Distinct
<1>1. /\ Len(s.log) \in Nat /\ DOMAIN s.log = 1..Len(s.log)
      /\ Len(u.log) \in Nat /\ DOMAIN u.log = 1..Len(u.log)
  BY LogShape
<1>2. CASE t.items[i].id = t.items[j].id
  BY <1>2 DEF Twice, Distinct
<1>3. ASSUME NEW n \in DOMAIN u.log, u.log[n].x # None, t.items[i].id = Message(n),
             t.items[j].id = Local(u.log[n].x)
      PROVE  i = j
  <2>1. CASE n \in DOMAIN s.log
    <3>1. u.log[n] = s.log[n]
      BY <2>1 DEF Grown, LogKept
    <3> QED BY <1>3, <2>1, <3>1 DEF Twice, Distinct
  <2>2. CASE n \notin DOMAIN s.log
    <3>1. n = Len(s.log) + 1 /\ n \in Nat
      BY <1>1, <2>2 DEF Grown
    <3>2. n <= Len(s.log) \/ s.streams
      BY <1>3, <3>1 DEF AllAccounted, Accounted
    <3>3. s.streams /\ Len(u.log) # Len(s.log)
      BY <1>1, <2>2, <3>1, <3>2
    <3>4. u.log[n].x = None
      BY <3>1, <3>3 DEF Grown, LogKept
    <3> QED BY <1>3, <3>4
  <2> QED BY <2>1, <2>2
<1> QED BY <1>2, <1>3 DEF Twice

LEMMA SameGrown ==
  ASSUME NEW s \in Servers, NEW u, u.log = s.log, s.streams => u.streams
  PROVE  Grown(s, u)
BY SameKept DEF Grown

-----------------------------------------------------------------------------
(* The screen.                                                               *)

\* What waits no longer was echoed.
LEMMA EchoesAccounted ==
  ASSUME NEW s \in Servers, NEW c, NEW t, NEW u, SameItems(t.items, u.items),
         \A n : Message(n) \in t.seen => Message(n) \in u.seen,
         \A i \in DOMAIN t.items : u.items[i].x = None =>
            \/ t.items[i].x = None
            \/ \E y \in Prompts : t.items[i].id = Local(y) /\ Echoed(s, u.seen, y),
         AllAccounted(s, c, t)
  PROVE  /\ AllAccounted(s, c, u)
         /\ Distinct(s, t.items) => Distinct(s, u.items)
<1>1. DOMAIN u.items = DOMAIN t.items /\ \A i \in DOMAIN t.items : u.items[i].id = t.items[i].id
  BY DEF SameItems
<1>2. Distinct(s, t.items) => Distinct(s, u.items)
  BY <1>1 DEF Distinct, Twice
<1>3. Grown(s, s)
  BY SameGrown
<1>4. ASSUME NEW i \in DOMAIN u.items PROVE Accounted(s, c, u.seen, u.items[i])
  <2>1. i \in DOMAIN t.items /\ u.items[i].id = t.items[i].id /\ Accounted(s, c, t.seen, t.items[i])
    BY <1>1, <1>4 DEF AllAccounted
  <2>2. CASE u.items[i].x = None => t.items[i].x = None
    <3> DEFINE a == t.items[i]
               b == u.items[i]
    <3>1. b.id = a.id /\ (b.x = None => a.x = None) /\ Accounted(s, c, t.seen, a)
      BY <2>1, <2>2
    <3> HIDE DEF a, b
    <3>2. Accounted(s, c, u.seen, b)
      BY <1>3, <3>1, AccountedStays
    <3> QED BY <3>2 DEF b
  <2>3. CASE ~(u.items[i].x = None => t.items[i].x = None)
    <3>1. PICK y \in Prompts : t.items[i].id = Local(y) /\ Echoed(s, u.seen, y)
      BY <2>1, <2>3
    <3> QED BY <2>1, <3>1, Names DEF Accounted
  <2> QED BY <2>2, <2>3
<1> QED BY <1>2, <1>4 DEF AllAccounted

\* An item with this name is accounted for, and is not there yet.
NewAccounted(s, c, seen, id, x) == \A a : a.id = id /\ a.x = x => Accounted(s, c, seen, a)
NotYet(s, items, id) ==
  \A j \in DOMAIN items : \A a : a.id = id => ~Twice(s, items[j], a) /\ ~Twice(s, a, items[j])

LEMMA OneMoreAccounted ==
  ASSUME NEW s \in Servers, NEW c, NEW t, IsTab(t), NEW u, NEW id, NEW x,
         OneMore(t.items, u.items, id, x),
         \A n : Message(n) \in t.seen => Message(n) \in u.seen,
         NewAccounted(s, c, u.seen, id, x), NotYet(s, t.items, id),
         AllAccounted(s, c, t)
  PROVE  /\ AllAccounted(s, c, u)
         /\ Distinct(s, t.items) => Distinct(s, u.items)
<1> DEFINE L == Len(t.items)
<1>1. /\ L \in Nat /\ DOMAIN t.items = 1..L /\ DOMAIN u.items = 1..(L + 1)
      /\ \A i \in DOMAIN t.items : u.items[i] = t.items[i]
      /\ u.items[L + 1].id = id /\ u.items[L + 1].x = x
  BY ItemsShape DEF OneMore, IsTab
<1> HIDE DEF L
<1>2. \A i \in 1..(L + 1) : i \in DOMAIN t.items \/ i = L + 1
  BY <1>1
<1>3. Grown(s, s)
  BY SameGrown
<1>4. ASSUME NEW i \in DOMAIN u.items PROVE Accounted(s, c, u.seen, u.items[i])
  <2>1. CASE i \in DOMAIN t.items
    <3>1. u.items[i] = t.items[i] /\ Accounted(s, c, t.seen, t.items[i])
      BY <1>1, <2>1 DEF AllAccounted
    <3> QED BY <1>3, <3>1, AccountedStays
  <2>2. CASE i = L + 1
    BY <1>1, <2>2 DEF NewAccounted
  <2> QED BY <1>1, <1>2, <1>4, <2>1, <2>2
<1>5. ASSUME Distinct(s, t.items), NEW i \in DOMAIN u.items, NEW j \in DOMAIN u.items,
             Twice(s, u.items[i], u.items[j])
      PROVE  i = j
  <2>1. CASE i \in DOMAIN t.items /\ j \in DOMAIN t.items
    BY <1>1, <1>5, <2>1 DEF Distinct
  <2>2. CASE i = L + 1 /\ j \in DOMAIN t.items
    BY <1>1, <1>5, <2>2 DEF NotYet
  <2>3. CASE i \in DOMAIN t.items /\ j = L + 1
    BY <1>1, <1>5, <2>3 DEF NotYet
  <2>4. CASE i = L + 1 /\ j = L + 1
    BY <2>4
  <2> QED BY <1>1, <1>2, <2>1, <2>2, <2>3, <2>4
<1> QED BY <1>4, <1>5 DEF AllAccounted, Distinct

\* Only a user's message ends the wait for an echo, and only of its prompt.
LEMMA EventEchoes ==
  ASSUME NEW s \in Servers, NEW t, IsTab(t), NEW e \in Said, EventOK(s, e),
         NEW i \in DOMAIN t.items, applyEvent(t, e).items[i].x = None, t.items[i].x # None
  PROVE  e[1] = "user_message" /\ t.items[i].id = Local(e[3])
<1> DEFINE u == applyEvent(t, e)
           k == t.items
<1>1. t \in Tabs /\ IsItems(k)
  BY DEF IsTab
<1>2. /\ Len(k) \in Nat /\ DOMAIN k = 1..Len(k) /\ k[i] \in ItemSet
      /\ k[i].x \in Prompts /\ k[i].id = Local(k[i].x)
  BY <1>1, ItemsShape
<1>3. \A n, b : Placed(k, Message(n), b)[i] = k[i]
  <2> TAKE n, b
  <2>1. k[i].id # Message(n)
    BY <1>2, Names
  <2>2. CASE Has(k, Message(n))
    BY <2>1, <2>2 DEF Placed
  <2>3. CASE ~Has(k, Message(n))
    <3>1. Append(k, Item(Message(n), None, b))[i] = k[i]
      BY <1>1, <1>2 DEF IsItems
    <3> QED BY <2>3, <3>1 DEF Placed
  <2> QED BY <2>2, <2>3
<1>4. CASE e[1] = "user_message"
  <2> DEFINE j == localEcho(k, e[3])
  <2>0. e[3] \in Prompts /\ u = userMessage(t, e[2], e[3])
    BY <1>4, SaidShape DEF applyEvent
  <2>1. CASE Waits(k, e[3]) # {}
    <3>1. j \in DOMAIN k /\ k[j].id = Local(e[3])
      BY <1>1, <2>0, <2>1, EchoPlace
    <3>2. u.items = [k EXCEPT ![j].x = None]
      BY <1>1, <2>0, <2>1 DEF userMessage, Tabs
    <3> HIDE DEF j, u
    <3>3. i = j
      <4>1. i # j => [k EXCEPT ![j].x = None][i] = k[i]
        OBVIOUS
      <4> QED BY <3>2, <4>1 DEF u
    <3> QED BY <1>4, <3>1, <3>3
  <2>2. CASE Waits(k, e[3]) = {} /\ e[2] \in t.seen
    BY <2>0, <2>2 DEF userMessage
  <2>3. CASE Waits(k, e[3]) = {} /\ e[2] \notin t.seen
    <3>1. u.items = Append(k, Item(e[2], None, FALSE))
      BY <1>1, <2>0, <2>3 DEF userMessage, Tabs
    <3>2. OneMore(k, Append(k, Item(e[2], None, FALSE)), e[2], None)
      <4>1. e[2] \in Ids /\ None \in Turns
        BY <1>4, SaidShape DEF Turns
      <4> QED BY <1>1, <4>1, AppendedItems
    <3>3. u.items[i] = k[i]
      BY <3>1, <3>2 DEF OneMore
    <3> QED BY <3>3
  <2> QED BY <2>1, <2>2, <2>3
<1>5. CASE e[1] = "assistant_message"
  <2>1. PICK n \in DOMAIN s.log : e[2] = Message(n)
    BY <1>5 DEF EventOK
  <2>2. u = assistantMessage(t, e[2])
    BY <1>5 DEF applyEvent
  <2>3. u.items \in {k, Placed(k, e[2], FALSE)}
    BY <1>1, <2>2 DEF assistantMessage, Tabs
  <2> QED BY <1>3, <2>1, <2>3
<1>6. CASE e[1] = "text_delta"
  <2>1. PICK n \in 1..(Len(s.log) + 1) : e[2] = Message(n)
    BY <1>6 DEF EventOK
  <2>2. u = textDelta(t, e[2])
    BY <1>6 DEF applyEvent
  <2>3. u.items = Placed(k, e[2], TRUE)
    BY <1>1, <2>2 DEF textDelta, Tabs
  <2> QED BY <1>3, <2>1, <2>3
<1>7. CASE e[1] = "turn_finished"
  <2>1. u.items = Settled(k)
    BY <1>1, <1>7 DEF applyEvent, Tabs
  <2>2. Settled(k)[i].x = k[i].x
    BY <1>2 DEF Settled, ItemSet
  <2> QED BY <2>1, <2>2
<1>8. CASE e[1] \in {"turn_started", "interaction_request", "interaction_resolved"}
  <2>1. u.items = k
    BY <1>1, <1>8 DEF applyEvent, Tabs
  <2> QED BY <2>1
<1> QED BY <1>4, <1>5, <1>6, <1>7, <1>8, SaidShape

LEMMA UserSingle ==
  ASSUME NEW s \in Servers, NEW c, NEW t, IsTab(t), NEW e \in Said, EventOK(s, e),
         e[1] = "user_message", SameId, OnceTaken(s, c), AllAccounted(s, c, t)
  PROVE  LET u == applyEvent(t, e) IN
         AllAccounted(s, c, u) /\ (Distinct(s, t.items) => Distinct(s, u.items))
<1> DEFINE u == applyEvent(t, e)
           x == e[3]
<1> SUFFICES AllAccounted(s, c, u) /\ (Distinct(s, t.items) => Distinct(s, u.items))
  OBVIOUS
<1>1. PICK n \in DOMAIN s.log : s.log[n].x = x /\ e[2] = Message(n)
  BY DEF EventOK
<1>2. n \in Nat /\ x \in Prompts /\ x # None /\ IsItems(t.items) /\ n <= Len(s.log)
  BY LogShape, SaidShape, StoreAssumption DEF IsTab
<1>3. /\ \A i \in DOMAIN t.items : u.items[i].x = None /\ t.items[i].x # None => t.items[i].id = Local(x)
      /\ \/ /\ Screen(t, u, u.items, t.seen \cup {e[2]}) /\ SameItems(t.items, u.items)
            /\ \E i \in DOMAIN t.items : t.items[i].id = Local(x) /\ u.items[i].x = None
         \/ e[2] \in t.seen /\ Waits(t.items, x) = {} /\ Screen(t, u, t.items, t.seen)
         \/ /\ e[2] \notin t.seen /\ Waits(t.items, x) = {}
            /\ Screen(t, u, u.items, t.seen \cup {e[2]}) /\ OneMore(t.items, u.items, e[2], None)
  BY UserMessages, EventEchoes
<1> HIDE DEF u
<1>4. CASE Screen(t, u, u.items, t.seen \cup {e[2]}) /\ SameItems(t.items, u.items)
  <2>1. u.seen = t.seen \cup {e[2]}
    BY <1>4 DEF Screen
  <2>2. Echoed(s, u.seen, x)
    BY <1>1, <2>1 DEF Echoed
  <2>3. \A i \in DOMAIN t.items : u.items[i].x = None =>
            \/ t.items[i].x = None
            \/ \E y \in Prompts : t.items[i].id = Local(y) /\ Echoed(s, u.seen, y)
    BY <1>2, <1>3, <2>2
  <2> QED BY <1>4, <2>1, <2>3, EchoesAccounted
<1>5. CASE Screen(t, u, t.items, t.seen)
  BY <1>5 DEF Screen, AllAccounted
<1>6. CASE /\ e[2] \notin t.seen /\ Waits(t.items, x) = {}
           /\ Screen(t, u, u.items, t.seen \cup {e[2]}) /\ OneMore(t.items, u.items, e[2], None)
  <2>1. u.seen = t.seen \cup {Message(n)} /\ Message(n) \notin t.seen
    BY <1>1, <1>6 DEF Screen
  <2>2. ASSUME NEW a, a.id = e[2], a.x = None PROVE Accounted(s, c, u.seen, a)
    BY <1>1, <1>2, <2>1, <2>2, Names DEF Accounted
  <2>3. ASSUME NEW j \in DOMAIN t.items PROVE t.items[j].id # Message(n) /\ t.items[j].id # Local(x)
    <3>1. Accounted(s, c, t.seen, t.items[j])
      BY DEF AllAccounted
    <3>2. t.items[j].id # Message(n)
      BY <1>1, <1>2, <2>1, <3>1 DEF Accounted
    <3>3. ASSUME t.items[j].id = Local(x) PROVE FALSE
      <4>1. t.items[j].x = None
        BY <1>2, <1>6, <3>3, NoEcho
      <4>2. PICK k \in DOMAIN s.log : s.log[k].x = x /\ Message(k) \in t.seen
        BY <1>2, <3>1, <3>3, <4>1 DEF Accounted, Echoed
      <4>3. k = n
        BY <1>1, <1>2, <4>2 DEF OnceTaken
      <4> QED BY <2>1, <4>2, <4>3
    <3> QED BY <3>2, <3>3
  <2>4. ASSUME NEW j \in DOMAIN t.items, NEW a, a.id = e[2]
        PROVE  ~Twice(s, t.items[j], a) /\ ~Twice(s, a, t.items[j])
    <3>1. a.id = Message(n) /\ t.items[j].id # Message(n) /\ t.items[j].id # Local(x)
      BY <1>1, <2>3, <2>4
    <3>2. \A k : Message(k) = Message(n) => k = n
      BY Names
    <3>3. \A y : Message(n) # Local(y)
      BY Names
    <3> QED BY <1>1, <3>1, <3>2, <3>3 DEF Twice
  <2>5. NewAccounted(s, c, u.seen, e[2], None) /\ NotYet(s, t.items, e[2])
    BY <2>2, <2>4 DEF NewAccounted, NotYet
  <2> QED BY <1>6, <2>1, <2>5, OneMoreAccounted
<1> QED BY <1>1, <1>3, <1>4, <1>5, <1>6

LEMMA EventSingle ==
  ASSUME NEW s \in Servers, NEW c, NEW t, IsTab(t), NEW e \in Said, EventOK(s, e),
         SameId, OnceTaken(s, c), AllAccounted(s, c, t)
  PROVE  LET u == applyEvent(t, e) IN
         AllAccounted(s, c, u) /\ (Distinct(s, t.items) => Distinct(s, u.items))
<1> DEFINE u == applyEvent(t, e)
<1> SUFFICES AllAccounted(s, c, u) /\ (Distinct(s, t.items) => Distinct(s, u.items))
  OBVIOUS
<1>1. CASE e[1] = "user_message"
  BY <1>1, UserSingle
<1>2. e[1] # "user_message" =>
         \A i \in DOMAIN t.items : u.items[i].x = None => t.items[i].x = None
  BY EventEchoes
<1>3. ASSUME e[1] # "user_message", SameItems(t.items, u.items),
             \A n : Message(n) \in t.seen => Message(n) \in u.seen
      PROVE  AllAccounted(s, c, u) /\ (Distinct(s, t.items) => Distinct(s, u.items))
  <2> HIDE DEF u
  <2> QED BY <1>2, <1>3, EchoesAccounted
<1>4. CASE IsLive(e)
  <2>1. u.seen = t.seen /\ SameItems(t.items, u.items)
    BY <1>4, LiveEvents
  <2>2. e[1] # "user_message"
    BY <1>4 DEF IsLive
  <2> HIDE DEF u
  <2> QED BY <1>3, <2>1, <2>2
\* A message of the agent that is not there yet.
<1>5. ASSUME NEW n \in Nat, e[2] = Message(n), OneMore(t.items, u.items, Message(n), None),
             ~Has(t.items, Message(n)), \A k : Message(k) \in t.seen => Message(k) \in u.seen,
             n <= Len(s.log) \/ (s.streams /\ n = Len(s.log) + 1),
             n \in DOMAIN s.log => s.log[n].x = None
      PROVE  AllAccounted(s, c, u) /\ (Distinct(s, t.items) => Distinct(s, u.items))
  <2> HIDE DEF u
  <2>1. ASSUME NEW a, a.id = Message(n), a.x = None PROVE Accounted(s, c, u.seen, a)
    BY <1>5, <2>1, Names DEF Accounted
  <2>2. ASSUME NEW j \in DOMAIN t.items, NEW a, a.id = Message(n)
        PROVE  ~Twice(s, t.items[j], a) /\ ~Twice(s, a, t.items[j])
    <3>1. t.items[j].id # Message(n)
      BY <1>5 DEF Has
    <3>2. \A k : Message(k) = Message(n) => k = n
      BY Names
    <3>3. \A y : Message(n) # Local(y)
      BY Names
    <3> QED BY <1>5, <2>2, <3>1, <3>2, <3>3 DEF Twice
  <2>3. NewAccounted(s, c, u.seen, Message(n), None) /\ NotYet(s, t.items, Message(n))
    BY <2>1, <2>2 DEF NewAccounted, NotYet
  <2> QED BY <1>5, <2>3, OneMoreAccounted
<1>6. CASE e[1] = "assistant_message"
  <2>1. PICK n \in DOMAIN s.log : s.log[n].x = None /\ e[2] = Message(n)
    BY <1>6 DEF EventOK
  <2>2. n \in Nat /\ n <= Len(s.log)
    BY LogShape
  <2>3. \/ e[2] \in t.seen /\ Screen(t, u, t.items, t.seen)
        \/ Screen(t, u, u.items, t.seen \cup {e[2]}) /\ SameItems(t.items, u.items) /\ Has(t.items, e[2])
        \/ /\ Screen(t, u, u.items, t.seen \cup {e[2]}) /\ OneMore(t.items, u.items, e[2], None)
           /\ ~Has(t.items, e[2])
    BY <1>6, <2>1, <2>2, AssistantMessages
  <2> HIDE DEF u
  <2>4. CASE Screen(t, u, t.items, t.seen)
    BY <2>4 DEF Screen, AllAccounted
  <2>5. CASE Screen(t, u, u.items, t.seen \cup {e[2]}) /\ SameItems(t.items, u.items)
    <3>1. u.seen = t.seen \cup {e[2]}
      BY <2>5 DEF Screen
    <3> QED BY <1>3, <1>6, <2>5, <3>1
  <2>6. CASE /\ Screen(t, u, u.items, t.seen \cup {e[2]}) /\ OneMore(t.items, u.items, e[2], None)
             /\ ~Has(t.items, e[2])
    <3>1. u.seen = t.seen \cup {e[2]}
      BY <2>6 DEF Screen
    <3> QED BY <1>5, <2>1, <2>2, <2>6, <3>1
  <2> QED BY <2>3, <2>4, <2>5, <2>6
<1>7. CASE e[1] = "text_delta"
  <2>1. PICK n \in 1..(Len(s.log) + 1) :
          e[2] = Message(n) /\ IF n \in DOMAIN s.log THEN s.log[n].x = None ELSE s.streams
    BY <1>7 DEF EventOK
  <2>2. n \in Nat /\ (n <= Len(s.log) \/ (s.streams /\ n = Len(s.log) + 1))
    BY <2>1, LogShape
  <2>3. /\ Screen(t, u, u.items, t.seen)
        /\ \/ SameItems(t.items, u.items) /\ Has(t.items, e[2])
           \/ OneMore(t.items, u.items, e[2], None) /\ ~Has(t.items, e[2])
    BY <1>7, <2>1, <2>2, TextDeltas
  <2> HIDE DEF u
  <2>4. u.seen = t.seen
    BY <2>3 DEF Screen
  <2>5. CASE SameItems(t.items, u.items)
    BY <1>3, <1>7, <2>4, <2>5
  <2>6. CASE OneMore(t.items, u.items, e[2], None) /\ ~Has(t.items, e[2])
    BY <1>5, <2>1, <2>2, <2>4, <2>6
  <2> QED BY <2>3, <2>5, <2>6
<1> QED BY <1>1, <1>4, <1>6, <1>7, SaidShape DEF IsLive

\* A page, none of which is there already.
Repeats(t, entries) ==
  \E e \in ToSet(entries) :
    \/ Has(t.items, e.id) /\ e.id \notin t.seen
    \/ e.x # None /\ e.id \notin t.seen /\ Has(t.items, Local(e.x))

LEMMA PageSingle ==
  ASSUME NEW s \in Servers, NEW c, NEW t, IsTab(t), NEW page \in Seq(EntrySet), PageOK(s, page),
         PageOnce(page), AllAccounted(s, c, t)
  PROVE  LET u == prependHistory(t, page) IN
         /\ AllAccounted(s, c, u)
         /\ Distinct(s, t.items) /\ ~Repeats(t, page) => Distinct(s, u.items)
<1> DEFINE u == prependHistory(t, page)
<1> SUFFICES /\ AllAccounted(s, c, u)
             /\ Distinct(s, t.items) /\ ~Repeats(t, page) => Distinct(s, u.items)
  OBVIOUS
<1>1. Screen(t, u, u.items, t.seen \cup PageIds(page)) /\ \E m \in Nat : \E q : InFront(t, page, u.items, m, q)
  BY Pages
<1> HIDE DEF u
<1>2. PICK m \in Nat : \E q : InFront(t, page, u.items, m, q)
  BY <1>1
<1>3. PICK q : InFront(t, page, u.items, m, q)
  BY <1>2
<1>4. /\ Len(t.items) \in Nat /\ DOMAIN t.items = 1..Len(t.items)
      /\ DOMAIN u.items = 1..(m + Len(t.items))
      /\ \A k \in 1..m : /\ q[k] \in DOMAIN page /\ page[q[k]].id \notin t.seen
                          /\ u.items[k].id = page[q[k]].id /\ u.items[k].x = None
      /\ \A j, k \in 1..m : q[j] = q[k] => j = k
      /\ \A j \in DOMAIN t.items : u.items[m + j] = t.items[j]
  BY <1>3 DEF InFront
<1>5. u.seen = t.seen \cup PageIds(page)
  BY <1>1 DEF Screen
<1>6. \A k \in 1..(m + Len(t.items)) : k \in 1..m \/ \E j \in DOMAIN t.items : k = m + j
  <2> TAKE k \in 1..(m + Len(t.items))
  <2>1. k > m => k - m \in 1..Len(t.items) /\ k = m + (k - m)
    BY <1>4
  <2> QED BY <1>4, <2>1
<1>7. ASSUME NEW k \in 1..m
      PROVE  \E n \in DOMAIN s.log : page[q[k]] = s.log[n] /\ u.items[k].id = Message(n) /\ Message(n) \in u.seen
  <2>1. PICK n \in DOMAIN s.log : page[q[k]] = s.log[n]
    BY <1>4, <1>7 DEF PageOK
  <2>2. s.log[n].id = Message(n)
    BY LogShape
  <2> QED BY <1>4, <1>5, <1>7, <2>1, <2>2 DEF PageIds
<1>8. ASSUME NEW i \in DOMAIN u.items PROVE Accounted(s, c, u.seen, u.items[i])
  <2>1. CASE i \in 1..m
    <3>1. PICK n \in DOMAIN s.log : u.items[i].id = Message(n) /\ Message(n) \in u.seen
      BY <1>7, <2>1
    <3>2. n <= Len(s.log)
      BY LogShape
    <3> QED BY <3>1, <3>2, Names DEF Accounted
  <2>2. ASSUME NEW j \in DOMAIN t.items, i = m + j PROVE Accounted(s, c, u.seen, u.items[i])
    <3> DEFINE a == t.items[j]
    <3>1. u.items[i] = a /\ Accounted(s, c, t.seen, a)
      BY <1>4, <2>2 DEF AllAccounted
    <3>2. \A n : Message(n) \in t.seen => Message(n) \in u.seen
      BY <1>5
    <3> HIDE DEF a
    <3>3. Accounted(s, c, u.seen, a)
      BY <3>1, <3>2, SeenAccounted
    <3> QED BY <3>1, <3>3
  <2> QED BY <1>4, <1>6, <2>1, <2>2
<1>9. ASSUME ~Repeats(t, page), NEW k \in 1..m, NEW j \in DOMAIN t.items
      PROVE  ~Twice(s, u.items[k], t.items[j]) /\ ~Twice(s, t.items[j], u.items[k])
  <2> DEFINE e == page[q[k]]
  <2>1. PICK n \in DOMAIN s.log : e = s.log[n] /\ u.items[k].id = Message(n)
    BY <1>7
  <2>2. e.id \notin t.seen /\ u.items[k].id = e.id /\ e \in ToSet(page)
    BY <1>4 DEF ToSet
  <2> HIDE DEF e
  <2>3. ~Has(t.items, e.id) /\ (e.x # None => ~Has(t.items, Local(e.x)))
    BY <1>9, <2>2 DEF Repeats
  <2>4. t.items[j].id # Message(n) /\ (s.log[n].x # None => t.items[j].id # Local(s.log[n].x))
    BY <2>1, <2>2, <2>3 DEF Has
  <2>5. \A i : Message(i) = Message(n) => i = n
    BY Names
  <2>6. \A y : Message(n) # Local(y)
    BY Names
  <2> QED BY <2>1, <2>4, <2>5, <2>6 DEF Twice
<1>10. ASSUME NEW j \in 1..m, NEW k \in 1..m, Twice(s, u.items[j], u.items[k]) PROVE j = k
  <2>1. PICK n \in DOMAIN s.log : u.items[k].id = Message(n)
    BY <1>7
  <2>2. u.items[j].id = u.items[k].id
    BY <1>10, <2>1, Names DEF Twice
  <2>3. q[j] = q[k]
    BY <1>4, <2>2 DEF PageOnce
  <2> QED BY <1>4, <2>3
<1>11. ASSUME Distinct(s, t.items), ~Repeats(t, page), NEW i \in DOMAIN u.items, NEW k \in DOMAIN u.items,
              Twice(s, u.items[i], u.items[k])
       PROVE  i = k
  <2>1. \A j \in DOMAIN t.items : u.items[m + j] = t.items[j]
    BY <1>4
  <2>2. CASE i \in 1..m /\ k \in 1..m
    BY <1>10, <1>11, <2>2
  <2>3. CASE i \in 1..m /\ \E j \in DOMAIN t.items : k = m + j
    BY <1>9, <1>11, <2>1, <2>3
  <2>4. CASE k \in 1..m /\ \E j \in DOMAIN t.items : i = m + j
    BY <1>9, <1>11, <2>1, <2>4
  <2>5. CASE (\E j \in DOMAIN t.items : i = m + j) /\ \E j \in DOMAIN t.items : k = m + j
    BY <1>11, <2>1, <2>5 DEF Distinct
  <2> QED BY <1>4, <1>6, <2>2, <2>3, <2>4, <2>5
<1> QED BY <1>8, <1>11 DEF AllAccounted, Distinct

-----------------------------------------------------------------------------
(* Step by step.                                                             *)

LEMMA ServerSingle ==
  ASSUME Typed, Typed', Single, LogKept(server, server'), UNCHANGED <<tab, fetch, h>>,
         \A n \in DOMAIN server'.log : n \in DOMAIN server.log \/ n = Len(server.log) + 1,
         OnceTaken(server', call'), \A x \in Prompts : call[x] # "new" => call'[x] # "new"
  PROVE  Single'
<1>1. server \in Servers /\ server' \in Servers /\ Grown(server, server')
  BY DEF Typed, ServerTyped, Grown
<1>2. ASSUME SameId, ~h.doubled PROVE Distinct(server', tab.items)
  BY <1>1, <1>2, DistinctStays DEF Single
<1>3. ASSUME SameId, NEW i \in DOMAIN tab.items PROVE Accounted(server', call', tab.seen, tab.items[i])
  <2> DEFINE a == tab.items[i]
             q == tab.seen
             c == call
             d == call'
  <2>1. Accounted(server, c, q, a) /\ \A x \in Prompts : c[x] # "new" => d[x] # "new"
    BY <1>3 DEF Single, AllAccounted
  <2> HIDE DEF a, q, c, d
  <2>2. Accounted(server', d, q, a)
    BY <1>1, <2>1, AccountedStays
  <2> QED BY <2>2 DEF a, q, d
<1> QED BY <1>2, <1>3 DEF Single, AllAccounted

LEMMA OnceStays ==
  ASSUME OnceTaken(server, call), server'.log = server.log,
         \A x \in Prompts : call[x] \in {"taken", "returned"} => call'[x] \in {"taken", "returned"},
         server \in Servers
  PROVE  OnceTaken(server', call')
<1>1. \A n \in DOMAIN server.log : server.log[n].x # None => server.log[n].x \in Prompts
  BY LogShape DEF Turns
<1> QED BY <1>1 DEF OnceTaken

LEMMA TakesSingle ==
  ASSUME Typed, Typed', Single, NEW x \in Prompts, ServerTakes(x)
  PROVE  Single'
<1> DEFINE L == Len(server.log)
<1>1. ServerTyped /\ server \in Servers /\ L \in Nat /\ call \in [Prompts -> Calls] /\ x # None
  BY LogShape, StoreAssumption DEF Typed, ServerTyped, CallTyped
<1>2. /\ MoreLog(x) /\ call[x] \in {"new", "sent", "cut"}
      /\ call' = [call EXCEPT ![x] = IF @ = "sent" THEN "taken" ELSE "returned"]
      /\ UNCHANGED <<tab, fetch, h>>
  BY <1>1, TakesStep DEF Acts
<1>3. LogKept(server, server')
  BY TakesTyped
<1>4. /\ \A n \in DOMAIN server'.log : n \in DOMAIN server.log \/ n = L + 1
      /\ \A n \in DOMAIN server.log : server'.log[n] = server.log[n]
      /\ server'.log[L + 1].x = x
  BY <1>1, <1>2, LogAppended DEF MoreLog, Turns, Entry
<1>5. call'[x] \in {"taken", "returned"} /\ \A y \in Prompts : y # x => call'[y] = call[y]
  BY <1>1, <1>2
<1>6. \A n \in DOMAIN server.log : server.log[n].x # None =>
        server.log[n].x \in Prompts /\ server.log[n].x # x /\ call[server.log[n].x] \in {"taken", "returned"}
  BY <1>1, <1>2, LogShape DEF Single, OnceTaken, Turns
<1> HIDE DEF L
<1>7. OnceTaken(server', call')
  <2>1. \A n \in DOMAIN server'.log : server'.log[n].x # None => call'[server'.log[n].x] \in {"taken", "returned"}
    BY <1>4, <1>5, <1>6
  <2>2. ASSUME NEW n \in DOMAIN server'.log, NEW k \in DOMAIN server'.log,
               server'.log[n].x # None, server'.log[n].x = server'.log[k].x
        PROVE  n = k
    <3>1. CASE n \in DOMAIN server.log /\ k \in DOMAIN server.log
      BY <1>4, <2>2, <3>1 DEF Single, OnceTaken
    <3>2. CASE n \notin DOMAIN server.log \/ k \notin DOMAIN server.log
      BY <1>1, <1>4, <1>6, <2>2, <3>2
    <3> QED BY <3>1, <3>2
  <2> QED BY <2>1, <2>2 DEF OnceTaken
<1>8. \A y \in Prompts : call[y] # "new" => call'[y] # "new"
  BY <1>5
<1> QED BY <1>2, <1>3, <1>4, <1>7, <1>8, ServerSingle DEF L

LEMMA ServerStepSingle ==
  ASSUME Typed, Typed', Single, ServerStep
  PROVE  Single'
<1> DEFINE L == Len(server.log)
<1>1. ServerTyped /\ server \in Servers /\ L \in Nat
  BY LogShape DEF Typed, ServerTyped
<1>2. LogKept(server, server')
  BY ServerStepTyped
<1>3. ASSUME SameLog, UNCHANGED <<tab, fetch, h>>, call' = call PROVE Single'
  <2>1. OnceTaken(server', call')
    BY <1>1, <1>3, OnceStays DEF Single, SameLog
  <2>2. \A n \in DOMAIN server'.log : n \in DOMAIN server.log
    BY <1>3 DEF SameLog
  <2> QED BY <1>2, <1>3, <2>1, <2>2, ServerSingle
<1>4. CASE ServerStreams
  BY <1>1, <1>3, <1>4, StreamsStep DEF Acts
<1>5. CASE ServerSettles
  <2>1. MoreLog(None) /\ UNCHANGED <<tab, fetch, h>> /\ call' = call
    BY <1>1, <1>5, SettlesStep DEF Acts
  <2>2. /\ \A n \in DOMAIN server'.log : n \in DOMAIN server.log \/ n = L + 1
        /\ \A n \in DOMAIN server.log : server'.log[n] = server.log[n]
        /\ server'.log[L + 1].x = None
    BY <1>1, <2>1, LogAppended DEF MoreLog, Turns, Entry
  <2> HIDE DEF L
  <2>3. OnceTaken(server', call')
    BY <2>1, <2>2 DEF Single, OnceTaken
  <2> QED BY <1>2, <2>1, <2>2, <2>3, ServerSingle DEF L
<1>6. CASE ServerAsks
  BY <1>1, <1>3, <1>6, AsksStep DEF Acts
<1>7. CASE ServerFinishes
  BY <1>1, <1>3, <1>7, FinishesStep DEF Acts
<1>8. ASSUME NEW a \in Asks, ServerResolves(a) PROVE Single'
  BY <1>1, <1>3, <1>8, ResolvesStep DEF Acts
<1> QED BY <1>4, <1>5, <1>6, <1>7, <1>8 DEF ServerStep

\* The server and the prompts are left alone.
LEMMA ScreenSingle ==
  ASSUME Single, server' = server, call' = call,
         \A r \in Fetches : PageOnce(fetch'[r].page),
         SameId => /\ AllAccounted(server, call, tab')
                   /\ ~h'.doubled => Distinct(server, tab'.items)
  PROVE  Single'
BY DEF Single

LEMMA SameScreen ==
  ASSUME Single, server' = server, call' = call, tab'.items = tab.items, tab'.seen = tab.seen,
         h'.doubled = h.doubled, \A r \in Fetches : PageOnce(fetch'[r].page)
  PROVE  Single'
BY DEF Single, AllAccounted

LEMMA EmptyScreen ==
  ASSUME Single, server' = server, call' = call, tab'.items = <<>>,
         \A r \in Fetches : PageOnce(fetch'[r].page)
  PROVE  Single'
BY DEF Single, AllAccounted, Distinct

LEMMA NoPage == PageOnce(NoFetch.page)
BY EmptyFetch DEF PageOnce

\* One request changes.
LEMMA RequestOnce ==
  ASSUME FetchTyped, Single, NEW r \in Fetches, NEW f, fetch' = [fetch EXCEPT ![r] = f], PageOnce(f.page)
  PROVE  \A q \in Fetches : PageOnce(fetch'[q].page)
BY DEF FetchTyped, Single

LEMMA PromptsSingle ==
  ASSUME Typed, Typed', Single, NEW x \in Prompts,
         prompt(x) \/ ServerRefuses(x) \/ \E ok \in BOOLEAN : PromptReturns(x, ok)
  PROVE  Single'
<1>1. /\ server \in Servers /\ IsTab(tab) /\ IsItems(tab.items) /\ call \in [Prompts -> Calls]
      /\ FetchTyped /\ Grown(server, server) /\ x # None
  BY SameGrown, StoreAssumption DEF Typed, ServerTyped, TabTyped, CallTyped, IsTab
<1>2. ASSUME NEW b \in Calls \ {"new"}, call[x] \notin {"taken", "returned"} \/ b = "returned",
             call' = [call EXCEPT ![x] = b], server' = server
      PROVE  OnceTaken(server', call') /\ \A y \in Prompts : call[y] # "new" => call'[y] # "new"
  <2>1. \A y \in Prompts : call'[y] = IF y = x THEN b ELSE call[y]
    BY <1>1, <1>2
  <2>2. \A y \in Prompts : call[y] \in {"taken", "returned"} => call'[y] \in {"taken", "returned"}
    BY <1>2, <2>1
  <2>3. OnceTaken(server', call')
    BY <1>1, <1>2, <2>2, OnceStays DEF Single
  <2> QED BY <1>2, <2>1, <2>3
\* The tab with the prompts as they are then.
<1>3. ASSUME SameId, \A y \in Prompts : call[y] # "new" => call'[y] # "new"
      PROVE  AllAccounted(server, call', tab)
  <2> SUFFICES ASSUME NEW i \in DOMAIN tab.items PROVE Accounted(server, call', tab.seen, tab.items[i])
    BY DEF AllAccounted
  <2>1. Accounted(server, call, tab.seen, tab.items[i])
    BY <1>3 DEF Single, AllAccounted
  <2> QED BY <1>3, <2>1 DEF Accounted
<1>4. CASE prompt(x)
  <2>1. /\ call[x] = "new" /\ call' = [call EXCEPT ![x] = "sent"]
        /\ tab'.seen = tab.seen \cup {Local(x)} /\ OneMore(tab.items, tab'.items, Local(x), x)
        /\ UNCHANGED <<server, wire, fetch, h>>
    BY <1>4, promptStep
  <2>2. OnceTaken(server', call') /\ \A y \in Prompts : call[y] # "new" => call'[y] # "new"
    BY <1>2, <2>1 DEF Calls
  <2>3. ASSUME SameId
        PROVE  /\ AllAccounted(server, call', tab')
               /\ Distinct(server, tab.items) => Distinct(server, tab'.items)
    <3>1. AllAccounted(server, call', tab)
      BY <1>3, <2>2, <2>3
    <3>2. call'[x] # "new"
      BY <1>1, <2>1
    <3>3. NewAccounted(server, call', tab'.seen, Local(x), x)
      BY <1>1, <3>2, Names DEF NewAccounted, Accounted
    <3>4. ASSUME NEW j \in DOMAIN tab.items, NEW a, a.id = Local(x)
          PROVE  ~Twice(server, tab.items[j], a) /\ ~Twice(server, a, tab.items[j])
      <4>1. tab.items[j].id # Local(x)
        BY <2>1, <2>3 DEF Single, AllAccounted, Accounted
      <4>2. \A n \in DOMAIN server.log : server.log[n].x # None => server.log[n].x # x
        BY <2>1 DEF Single, OnceTaken
      <4>3. \A n : Message(n) # Local(x)
        BY Names
      <4>4. \A y : Local(y) = Local(x) => y = x
        BY Names
      <4> QED BY <3>4, <4>1, <4>2, <4>3, <4>4 DEF Twice
    <3>5. NotYet(server, tab.items, Local(x))
      BY <3>4 DEF NotYet
    <3>6. \A n : Message(n) \in tab.seen => Message(n) \in tab'.seen
      BY <2>1
    <3> QED BY <1>1, <2>1, <3>1, <3>3, <3>5, <3>6, OneMoreAccounted
  <2> QED BY <2>1, <2>2, <2>3 DEF Single
<1>5. CASE ServerRefuses(x)
  <2>1. /\ call[x] = "sent" /\ call' = [call EXCEPT ![x] = "refused"]
        /\ UNCHANGED <<server, wire, tab, fetch, h>>
    BY <1>5 DEF ServerRefuses
  <2>2. OnceTaken(server', call') /\ \A y \in Prompts : call[y] # "new" => call'[y] # "new"
    BY <1>2, <2>1 DEF Calls
  <2> QED BY <1>3, <2>1, <2>2 DEF Single
<1>6. ASSUME NEW ok \in BOOLEAN, PromptReturns(x, ok) PROVE Single'
  <2>1. /\ call[x] \in {"sent", "taken", "refused"}
        /\ call' = [call EXCEPT ![x] = IF @ = "sent" THEN "cut" ELSE "returned"]
        /\ \/ tab'.items = tab.items /\ tab'.seen = tab.seen
           \/ /\ tab'.seen = tab.seen \ {Local(x)}
              /\ \E i : OneLess(tab.items, tab'.items, i)
        /\ UNCHANGED <<server, wire, fetch, h>>
    BY <1>6, PromptReturnsStep
  <2>2. OnceTaken(server', call') /\ \A y \in Prompts : call[y] # "new" => call'[y] # "new"
    <3>1. CASE call[x] = "sent"
      BY <1>2, <2>1, <3>1 DEF Calls
    <3>2. CASE call[x] # "sent"
      BY <1>2, <2>1, <3>2 DEF Calls
    <3> QED BY <3>1, <3>2
  <2>3. CASE tab'.items = tab.items /\ tab'.seen = tab.seen
    BY <1>3, <2>1, <2>2, <2>3 DEF Single, AllAccounted
  <2>4. CASE tab'.seen = tab.seen \ {Local(x)} /\ \E i : OneLess(tab.items, tab'.items, i)
    <3>1. PICK p : /\ \A k \in DOMAIN tab'.items : p[k] \in DOMAIN tab.items /\ tab'.items[k] = tab.items[p[k]]
                   /\ \A j, k \in DOMAIN tab'.items : p[j] = p[k] => j = k
      BY <2>4 DEF OneLess
    <3>2. \A n : Message(n) \in tab.seen => Message(n) \in tab'.seen
      BY <2>4, Names
    <3>3. ASSUME SameId, NEW k \in DOMAIN tab'.items
          PROVE  Accounted(server, call', tab'.seen, tab'.items[k])
      <4>1. Accounted(server, call', tab.seen, tab.items[p[k]]) /\ tab'.items[k] = tab.items[p[k]]
        BY <1>3, <2>2, <3>1, <3>3 DEF AllAccounted
      <4> QED BY <3>2, <4>1, SeenAccounted
    <3>4. ASSUME Distinct(server, tab.items) PROVE Distinct(server, tab'.items)
      BY <3>1, <3>4 DEF Distinct
    <3> QED BY <2>1, <2>2, <3>3, <3>4 DEF Single, AllAccounted
  <2> QED BY <2>1, <2>3, <2>4
<1> QED BY <1>4, <1>5, <1>6

\* A page is taken.
LEMMA TakenPage ==
  ASSUME Typed, Single, NEW r \in Fetches, server' = server, call' = call,
         tab'.items = prependHistory(tab, fetch[r].page).items,
         tab'.seen = prependHistory(tab, fetch[r].page).seen,
         h'.doubled = (h.doubled \/ Doubles(fetch[r].page)),
         \A q \in Fetches : PageOnce(fetch'[q].page)
  PROVE  Single'
<1> DEFINE page == fetch[r].page
           u == prependHistory(tab, page)
<1>1. server \in Servers /\ IsTab(tab) /\ page \in Seq(EntrySet) /\ PageOK(server, page) /\ PageOnce(page)
  BY FetchShape DEF Typed, ServerTyped, TabTyped, Single
<1>2. Doubles(page) <=> Repeats(tab, page)
  BY DEF Doubles, Repeats
<1> HIDE DEF page
<1>3. SameId => /\ AllAccounted(server, call, u)
                /\ Distinct(server, tab.items) /\ ~Repeats(tab, page) => Distinct(server, u.items)
  BY <1>1, PageSingle DEF Single
<1>4. tab'.items = u.items /\ tab'.seen = u.seen /\ h'.doubled = (h.doubled \/ Doubles(page))
  BY DEF page
<1> HIDE DEF u
<1> QED BY <1>2, <1>3, <1>4 DEF Single, AllAccounted

LEMMA NextSingle == Typed /\ Typed' /\ Single /\ [Next]_vars => Single'
<1> SUFFICES ASSUME Typed, Typed', Single, [Next]_vars PROVE Single'
  OBVIOUS
<1>0. FetchTyped /\ \A r \in Fetches : PageOnce(fetch[r].page)
  BY DEF Typed, Single
<1>1. CASE UNCHANGED vars
  BY <1>0, <1>1, SameScreen DEF vars
<1>2. ASSUME NEW x \in Prompts, ServerTakes(x) PROVE Single'
  BY <1>2, TakesSingle
<1>3. ASSUME NEW x \in Prompts,
             prompt(x) \/ ServerRefuses(x) \/ \E ok \in BOOLEAN : PromptReturns(x, ok)
      PROVE  Single'
  BY <1>3, PromptsSingle
<1>4. CASE ServerStep
  BY <1>4, ServerStepSingle
<1>5. CASE open
  <2>1. tab' = Blank /\ UNCHANGED <<server, call, fetch>>
    BY <1>5 DEF open
  <2> QED BY <1>0, <2>1, BlankTab, EmptyScreen
<1>6. CASE close \/ StreamDrops
  <2>1. Disconnected /\ server' = server /\ call' = call
    BY <1>6 DEF close, StreamDrops
  <2>2. /\ \A r \in Fetches : fetch'[r] = [fetch[r] EXCEPT !.fresh = FALSE]
        /\ h'.doubled = h.doubled
    BY <2>1, DisconnectedStep
  <2>3. \A r \in Fetches : PageOnce(fetch'[r].page)
    <3> TAKE r \in Fetches
    <3>1. fetch[r] \in FetchSet
      BY <1>0, FetchShape
    <3>2. fetch'[r].page = fetch[r].page
      BY <2>2, <3>1 DEF FetchSet
    <3> QED BY <1>0, <3>2
  <2>4. CASE close
    <3>1. tab' = [Blank EXCEPT !.id = "other"]
      BY <2>4 DEF close
    <3>2. tab'.items = <<>>
      BY <3>1, BlankTab
    <3> QED BY <2>1, <2>3, <3>2, EmptyScreen
  <2>5. CASE StreamDrops
    <3>1. tab' = tab
      BY <2>5 DEF StreamDrops
    <3> QED BY <2>1, <2>2, <2>3, <3>1, SameScreen
  <2> QED BY <1>6, <2>4, <2>5
<1>7. CASE onEvent
  <2> DEFINE e == Head(wire.events)
  <2>1. /\ e \in Said /\ EventOK(server, e) /\ tab' = applyEvent(tab, e)
        /\ UNCHANGED <<server, call, fetch, h>>
    BY <1>7, onEventStep
  <2> HIDE DEF e
  <2>2. server \in Servers /\ IsTab(tab)
    BY DEF Typed, ServerTyped, TabTyped
  <2>3. SameId => /\ AllAccounted(server, call, tab')
                  /\ Distinct(server, tab.items) => Distinct(server, tab'.items)
    BY <2>1, <2>2, EventSingle DEF Single
  <2> QED BY <1>0, <2>1, <2>3 DEF Single
<1>8. ASSUME NEW r \in Fetches, onOpen(r) PROVE Single'
  <2> DEFINE f == [NoFetch EXCEPT !.at = "sent", !.fresh = TRUE]
  <2>1. /\ fetch' = [fetch EXCEPT ![r] = f] /\ h' = [h EXCEPT !.fetches = @ + 1]
        /\ UNCHANGED <<server, tab, call>>
    BY <1>8, onOpenStep DEF onOpen
  <2>2. PageOnce(f.page)
    BY NoPage DEF NoFetch
  <2> HIDE DEF f
  <2>3. h'.doubled = h.doubled
    BY <2>1 DEF Typed, HistoryTyped
  <2> QED BY <1>0, <2>1, <2>2, <2>3, RequestOnce, SameScreen
<1>9. ASSUME NEW r \in Fetches, ReadDetail(r) PROVE Single'
  <2> DEFINE f == [fetch[r] EXCEPT !.detail = <<server.pending, server.turn, server.ver>>]
  <2>1. /\ fetch' = [fetch EXCEPT ![r] = f] /\ f.page = fetch[r].page
        /\ UNCHANGED <<server, wire, tab, call, h>>
    BY <1>9, ReadDetailStep
  <2> HIDE DEF f
  <2> QED BY <1>0, <2>1, RequestOnce, SameScreen
<1>10. ASSUME NEW r \in Fetches, ReadPage(r) PROVE Single'
  <2> DEFINE last == IF fetch[r].older THEN fetch[r].before ELSE Len(server.log)
             f == [fetch[r] EXCEPT !.at = "read", !.page = Page(last), !.before = Left(last)]
  <2>1. /\ last \in Nat /\ last <= Len(server.log)
        /\ fetch' = [fetch EXCEPT ![r] = f] /\ f.page = Page(last)
        /\ UNCHANGED <<server, wire, tab, call, h>>
    BY <1>10, ReadPageStep
  <2> HIDE DEF f, last
  <2>2. server \in Servers
    BY DEF Typed, ServerTyped
  <2>3. PageOnce(f.page)
    BY <2>1, <2>2, PageShape DEF PageOnce
  <2> QED BY <1>0, <2>1, <2>3, RequestOnce, SameScreen
<1>11. ASSUME NEW r \in Fetches, resync(r) PROVE Single'
  <2>1. CASE tab.id = "this"
    <3>1. /\ tab'.items = prependHistory(tab, fetch[r].page).items
          /\ tab'.seen = prependHistory(tab, fetch[r].page).seen
          /\ h'.doubled = (h.doubled \/ Doubles(fetch[r].page))
          /\ \A q \in Fetches : fetch'[q] = IF q = r THEN NoFetch
                                 ELSE [fetch[q] EXCEPT !.fresh = @ /\ ~fetch[q].older]
          /\ server' = server /\ call' = call
      BY <1>11, <2>1, resyncStep DEF resync
    <3>2. \A q \in Fetches : PageOnce(fetch'[q].page)
      <4> TAKE q \in Fetches
      <4>1. CASE q = r
        BY <3>1, <4>1, NoPage
      <4>2. CASE q # r
        <5>1. fetch[q] \in FetchSet
          BY <1>0, FetchShape
        <5>2. fetch'[q].page = fetch[q].page
          BY <3>1, <4>2, <5>1 DEF FetchSet
        <5> QED BY <1>0, <5>2
      <4> QED BY <4>1, <4>2
    <3> QED BY <3>1, <3>2, TakenPage
  <2>2. CASE tab.id # "this"
    <3>1. Done(r) /\ UNCHANGED <<server, call, tab, h, wire>>
      BY <1>11, <2>2 DEF resync
    <3> QED BY <1>0, <3>1, NoPage, RequestOnce, SameScreen DEF Done
  <2> QED BY <2>1, <2>2
<1>12. ASSUME NEW r \in Fetches, FetchFails(r) PROVE Single'
  <2>1. /\ Done(r) /\ UNCHANGED <<server, wire, call, h>>
        /\ tab'.items = tab.items /\ tab'.seen = tab.seen
    BY <1>12, FetchFailsStep
  <2> QED BY <1>0, <2>1, NoPage, RequestOnce, SameScreen DEF Done
<1>13. ASSUME NEW r \in Fetches, loadOlder(r) PROVE Single'
  <2> DEFINE f == [NoFetch EXCEPT !.at = "sent", !.older = TRUE, !.fresh = TRUE,
                                  !.before = tab.cursor]
  <2>1. /\ fetch' = [fetch EXCEPT ![r] = f] /\ f.page = <<>>
        /\ h' = [h EXCEPT !.fetches = @ + 1]
        /\ UNCHANGED <<server, wire, tab, call>>
    BY <1>13, loadOlderStep
  <2> HIDE DEF f
  <2>2. PageOnce(f.page) /\ h'.doubled = h.doubled
    BY <2>1 DEF PageOnce, Typed, HistoryTyped
  <2> QED BY <1>0, <2>1, <2>2, RequestOnce, SameScreen
<1>14. ASSUME NEW r \in Fetches, OlderLoaded(r) PROVE Single'
  <2>1. CASE tab.id = "this"
    <3>1. /\ tab'.items = prependHistory(tab, fetch[r].page).items
          /\ tab'.seen = prependHistory(tab, fetch[r].page).seen
          /\ h'.doubled = (h.doubled \/ Doubles(fetch[r].page))
          /\ Done(r) /\ server' = server /\ call' = call
      BY <1>14, <2>1, OlderLoadedStep
    <3>2. \A q \in Fetches : PageOnce(fetch'[q].page)
      BY <1>0, <3>1, NoPage, RequestOnce DEF Done
    <3> QED BY <3>1, <3>2, TakenPage
  <2>2. CASE tab.id # "this"
    <3>1. Done(r) /\ UNCHANGED <<server, wire, call, tab, h>>
      BY <1>14, <2>2 DEF OlderLoaded
    <3> QED BY <1>0, <3>1, NoPage, RequestOnce, SameScreen DEF Done
  <2> QED BY <2>1, <2>2
<1> QED BY <1>1, <1>2, <1>3, <1>4, <1>5, <1>6, <1>7, <1>8, <1>9, <1>10, <1>11, <1>12, <1>13,
           <1>14 DEF Next

\* Distinct items show an entry at one place at most.
LEMMA SingleShows == Typed /\ Single => NoDoubles
<1> SUFFICES ASSUME Typed, Single, SameId, ~h.doubled, NEW n \in DOMAIN server.log
             PROVE  Cardinality(Shows(tab.items, server.log[n])) <= 1
  BY DEF NoDoubles
<1> DEFINE e == server.log[n]
           S == Shows(tab.items, e)
<1>1. e.id = Message(n) /\ Distinct(server, tab.items)
  BY LogShape DEF Typed, ServerTyped, Single
<1>2. ASSUME NEW i \in S, NEW j \in S PROVE i = j
  <2>1. /\ i \in DOMAIN tab.items /\ j \in DOMAIN tab.items
        /\ tab.items[i].id = Message(n) \/ (e.x # None /\ tab.items[i].id = Local(e.x))
        /\ tab.items[j].id = Message(n) \/ (e.x # None /\ tab.items[j].id = Local(e.x))
    BY <1>1, <1>2 DEF Shows
  <2>2. Twice(server, tab.items[i], tab.items[j]) \/ Twice(server, tab.items[j], tab.items[i])
    BY <2>1 DEF Twice
  <2> QED BY <1>1, <2>1, <2>2 DEF Distinct
<1> HIDE DEF S
<1>3. CASE S = {}
  <2>1. Cardinality({}) = 0
    BY FS_EmptySet
  <2> QED BY <1>3, <2>1 DEF S
<1>4. ASSUME NEW i \in S PROVE Cardinality(S) <= 1
  <2>1. S = {i}
    BY <1>2, <1>4
  <2> QED BY <2>1, FS_Singleton
<1> QED BY <1>3, <1>4 DEF S

\* What the server has is on screen, each entry once, whatever the order in which
\* the stream, the resyncs, the older pages and the owner's own copy of a prompt
\* arrive (thread.ts: resync, loadOlder, prompt; transcript.ts: prependHistory,
\* localPrompt and the reducer of events), unless a page repeats what streams
\* or waits for its echo, or an answer crosses a loss of the stream.
THEOREM EachIsShownOnce == Spec => []EachOnce
<1>1. Init => Typed /\ Single
  <2> SUFFICES ASSUME Init PROVE Single
    BY InitTyped
  <2>1. tab.items = <<>> /\ server.log = <<>>
    BY BlankTab DEF Init
  <2>2. \A r \in Fetches : fetch[r] = NoFetch
    BY DEF Init
  <2>3. OnceTaken(server, call)
    BY <2>1 DEF OnceTaken
  <2> QED BY <2>1, <2>2, <2>3, NoPage DEF Single, AllAccounted, Distinct
<1>2. (Typed /\ Single) /\ [Next]_vars => (Typed /\ Single)'
  BY NextTyped, NextSingle
<1>3. Typed /\ Single => NoDoubles
  BY SingleShows
<1>4. Spec => []NoDoubles
  BY <1>1, <1>2, <1>3, PTL DEF Spec
<1>5. NothingMissing /\ NoDoubles => EachOnce
  BY DEF EachOnce
<1> QED BY <1>4, <1>5, NothingIsMissing, PTL
=============================================================================
