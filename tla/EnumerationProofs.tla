------------------------- MODULE EnumerationProofs -------------------------
(***************************************************************************)
(* That InOrder, Ascending and Pick enumerate: every element has one       *)
(* place, places are in order, and what is put behind leaves the places    *)
(* before it alone.                                                        *)
(***************************************************************************)
EXTENDS Enumeration, FiniteSetTheorems, FunctionTheorems, TLAPS

\* le orders S totally.
Orders(le, S) ==
    /\ \A x \in S : <<x, x>> \in le
    /\ \A x, y \in S : <<x, y>> \in le \/ <<y, x>> \in le
    /\ \A x, y \in S : <<x, y>> \in le /\ <<y, x>> \in le => x = y
    /\ \A x, y, z \in S : <<x, y>> \in le /\ <<y, z>> \in le => <<x, z>> \in le

\* A place is a number from 1 on, and a later element has a higher one.
LEMMA Places ==
  ASSUME NEW S, IsFiniteSet(S), NEW le, Orders(le, S)
  PROVE  /\ Cardinality(S) \in Nat
         /\ \A x \in S : Place(x, S, le) \in 1..Cardinality(S)
         /\ \A x, y \in S : x # y /\ <<x, y>> \in le => Place(x, S, le) < Place(y, S, le)
<1> DEFINE UpTo(x) == {y \in S : <<y, x>> \in le}
<1>1. Cardinality(S) \in Nat
  BY FS_CardinalityType
<1>2. ASSUME NEW x \in S
      PROVE  /\ IsFiniteSet(UpTo(x)) /\ Cardinality(UpTo(x)) \in Nat
             /\ Cardinality(UpTo(x)) <= Cardinality(S)
             /\ x \in UpTo(x) /\ Cardinality(UpTo(x)) # 0
  <2>1. UpTo(x) \in SUBSET S /\ x \in UpTo(x)
    BY DEF Orders
  <2> HIDE DEF UpTo
  <2>2. IsFiniteSet(UpTo(x)) /\ Cardinality(UpTo(x)) <= Cardinality(S)
    BY <2>1, FS_Subset
  <2>3. Cardinality(UpTo(x)) \in Nat /\ Cardinality(UpTo(x)) # 0
    BY <2>1, <2>2, FS_CardinalityType, FS_EmptySet
  <2> QED
    BY <2>1, <2>2, <2>3
<1>3. ASSUME NEW x \in S, NEW y \in S, x # y, <<x, y>> \in le
      PROVE  Cardinality(UpTo(x)) < Cardinality(UpTo(y))
  <2>1. UpTo(x) \in SUBSET UpTo(y) /\ y \notin UpTo(x) /\ y \in UpTo(y)
    BY <1>3 DEF Orders
  <2>2. IsFiniteSet(UpTo(y)) /\ Cardinality(UpTo(x)) \in Nat /\ Cardinality(UpTo(y)) \in Nat
    BY <1>2
  <2> HIDE DEF UpTo
  <2>3. /\ Cardinality(UpTo(x)) <= Cardinality(UpTo(y))
        /\ Cardinality(UpTo(x)) # Cardinality(UpTo(y))
    BY <2>1, <2>2, FS_Subset
  <2> QED
    BY <2>2, <2>3
<1>4. \A x : Place(x, S, le) = Cardinality(UpTo(x))
  BY DEF Place
<1> HIDE DEF UpTo
<1>5. ASSUME NEW x \in S PROVE Place(x, S, le) \in 1..Cardinality(S)
  BY <1>1, <1>2, <1>4
<1> QED
  BY <1>1, <1>3, <1>4, <1>5

\* Every place is somebody's, and nobody else's.
LEMMA PlacesFill ==
  ASSUME NEW S, IsFiniteSet(S), NEW le, Orders(le, S)
  PROVE  /\ \A x, y \in S : Place(x, S, le) = Place(y, S, le) => x = y
         /\ \A k \in 1..Cardinality(S) : \E x \in S : Place(x, S, le) = k
<1> DEFINE n == Cardinality(S)
           place == [x \in S |-> Place(x, S, le)]
<1>1. n \in Nat /\ \A x \in S : Place(x, S, le) \in 1..n
  BY Places
<1>2. ASSUME NEW x \in S, NEW y \in S, Place(x, S, le) = Place(y, S, le)
      PROVE  x = y
  <2>1. Place(x, S, le) \in Int
    BY <1>1
  <2>2. <<x, y>> \in le \/ <<y, x>> \in le
    BY DEF Orders
  <2> QED
    BY <1>2, <2>1, <2>2, Places
<1>3. place \in Injection(S, 1..n)
  BY <1>1, <1>2 DEF Injection, IsInjective
<1>4. IsFiniteSet(1..n) /\ Cardinality(1..n) = n
  BY <1>1, FS_Interval
<1>5. place \in Surjection(S, 1..n)
  BY <1>3, <1>4, FS_Injection
<1>6. \A k \in 1..n : \E x \in S : place[x] = k
  BY <1>5 DEF Surjection
<1> QED
  BY <1>2, <1>6

\* InOrder goes through S once, from the first to the last.
LEMMA InOrderEnumerates ==
  ASSUME NEW S, IsFiniteSet(S), NEW le, Orders(le, S)
  PROVE  LET s == InOrder(S, le) IN
         /\ s \in Seq(S) /\ Len(s) = Cardinality(S)
         /\ Cardinality(S) \in Nat /\ DOMAIN s = 1..Cardinality(S)
         /\ \A k \in DOMAIN s : s[k] \in S /\ Place(s[k], S, le) = k
         /\ \A x \in S : Place(x, S, le) \in DOMAIN s /\ s[Place(x, S, le)] = x
         /\ \A j, k \in DOMAIN s : j < k => s[j] # s[k] /\ <<s[j], s[k]>> \in le
<1> DEFINE n == Cardinality(S)
           s == InOrder(S, le)
<1>1. n \in Nat /\ DOMAIN s = 1..n
  BY Places DEF InOrder
<1>2. ASSUME NEW k \in 1..n
      PROVE  s[k] \in S /\ Place(s[k], S, le) = k
  <2>1. \E x \in S : Place(x, S, le) = k
    BY PlacesFill
  <2>2. s[k] = CHOOSE x \in S : Place(x, S, le) = k
    BY DEF InOrder
  <2> QED
    BY <2>1, <2>2
<1>3. ASSUME NEW x \in S
      PROVE  Place(x, S, le) \in 1..n /\ s[Place(x, S, le)] = x
  BY <1>2, Places, PlacesFill
<1>4. s \in Seq(S) /\ Len(s) = n
  <2>1. s \in [1..n -> S]
    <3>1. s = [k \in 1..n |-> CHOOSE x \in S : Place(x, S, le) = k]
      BY DEF InOrder
    <3> QED
      BY <1>1, <1>2, <3>1, Zenon
  <2> HIDE DEF s, n
  <2> QED
    BY <1>1, <2>1
<1>5. ASSUME NEW j \in 1..n, NEW k \in 1..n, j < k
      PROVE  s[j] # s[k] /\ <<s[j], s[k]>> \in le
  <2>1. s[j] \in S /\ s[k] \in S /\ Place(s[j], S, le) = j /\ Place(s[k], S, le) = k
    BY <1>2
  <2> HIDE DEF s
  <2>2. s[j] # s[k]
    BY <1>5, <2>1
  <2>3. ~ (<<s[k], s[j]>> \in le)
    BY <1>5, <2>1, <2>2, Places
  <2> QED
    BY <2>1, <2>2, <2>3 DEF Orders
<1> QED
  BY <1>1, <1>2, <1>3, <1>4, <1>5

LEMMA NumbersOrdered ==
  ASSUME NEW S \in SUBSET Int
  PROVE  /\ Orders(ByValue, S)
         /\ \A x, y \in S : <<x, y>> \in ByValue <=> x <= y
<1>1. \A x, y \in S : <<x, y>> \in ByValue <=> x <= y
  BY DEF ByValue
<1> QED
  BY <1>1 DEF Orders

LEMMA AscendingEnumerates ==
  ASSUME NEW S \in SUBSET Int, IsFiniteSet(S)
  PROVE  LET s == Ascending(S) IN
         /\ s \in Seq(S) /\ Len(s) = Cardinality(S)
         /\ Cardinality(S) \in Nat /\ DOMAIN s = 1..Cardinality(S)
         /\ \A x \in S : \E k \in DOMAIN s : s[k] = x
         /\ \A j, k \in DOMAIN s : j < k => s[j] < s[k]
<1>1. Orders(ByValue, S)
  BY NumbersOrdered
<1> DEFINE s == InOrder(S, ByValue)
<1>2. /\ s \in Seq(S) /\ Len(s) = Cardinality(S)
      /\ Cardinality(S) \in Nat /\ DOMAIN s = 1..Cardinality(S)
      /\ \A k \in DOMAIN s : s[k] \in S
      /\ \A x \in S : \E k \in DOMAIN s : s[k] = x
      /\ \A j, k \in DOMAIN s : j < k => s[j] # s[k] /\ <<s[j], s[k]>> \in ByValue
  <2> HIDE DEF s
  <2> QED
    BY <1>1, InOrderEnumerates DEF s
<1> HIDE DEF s
<1>3. ASSUME NEW j \in DOMAIN s, NEW k \in DOMAIN s, j < k
      PROVE  s[j] < s[k]
  <2>1. s[j] \in S /\ s[k] \in S /\ s[j] # s[k] /\ <<s[j], s[k]>> \in ByValue
    BY <1>2, <1>3
  <2>2. s[j] <= s[k] /\ s[j] \in Int /\ s[k] \in Int
    BY <2>1, NumbersOrdered
  <2> QED
    BY <2>1, <2>2
<1> QED
  BY <1>2, <1>3 DEF Ascending, s

\* Numbers behind all of S leave the places of S alone.
LEMMA AscendingBehind ==
  ASSUME NEW S \in SUBSET Int, IsFiniteSet(S), NEW T \in SUBSET Int, IsFiniteSet(T),
         \A x \in S, y \in T : x < y
  PROVE  /\ Cardinality(S \cup T) = Cardinality(S) + Cardinality(T)
         /\ \A k \in 1..Cardinality(S) : Ascending(S \cup T)[k] = Ascending(S)[k]
<1> DEFINE U == S \cup T
<1>1. /\ IsFiniteSet(U) /\ Cardinality(U) = Cardinality(S) + Cardinality(T)
      /\ Cardinality(S) \in Nat /\ Cardinality(T) \in Nat /\ U \in SUBSET Int
  <2>1. S \cap T = {}
    OBVIOUS
  <2>2. Cardinality(S) \in Nat /\ Cardinality(T) \in Nat /\ Cardinality(S \cap T) = 0
    BY <2>1, FS_CardinalityType, FS_EmptySet
  <2>3. /\ IsFiniteSet(S \cup T)
        /\ Cardinality(S \cup T) = Cardinality(S) + Cardinality(T) - Cardinality(S \cap T)
    BY FS_Union
  <2> QED
    BY <2>2, <2>3
<1>2. Orders(ByValue, U) /\ Orders(ByValue, S)
  BY <1>1, NumbersOrdered
<1>3. ASSUME NEW x \in S
      PROVE  Place(x, U, ByValue) = Place(x, S, ByValue)
  <2>1. /\ \A y \in U : <<y, x>> \in ByValue <=> y <= x
        /\ \A y \in S : <<y, x>> \in ByValue <=> y <= x
    BY <1>1, NumbersOrdered
  <2>2. \A y \in T : ~ (y <= x)
    OBVIOUS
  <2>3. {y \in U : <<y, x>> \in ByValue} = {y \in S : <<y, x>> \in ByValue}
    BY <2>1, <2>2
  <2> QED
    BY <2>3 DEF Place
<1>4. ASSUME NEW k \in 1..Cardinality(S)
      PROVE  Ascending(U)[k] = Ascending(S)[k]
  <2> DEFINE x == Ascending(S)[k]
  <2>1. x \in S /\ Place(x, S, ByValue) = k
    BY <1>2, InOrderEnumerates DEF Ascending
  <2>2. Place(x, U, ByValue) = k /\ x \in U
    BY <1>3, <2>1
  <2> HIDE DEF x
  <2>3. InOrder(U, ByValue)[Place(x, U, ByValue)] = x
    <3> HIDE DEF U
    <3> QED
      BY <1>1, <1>2, <2>2, InOrderEnumerates
  <2> QED
    BY <2>2, <2>3 DEF Ascending, x
<1> QED
  BY <1>1, <1>4

LEMMA IntervalSize ==
  ASSUME NEW n \in Nat
  PROVE  IsFiniteSet(1..n) /\ Cardinality(1..n) = n
<1>1. /\ IsFiniteSet(1..n)
      /\ Cardinality(1..n) = IF 1 > n THEN 0 ELSE n - 1 + 1
  BY FS_Interval
<1> QED
  BY <1>1

LEMMA PositionsFinite ==
  ASSUME NEW X, NEW s \in Seq(X), NEW I \in SUBSET DOMAIN s
  PROVE  /\ IsFiniteSet(I) /\ I \in SUBSET Int /\ Cardinality(I) \in Nat
         /\ Cardinality(I) <= Len(s)
<1>1. DOMAIN s = 1..Len(s) /\ Len(s) \in Nat
  OBVIOUS
<1>2. IsFiniteSet(1..Len(s)) /\ Cardinality(1..Len(s)) = Len(s)
  BY <1>1, IntervalSize
<1> QED
  BY <1>1, <1>2, FS_Subset, FS_CardinalityType

\* Pick keeps what stands at the positions, all of it, in its order.
LEMMA Picked ==
  ASSUME NEW X, NEW s \in Seq(X), NEW I \in SUBSET DOMAIN s
  PROVE  /\ Pick(s, I) \in Seq({s[i] : i \in I})
         /\ Pick(s, I) \in Seq(X)
         /\ Len(Pick(s, I)) = Cardinality(I)
         /\ DOMAIN Pick(s, I) = 1..Cardinality(I)
         /\ \A k \in DOMAIN Pick(s, I) : Ascending(I)[k] \in I
                                         /\ Pick(s, I)[k] = s[Ascending(I)[k]]
         /\ \A i \in I : \E k \in DOMAIN Pick(s, I) : Ascending(I)[k] = i /\ Pick(s, I)[k] = s[i]
         /\ \A j, k \in DOMAIN Pick(s, I) : j < k => Ascending(I)[j] < Ascending(I)[k]
<1> DEFINE at == Ascending(I)
           n == Cardinality(I)
<1>1. IsFiniteSet(I) /\ I \in SUBSET Int
  BY PositionsFinite
<1>2. /\ at \in Seq(I) /\ n \in Nat /\ DOMAIN at = 1..n
      /\ \A i \in I : \E k \in DOMAIN at : at[k] = i
      /\ \A j, k \in DOMAIN at : j < k => at[j] < at[k]
  <2> HIDE DEF at
  <2> QED
    BY <1>1, AscendingEnumerates DEF at
<1>3. Pick(s, I) = [k \in 1..n |-> s[at[k]]]
  BY DEF Pick
<1> HIDE DEF at, n
<1>4. \A k \in 1..n : at[k] \in I
  BY <1>2
<1>5. Pick(s, I) \in [1..n -> {s[i] : i \in I}]
  BY <1>3, <1>4
<1>6. Pick(s, I) \in [1..n -> X]
  BY <1>3, <1>4
<1>7. Pick(s, I) \in Seq({s[i] : i \in I}) /\ Pick(s, I) \in Seq(X) /\ Len(Pick(s, I)) = n
  BY <1>2, <1>5, <1>6
<1>8. \A k \in 1..n : at[k] \in I /\ Pick(s, I)[k] = s[at[k]]
  BY <1>3, <1>4
<1> QED
  BY <1>2, <1>3, <1>7, <1>8 DEF at, n
=============================================================================
