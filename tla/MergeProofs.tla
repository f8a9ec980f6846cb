----------------------------- MODULE MergeProofs -----------------------------
(***************************************************************************)
(* What the merge of two documents computes, for lists of any length.  The *)
(* folds of Merge are functions defined by recursion: the first part shows *)
(* that these functions exist and what their values are, the second part   *)
(* goes through the lists with them, the third follows their order.        *)
(***************************************************************************)
EXTENDS Merge, FiniteSetTheorems, SequenceTheorems, TLAPS

-----------------------------------------------------------------------------
(***************************************************************************)
(* Induction, with the set of the numbers that have the property.          *)
(***************************************************************************)
LEMMA LeastNumber ==
    ASSUME NEW S \in SUBSET Nat, S # {}
    PROVE  \E m \in S : \A k \in S : m <= k
<1>1. PICK m \in S : \A k \in S : ~(<<k, m>> \in OpToRel(<, Nat))
  BY NatLessThanWellFounded, WFMin
<1>2. ASSUME NEW k \in S, k < m PROVE <<k, m>> \in OpToRel(<, Nat)
  BY <1>2 DEF OpToRel
<1>3. \A k \in S : ~(k < m) /\ k \in Nat /\ m \in Nat
  BY <1>1, <1>2
<1> QED BY <1>3

LEMMA SetInduction ==
    ASSUME NEW n \in Nat, NEW T, 0 \in T,
           \A k \in 0 .. n : k \in T /\ k < n => k + 1 \in T
    PROVE  \A k \in 0 .. n : k \in T
<1> DEFINE Bad == {k \in 0 .. n : k \notin T}
<1> SUFFICES ASSUME Bad # {} PROVE FALSE
  OBVIOUS
<1>1. Bad \in SUBSET Nat
  OBVIOUS
<1>2. PICK m \in Bad : \A k \in Bad : m <= k
  <2> HIDE DEF Bad
  <2> QED BY <1>1, LeastNumber
<1>3. m \in 1 .. n /\ m - 1 \in 0 .. n
  BY <1>2
<1>4. m - 1 \in T
  BY <1>2, <1>3
<1> QED BY <1>2, <1>3, <1>4

LEMMA MaxIs ==
    ASSUME NEW n \in Nat, NEW S \in SUBSET (1 .. n), S # {}
    PROVE  Max(S) \in S /\ \A x \in S : x <= Max(S)
<1> DEFINE Above == {k \in Nat : \A x \in S : x <= k}
<1>1. n \in Above
  OBVIOUS
<1>2. PICK m \in Above : \A k \in Above : m <= k
  <2>1. Above \in SUBSET Nat /\ Above # {}
    BY <1>1
  <2> HIDE DEF Above
  <2> QED BY <2>1, LeastNumber
<1>3. m \in S
  <2> SUFFICES ASSUME m \notin S PROVE FALSE
    OBVIOUS
  <2>1. ASSUME NEW x \in S PROVE x \in 1 .. n /\ x <= m - 1 /\ m - 1 \in Nat
    <3>1. x \in 1 .. n /\ x <= m /\ m \in Nat /\ x # m
      BY <1>2, <2>1
    <3> QED BY <3>1
  <2>2. m - 1 \in Nat /\ \A x \in S : x <= m - 1
    BY <2>1
  <2>3. m - 1 \in Above
    BY <2>2
  <2> QED BY <1>2, <2>2, <2>3
<1>4. \E x \in S : \A y \in S : x >= y
  BY <1>2, <1>3
<1> QED BY <1>4 DEF Max

-----------------------------------------------------------------------------
(***************************************************************************)
(* Folds.  A fold goes through the subsets of the domain of the sequence,  *)
(* taking away the greatest index each time.  `next` is the operator of    *)
(* the fold and the sequence in one: what becomes of a value at an index.  *)
(***************************************************************************)
Steps(next, n, A) == \A i \in 1 .. n, a \in A : next[i][a] \in A
FoldsWith(g, next, base, n) ==
    \A s \in SUBSET (1 .. n) :
        g[s] = IF s = {} THEN base ELSE next[Max(s)][g[s \ {Max(s)}]]

LEMMA FoldExists ==
    ASSUME NEW n \in Nat, NEW A, NEW base \in A, NEW next, Steps(next, n, A)
    PROVE  \E g \in [SUBSET (1 .. n) -> A] : FoldsWith(g, next, base, n)
<1> USE DEF Steps
<1> DEFINE Small(k) == {s \in SUBSET (1 .. n) : Cardinality(s) <= k}
           Solves(g, k) ==
               \A s \in Small(k) :
                   g[s] = IF s = {} THEN base ELSE next[Max(s)][g[s \ {Max(s)}]]
           Solved == {k \in Nat : \E g \in [Small(k) -> A] : Solves(g, k)}
<1>1. \A s \in SUBSET (1 .. n) :
          IsFiniteSet(s) /\ Cardinality(s) \in Nat /\ Cardinality(s) <= n
  <2>1. IsFiniteSet(1 .. n) /\ Cardinality(1 .. n) = n
    <3>1. 1 \in Int /\ n \in Int /\ (1 > n => n = 0)
      OBVIOUS
    <3> QED BY <3>1, FS_Interval
  <2> QED BY <2>1, FS_Subset, FS_CardinalityType
<1>2. \A s \in SUBSET (1 .. n) : s # {} =>
          /\ Max(s) \in 1 .. n /\ s \ {Max(s)} \in SUBSET (1 .. n)
          /\ Cardinality(s \ {Max(s)}) = Cardinality(s) - 1
  BY <1>1, MaxIs, FS_RemoveElement
<1>3. 0 \in Solved
  <2>1. Small(0) = {{}}
    BY <1>1, FS_EmptySet
  <2>2. [s \in Small(0) |-> base] \in [Small(0) -> A]
    OBVIOUS
  <2>3. Solves([s \in Small(0) |-> base], 0)
    BY <2>1
  <2> QED BY <2>2, <2>3
<1>4. ASSUME NEW k \in 0 .. n, k \in Solved PROVE k + 1 \in Solved
  <2>1. PICK g \in [Small(k) -> A] : Solves(g, k)
    BY <1>4
  <2>0. Small(k) \subseteq Small(k + 1) /\ k + 1 \in Nat
    <3>1. \A s \in SUBSET (1 .. n) : Cardinality(s) <= k => Cardinality(s) <= k + 1
      BY <1>1
    <3> QED BY <3>1
  <2> DEFINE h == [s \in Small(k + 1) |->
                      IF s \in Small(k) THEN g[s] ELSE next[Max(s)][g[s \ {Max(s)}]]]
  <2>2. \A s \in Small(k + 1) : s # {} => s \ {Max(s)} \in Small(k)
    BY <1>1, <1>2
  <2>3. \A s \in Small(k + 1) : s \notin Small(k) => s # {}
    BY <1>1, FS_EmptySet
  <2>4. h \in [Small(k + 1) -> A]
    <3>1. ASSUME NEW s \in Small(k + 1) PROVE h[s] \in A
      <4>1. CASE s \in Small(k)
        BY <2>1, <4>1
      <4>2. CASE s \notin Small(k)
        <5>1. s # {} /\ Max(s) \in 1 .. n /\ s \ {Max(s)} \in Small(k)
          BY <1>2, <2>2, <2>3, <4>2
        <5>2. g[s \ {Max(s)}] \in A
          BY <2>1, <5>1
        <5> QED BY <4>2, <5>1, <5>2
      <4> QED BY <4>1, <4>2
    <3> QED BY <3>1
  <2>5. Solves(h, k + 1)
    <3>1. ASSUME NEW s \in Small(k + 1)
          PROVE  h[s] = IF s = {} THEN base ELSE next[Max(s)][h[s \ {Max(s)}]]
      <4>1. s # {} => h[s \ {Max(s)}] = g[s \ {Max(s)}]
        <5>1. s # {} => s \ {Max(s)} \in Small(k) /\ s \ {Max(s)} \in Small(k + 1)
          BY <2>0, <2>2
        <5> QED BY <5>1
      <4>2. CASE s \in Small(k)
        BY <2>1, <4>1, <4>2
      <4>3. CASE s \notin Small(k)
        BY <2>3, <4>1, <4>3
      <4> QED BY <4>2, <4>3
    <3> QED BY <3>1
  <2>6. \E f \in [Small(k + 1) -> A] : Solves(f, k + 1)
    <3> HIDE DEF h, Small, Solves
    <3> QED BY <2>4, <2>5
  <2> QED BY <2>0, <2>6
<1>5. n \in Solved
  <2>1. \A k \in 0 .. n : k \in Solved /\ k < n => k + 1 \in Solved
    BY <1>4
  <2>2. \A k \in 0 .. n : k \in Solved
    <3> HIDE DEF Solved, Steps
    <3> QED BY <1>3, <2>1, SetInduction
  <2>3. n \in 0 .. n
    OBVIOUS
  <2> QED BY <2>2, <2>3
<1>6. PICK g \in [Small(n) -> A] : Solves(g, n)
  BY <1>5
<1>7. Small(n) = SUBSET (1 .. n)
  BY <1>1
<1> QED BY <1>6, <1>7 DEF FoldsWith

\* A fold meets the indexes in their order.
LEMMA UpTo ==
    ASSUME NEW n \in Nat, NEW k \in 1 .. n
    PROVE  /\ 1 .. k \in SUBSET (1 .. n) /\ 1 .. k # {}
           /\ Max(1 .. k) = k /\ (1 .. k) \ {k} = 1 .. (k - 1)
<1>1. 1 .. k \in SUBSET (1 .. n) /\ k \in 1 .. k
  OBVIOUS
<1>2. Max(1 .. k) \in 1 .. k /\ k <= Max(1 .. k)
  BY <1>1, MaxIs
<1> QED BY <1>1, <1>2

-----------------------------------------------------------------------------
(***************************************************************************)
(* Appending the items that a list does not have.  AppendUnseen compares   *)
(* them by their printed forms, so these are appended as here.             *)
(***************************************************************************)
Unseen(list, item) == IF Contains(list, item) THEN list ELSE Append(list, item)
AppendNew(left, right) ==
    FoldLeft(LAMBDA list, item : IF Contains(list, item) THEN list ELSE Append(list, item),
             left, right)

\* What AppendNew has after each item.
Appends(f, left, right) ==
    /\ f[0] = left
    /\ \A k \in 1 .. Len(right) : f[k] = Unseen(f[k - 1], right[k])
    /\ AppendNew(left, right) = f[Len(right)]

LEMMA AppendNewSteps ==
    ASSUME NEW X, NEW left \in Seq(X), NEW right \in Seq(X)
    PROVE  \E f \in [0 .. Len(right) -> Seq(X)] : Appends(f, left, right)
<1> DEFINE n == Len(right)
           Follows(g) == g = [s \in SUBSET (1 .. n) |->
                                 IF s = {} THEN left
                                 ELSE Unseen(g[s \ {Max(s)}], right[Max(s)])]
           next == [i \in 1 .. n |-> [list \in Seq(X) |-> Unseen(list, right[i])]]
<1>1. n \in Nat /\ DOMAIN right = 1 .. n /\ \A i \in 1 .. n : right[i] \in X
  OBVIOUS
<1>2. \A list \in Seq(X), i \in 1 .. n : Unseen(list, right[i]) \in Seq(X)
  BY <1>1, AppendProperties DEF Unseen
<1>3. \E g : Follows(g)
  <2>1. PICK g \in [SUBSET (1 .. n) -> Seq(X)] : FoldsWith(g, next, left, n)
    <3>1. Steps(next, n, Seq(X))
      BY <1>2 DEF Steps
    <3> HIDE DEF n, next
    <3> QED BY <1>1, <3>1, FoldExists
  <2>2. ASSUME NEW s \in SUBSET (1 .. n), s # {}
        PROVE  next[Max(s)][g[s \ {Max(s)}]] = Unseen(g[s \ {Max(s)}], right[Max(s)])
    <3>1. Max(s) \in 1 .. n
      BY <1>1, <2>2, MaxIs
    <3>2. g[s \ {Max(s)}] \in Seq(X)
      BY <2>1
    <3> QED BY <3>1, <3>2
  <2>3. \A s \in SUBSET (1 .. n) :
            g[s] = IF s = {} THEN left ELSE Unseen(g[s \ {Max(s)}], right[Max(s)])
    <3> HIDE DEF next
    <3> QED BY <2>1, <2>2 DEF FoldsWith
  <2>4. Follows(g)
    BY <2>3
  <2> QED BY <2>4
<1>4. \E g : Follows(g) /\ AppendNew(left, right) = g[1 .. n]
  <2>1. AppendNew(left, right) = (CHOOSE g : Follows(g))[1 .. n]
    BY <1>1 DEF AppendNew, FoldLeft, MapThenFoldSet, Unseen
  <2> HIDE DEF Follows
  <2> QED BY <1>3, <2>1
<1>5. PICK g : Follows(g) /\ AppendNew(left, right) = g[1 .. n]
  BY <1>4
<1>6. g[1 .. 0] = left
  BY <1>5
<1>7. \A k \in 1 .. n : g[1 .. k] = Unseen(g[1 .. (k - 1)], right[k])
  <2> TAKE k \in 1 .. n
  <2>1. /\ 1 .. k \in SUBSET (1 .. n) /\ 1 .. k # {}
        /\ Max(1 .. k) = k /\ (1 .. k) \ {k} = 1 .. (k - 1)
    BY <1>1, UpTo
  <2> QED BY <1>5, <2>1
<1>8. \A k \in 0 .. n : g[1 .. k] \in Seq(X)
  <2> DEFINE Typed == {k \in Nat : g[1 .. k] \in Seq(X)}
  <2>1. 0 \in Typed
    BY <1>6
  <2>2. \A k \in 0 .. n : k \in Typed /\ k < n => k + 1 \in Typed
    <3> SUFFICES ASSUME NEW k \in 0 .. n, k \in Typed, k < n PROVE k + 1 \in Typed
      OBVIOUS
    <3>1. k + 1 \in Nat /\ k + 1 \in 1 .. n /\ (k + 1) - 1 = k
      BY <1>1
    <3>2. g[1 .. (k + 1)] = Unseen(g[1 .. k], right[k + 1])
      BY <1>7, <3>1
    <3> QED BY <1>2, <3>1, <3>2
  <2>3. \A k \in 0 .. n : k \in Typed
    <3> HIDE DEF Typed
    <3> QED BY <1>1, <2>1, <2>2, SetInduction
  <2> QED BY <2>3
<1> DEFINE f == [k \in 0 .. n |-> g[1 .. k]]
<1>9. 0 \in 0 .. n /\ n \in 0 .. n /\ \A k \in 1 .. n : k \in 0 .. n /\ k - 1 \in 0 .. n
  BY <1>1
<1>10. f \in [0 .. n -> Seq(X)] /\ f[0] = left /\ f[n] = AppendNew(left, right)
  <2> HIDE DEF n, Follows
  <2> QED BY <1>5, <1>6, <1>8, <1>9
<1>11. \A k \in 1 .. n : f[k] = Unseen(f[k - 1], right[k])
  BY <1>7, <1>9
<1> HIDE DEF f
<1> QED BY <1>10, <1>11 DEF Appends

\* The union of two lists loses nothing and invents nothing.
LEMMA AppendNewIs ==
    ASSUME NEW X, NEW left \in Seq(X), NEW right \in Seq(X)
    PROVE  /\ AppendNew(left, right) \in Seq(X)
           /\ ToSet(AppendNew(left, right)) = ToSet(left) \cup ToSet(right)
<1> DEFINE n == Len(right)
<1>1. n \in Nat /\ DOMAIN right = 1 .. n /\ \A i \in 1 .. n : right[i] \in X
  OBVIOUS
<1>2. PICK f \in [0 .. n -> Seq(X)] :
          /\ f[0] = left
          /\ \A k \in 1 .. n : f[k] = Unseen(f[k - 1], right[k])
          /\ AppendNew(left, right) = f[n]
  BY AppendNewSteps DEF Appends
<1>3. ASSUME NEW list \in Seq(X), NEW item \in X
      PROVE  ToSet(Unseen(list, item)) = ToSet(list) \cup {item}
  <2>1. CASE Contains(list, item)
    BY <2>1 DEF Unseen, Contains, ToSet
  <2>2. CASE ~Contains(list, item)
    <3>1. /\ Len(Append(list, item)) = Len(list) + 1
          /\ \A i \in 1 .. Len(list) : Append(list, item)[i] = list[i]
          /\ Append(list, item)[Len(list) + 1] = item
          /\ DOMAIN Append(list, item) = 1 .. Len(list) + 1 /\ Len(list) \in Nat
      BY AppendProperties
    <3> DEFINE longer == Append(list, item)
    <3>2. DOMAIN list = 1 .. Len(list)
      OBVIOUS
    <3>3. ToSet(longer) = ToSet(list) \cup {item}
      <4>1. 1 .. Len(list) + 1 = (1 .. Len(list)) \cup {Len(list) + 1}
        BY <3>1
      <4> QED BY <3>1, <3>2, <4>1 DEF ToSet
    <3> QED BY <2>2, <3>3 DEF Unseen
  <2> QED BY <2>1, <2>2
<1> DEFINE Complete == {k \in Nat : ToSet(f[k]) = ToSet(left) \cup {right[i] : i \in 1 .. k}}
<1>4. 0 \in Complete
  BY <1>2
<1>5. ASSUME NEW k \in 0 .. n, k \in Complete, k < n PROVE k + 1 \in Complete
  <2>1. k + 1 \in Nat /\ k + 1 \in 1 .. n /\ (k + 1) - 1 = k
        /\ 1 .. (k + 1) = (1 .. k) \cup {k + 1}
    BY <1>1, <1>5
  <2>2. ToSet(f[k + 1]) = ToSet(f[k]) \cup {right[k + 1]}
    BY <1>1, <1>2, <1>3, <2>1
  <2> QED BY <1>5, <2>1, <2>2
<1>6. \A k \in 0 .. n : k \in Complete
  <2>1. \A k \in 0 .. n : k \in Complete /\ k < n => k + 1 \in Complete
    BY <1>5
  <2> HIDE DEF Complete
  <2> QED BY <1>1, <1>4, <2>1, SetInduction
<1>7. n \in 0 .. n /\ ToSet(right) = {right[i] : i \in 1 .. n}
  BY <1>1 DEF ToSet
<1> QED BY <1>2, <1>6, <1>7

\* Once more, with the printed forms.
UnseenPrinted(list, item) == IF IsSeen(list, item) THEN list ELSE Append(list, item)
AppendsUnseen(f, left, right) ==
    /\ f[0] = left
    /\ \A k \in 1 .. Len(right) : f[k] = UnseenPrinted(f[k - 1], right[k])
    /\ AppendUnseen(left, right) = f[Len(right)]

LEMMA AppendUnseenSteps ==
    ASSUME NEW X, NEW left \in Seq(X), NEW right \in Seq(X)
    PROVE  \E f \in [0 .. Len(right) -> Seq(X)] : AppendsUnseen(f, left, right)
<1> DEFINE n == Len(right)
           Follows(g) == g = [s \in SUBSET (1 .. n) |->
                                 IF s = {} THEN left
                                 ELSE UnseenPrinted(g[s \ {Max(s)}], right[Max(s)])]
           next == [i \in 1 .. n |-> [list \in Seq(X) |-> UnseenPrinted(list, right[i])]]
<1>1. n \in Nat /\ DOMAIN right = 1 .. n /\ \A i \in 1 .. n : right[i] \in X
  OBVIOUS
<1>2. \A list \in Seq(X), i \in 1 .. n : UnseenPrinted(list, right[i]) \in Seq(X)
  BY <1>1, AppendProperties DEF UnseenPrinted
<1>3. \E g : Follows(g)
  <2>1. PICK g \in [SUBSET (1 .. n) -> Seq(X)] : FoldsWith(g, next, left, n)
    <3>1. Steps(next, n, Seq(X))
      BY <1>2 DEF Steps
    <3> HIDE DEF n, next
    <3> QED BY <1>1, <3>1, FoldExists
  <2>2. ASSUME NEW s \in SUBSET (1 .. n), s # {}
        PROVE  next[Max(s)][g[s \ {Max(s)}]] = UnseenPrinted(g[s \ {Max(s)}], right[Max(s)])
    <3>1. Max(s) \in 1 .. n
      BY <1>1, <2>2, MaxIs
    <3>2. g[s \ {Max(s)}] \in Seq(X)
      BY <2>1
    <3> QED BY <3>1, <3>2
  <2>3. \A s \in SUBSET (1 .. n) :
            g[s] = IF s = {} THEN left ELSE UnseenPrinted(g[s \ {Max(s)}], right[Max(s)])
    <3> HIDE DEF next
    <3> QED BY <2>1, <2>2 DEF FoldsWith
  <2>4. Follows(g)
    BY <2>3
  <2> QED BY <2>4
<1>4. \E g : Follows(g) /\ AppendUnseen(left, right) = g[1 .. n]
  <2>1. AppendUnseen(left, right) = (CHOOSE g : Follows(g))[1 .. n]
    BY <1>1 DEF AppendUnseen, FoldLeft, MapThenFoldSet, UnseenPrinted
  <2> HIDE DEF Follows
  <2> QED BY <1>3, <2>1
<1>5. PICK g : Follows(g) /\ AppendUnseen(left, right) = g[1 .. n]
  BY <1>4
<1>6. g[1 .. 0] = left
  BY <1>5
<1>7. \A k \in 1 .. n : g[1 .. k] = UnseenPrinted(g[1 .. (k - 1)], right[k])
  <2> TAKE k \in 1 .. n
  <2>1. /\ 1 .. k \in SUBSET (1 .. n) /\ 1 .. k # {}
        /\ Max(1 .. k) = k /\ (1 .. k) \ {k} = 1 .. (k - 1)
    BY <1>1, UpTo
  <2> QED BY <1>5, <2>1
<1>8. \A k \in 0 .. n : g[1 .. k] \in Seq(X)
  <2> DEFINE Typed == {k \in Nat : g[1 .. k] \in Seq(X)}
  <2>1. 0 \in Typed
    BY <1>6
  <2>2. \A k \in 0 .. n : k \in Typed /\ k < n => k + 1 \in Typed
    <3> SUFFICES ASSUME NEW k \in 0 .. n, k \in Typed, k < n PROVE k + 1 \in Typed
      OBVIOUS
    <3>1. k + 1 \in Nat /\ k + 1 \in 1 .. n /\ (k + 1) - 1 = k
      BY <1>1
    <3>2. g[1 .. (k + 1)] = UnseenPrinted(g[1 .. k], right[k + 1])
      BY <1>7, <3>1
    <3> QED BY <1>2, <3>1, <3>2
  <2>3. \A k \in 0 .. n : k \in Typed
    <3> HIDE DEF Typed
    <3> QED BY <1>1, <2>1, <2>2, SetInduction
  <2> QED BY <2>3
<1> DEFINE f == [k \in 0 .. n |-> g[1 .. k]]
<1>9. 0 \in 0 .. n /\ n \in 0 .. n /\ \A k \in 1 .. n : k \in 0 .. n /\ k - 1 \in 0 .. n
  BY <1>1
<1>10. f \in [0 .. n -> Seq(X)] /\ f[0] = left /\ f[n] = AppendUnseen(left, right)
  <2> HIDE DEF n, Follows
  <2> QED BY <1>5, <1>6, <1>8, <1>9
<1>11. \A k \in 1 .. n : f[k] = UnseenPrinted(f[k - 1], right[k])
  BY <1>7, <1>9
<1> HIDE DEF f
<1> QED BY <1>10, <1>11 DEF AppendsUnseen

LEMMA PrintsAre ==
    ASSUME NEW X, NEW list \in Seq(X)
    PROVE  /\ Prints(list) \in Seq({Printed(x) : x \in X}) /\ Len(Prints(list)) = Len(list)
           /\ \A i \in 1 .. Len(list) : Prints(list)[i] = Printed(list[i])
<1> DEFINE P == {Printed(x) : x \in X}
<1>1. /\ Len(list) \in Nat /\ DOMAIN list = 1 .. Len(list)
      /\ \A i \in 1 .. Len(list) : list[i] \in X
  OBVIOUS
<1>2. Prints(list) = [i \in 1 .. Len(list) |-> Printed(list[i])]
  BY <1>1 DEF Prints
<1>3. Prints(list) \in [1 .. Len(list) -> P]
  BY <1>1, <1>2
<1>4. Prints(list) \in Seq(P) /\ Len(Prints(list)) = Len(list)
  <2> HIDE DEF P, Prints
  <2> QED BY <1>1, <1>3
<1> QED BY <1>2, <1>4

LEMMA PrintsOfAppend ==
    ASSUME NEW X, NEW list \in Seq(X), NEW item \in X
    PROVE  Prints(UnseenPrinted(list, item)) = Unseen(Prints(list), Printed(item))
<1> DEFINE n == Len(list)
           P == {Printed(x) : x \in X}
           prints == Prints(list)
<1>1. /\ prints \in Seq(P) /\ Len(prints) = n
      /\ \A i \in 1 .. n : prints[i] = Printed(list[i])
  BY PrintsAre
<1>2. n \in Nat /\ Printed(item) \in P
  OBVIOUS
<1> HIDE DEF P, prints
<1>3. IsSeen(list, item) <=> Contains(prints, Printed(item))
  BY <1>1 DEF IsSeen, Contains, ToSet, prints
<1> DEFINE longer == Append(list, item)
           two == Append(prints, Printed(item))
           one == Prints(longer)
<1>4. /\ longer \in Seq(X) /\ Len(longer) = n + 1 /\ longer[n + 1] = item
      /\ \A i \in 1 .. n : longer[i] = list[i]
  BY AppendProperties
<1>5. /\ two \in Seq(P) /\ Len(two) = n + 1 /\ two[n + 1] = Printed(item)
      /\ \A i \in 1 .. n : two[i] = prints[i]
  BY <1>1, <1>2, AppendProperties
<1>6. one \in Seq(P) /\ Len(one) = n + 1 /\ \A i \in 1 .. n + 1 : one[i] = Printed(longer[i])
  <2> HIDE DEF longer
  <2> QED BY <1>4, PrintsAre DEF P
<1>7. one = two
  <2> HIDE DEF one, two, longer, n
  <2>1. \A i \in 1 .. n + 1 : i = n + 1 \/ i \in 1 .. n
    BY <1>2
  <2>2. \A i \in 1 .. n + 1 : one[i] = two[i]
    BY <1>1, <1>4, <1>5, <1>6, <2>1
  <2> QED BY <1>5, <1>6, <2>2, SeqEqual
<1> QED BY <1>3, <1>7 DEF Unseen, UnseenPrinted, prints

\* The union of two lists by their printed forms.
LEMMA AppendUnseenPrints ==
    ASSUME NEW X, NEW left \in Seq(X), NEW right \in Seq(X)
    PROVE  /\ AppendUnseen(left, right) \in Seq(X)
           /\ Prints(AppendUnseen(left, right)) = AppendNew(Prints(left), Prints(right))
           /\ ToSet(Prints(AppendUnseen(left, right))) =
                  ToSet(Prints(left)) \cup ToSet(Prints(right))
<1> DEFINE n == Len(right)
           P == {Printed(x) : x \in X}
<1>1. /\ n \in Nat /\ n \in 0 .. n /\ Prints(left) \in Seq(P) /\ Prints(right) \in Seq(P)
      /\ Len(Prints(right)) = n
      /\ \A i \in 1 .. n : right[i] \in X /\ Prints(right)[i] = Printed(right[i])
  <2>1. n \in Nat /\ \A i \in 1 .. n : right[i] \in X
    OBVIOUS
  <2>2. n \in 0 .. n
    BY <2>1
  <2> QED BY <2>1, <2>2, PrintsAre
<1> HIDE DEF P
<1>2. PICK f \in [0 .. n -> Seq(X)] : AppendsUnseen(f, left, right)
  BY AppendUnseenSteps
<1>3. PICK g \in [0 .. Len(Prints(right)) -> Seq(P)] : Appends(g, Prints(left), Prints(right))
  BY <1>1, AppendNewSteps
<1> DEFINE Same == {k \in Nat : Prints(f[k]) = g[k]}
<1>4. 0 \in Same
  BY <1>2, <1>3 DEF AppendsUnseen, Appends
<1>5. ASSUME NEW k \in 0 .. n, k \in Same, k < n PROVE k + 1 \in Same
  <2>1. k + 1 \in Nat /\ k + 1 \in 1 .. n /\ (k + 1) - 1 = k
    BY <1>1, <1>5
  <2>2. f[k + 1] = UnseenPrinted(f[k], right[k + 1]) /\ f[k] \in Seq(X) /\ right[k + 1] \in X
    BY <1>1, <1>2, <2>1 DEF AppendsUnseen
  <2>3. g[k + 1] = Unseen(g[k], Printed(right[k + 1]))
    BY <1>1, <1>3, <2>1 DEF Appends
  <2>4. Prints(f[k + 1]) = Unseen(Prints(f[k]), Printed(right[k + 1]))
    BY <2>2, PrintsOfAppend
  <2> QED BY <1>5, <2>1, <2>3, <2>4
<1>6. \A k \in 0 .. n : k \in Same
  <2>1. \A k \in 0 .. n : k \in Same /\ k < n => k + 1 \in Same
    BY <1>5
  <2> HIDE DEF Same, n
  <2> QED BY <1>1, <1>4, <2>1, SetInduction
<1>7. Prints(AppendUnseen(left, right)) = AppendNew(Prints(left), Prints(right))
  BY <1>1, <1>2, <1>3, <1>6 DEF AppendsUnseen, Appends
<1>8. AppendUnseen(left, right) \in Seq(X)
  BY <1>1, <1>2 DEF AppendsUnseen
<1> QED BY <1>1, <1>7, <1>8, AppendNewIs

-----------------------------------------------------------------------------
(***************************************************************************)
(* Groups, and what one entry has to do with another.  `mergeMembers` is   *)
(* TRUE in the list of groups, FALSE in the list of proxies.               *)
(***************************************************************************)
ListsOf(Member) == [kind : {"list"}, items : Seq(Member)]
GroupSet(Name, Body, Member, Other) ==
    [name : Name, body : Body, members : ListsOf(Member) \cup Other]
NoLists(Other) == \A v \in Other : v.kind # "list"

\* All that `e` says, `h` says.
Covers(h, e, mergeMembers) ==
    IF mergeMembers
    THEN h.name = e.name /\ h.body = e.body /\ PrintsIn(e.members) \subseteq PrintsIn(h.members)
    ELSE h = e

\* The two do not contradict each other.
Alike(h, e, mergeMembers) ==
    IF mergeMembers THEN h.name = e.name /\ h.body = e.body ELSE h = e

\* What a list needs to be merged: its entries may become one another's union.
Unites(E, mergeMembers) ==
    mergeMembers =>
        \A l, r \in E :
            /\ MergeGroup(l, r) = Conflict <=> l.body # r.body
            /\ MergeGroup(l, r) # Conflict =>
                   /\ MergeGroup(l, r) \in E
                   /\ Covers(MergeGroup(l, r), l, TRUE)
                   /\ l.name = r.name => Covers(MergeGroup(l, r), r, TRUE)

LEMMA GroupsUnite ==
    ASSUME NEW Name, NEW Body, NEW Member, NEW Other, NoLists(Other),
           Conflict \notin GroupSet(Name, Body, Member, Other)
    PROVE  Unites(GroupSet(Name, Body, Member, Other), TRUE)
<1> DEFINE Group == GroupSet(Name, Body, Member, Other)
<1>0. ASSUME NEW g \in Group PROVE AsSlice(g.members) \in Seq(Member)
  <2>1. g.members \in ListsOf(Member) \/ g.members \in Other
    BY DEF GroupSet
  <2>2. CASE g.members \in ListsOf(Member)
    BY <2>2 DEF ListsOf, AsSlice
  <2>3. CASE g.members \in Other
    <3>1. AsSlice(g.members) = <<>>
      BY <2>3 DEF NoLists, AsSlice
    <3> QED BY <3>1
  <2> QED BY <2>1, <2>2, <2>3
<1>1. ASSUME NEW l \in Group, NEW r \in Group, l.body = r.body
      PROVE  /\ MergeGroup(l, r) \in Group
             /\ MergeGroup(l, r).name = l.name /\ MergeGroup(l, r).body = l.body
             /\ PrintsIn(MergeGroup(l, r).members) = PrintsIn(l.members) \cup PrintsIn(r.members)
  <2> DEFINE both == AppendUnseen(AsSlice(l.members), AsSlice(r.members))
  <2>1. /\ both \in Seq(Member)
        /\ ToSet(Prints(both)) = PrintsIn(l.members) \cup PrintsIn(r.members)
    BY <1>0, AppendUnseenPrints DEF PrintsIn
  <2>2. MergeGroup(l, r) = [l EXCEPT !.members = List(both)]
    BY <1>1 DEF MergeGroup
  <2> HIDE DEF both
  <2>3. List(both) \in ListsOf(Member) /\ PrintsIn(List(both)) = ToSet(Prints(both))
    BY <2>1 DEF List, ListsOf, AsSlice, PrintsIn
  <2> QED BY <2>1, <2>2, <2>3 DEF GroupSet
<1>2. ASSUME NEW l \in Group, NEW r \in Group, l.body # r.body
      PROVE  MergeGroup(l, r) = Conflict
  BY <1>2 DEF MergeGroup
<1>3. Conflict \notin Group
  BY DEF Group
<1> HIDE DEF Group
<1>4. ASSUME NEW l \in Group, NEW r \in Group
      PROVE  /\ MergeGroup(l, r) = Conflict <=> l.body # r.body
             /\ MergeGroup(l, r) # Conflict =>
                    /\ MergeGroup(l, r) \in Group
                    /\ Covers(MergeGroup(l, r), l, TRUE)
                    /\ l.name = r.name => Covers(MergeGroup(l, r), r, TRUE)
  <2>1. CASE l.body # r.body
    BY <1>2, <2>1
  <2>2. CASE l.body = r.body
    <3>1. MergeGroup(l, r) \in Group /\ MergeGroup(l, r) # Conflict
      BY <1>1, <1>3, <2>2
    <3>2. Covers(MergeGroup(l, r), l, TRUE)
      BY <1>1, <2>2 DEF Covers
    <3>3. l.name = r.name => Covers(MergeGroup(l, r), r, TRUE)
      BY <1>1, <2>2 DEF Covers
    <3> QED BY <2>2, <3>1, <3>2, <3>3
  <2> QED BY <2>1, <2>2
<1>5. Unites(Group, TRUE)
  BY <1>4 DEF Unites
<1> QED BY <1>5 DEF Group

\* The index of a list finds an entry of a name whenever there is one.
LEMMA PositionIs ==
    ASSUME NEW E, NEW list \in Seq(E), NEW name
    PROVE  /\ Position(list, name) \in 0 .. Len(list)
           /\ Position(list, name) = 0 => \A i \in 1 .. Len(list) : list[i].name # name
           /\ Position(list, name) # 0 => list[Position(list, name)].name = name
<1> DEFINE I == {i \in 1 .. Len(list) : list[i].name = name}
<1>1. Position(list, name) = IF I # {} THEN Max(I) ELSE 0
  BY DEF Position, SelectLastInSeq
<1>2. Len(list) \in Nat /\ I \in SUBSET (1 .. Len(list))
  OBVIOUS
<1>3. CASE I # {}
  <2>1. Max(I) \in I
    BY <1>2, <1>3, MaxIs
  <2> QED BY <1>1, <1>3, <2>1
<1>4. CASE I = {}
  BY <1>1, <1>2, <1>4
<1> QED BY <1>3, <1>4

-----------------------------------------------------------------------------
(***************************************************************************)
(* mergeNamedList, the lists first.                                        *)
(***************************************************************************)
ListMerge(existing, incoming, mergeMembers) ==
    IF incoming = <<>> THEN Merged(existing) ELSE MergeLists(existing, incoming, mergeMembers)

Outcome(E) ==
    [ok : {TRUE}, value : Seq(E)]
        \cup [ok : {FALSE}, value : Seq(E), why : {"conflict", "malformed"}]

\* The list that comes of `existing` and the entries that make `seen` with it.
Grows(list, existing, seen, mergeMembers) ==
    /\ Len(existing) <= Len(list)
    /\ \A i \in 1 .. Len(existing) : list[i].name = existing[i].name
    /\ \A b \in Len(existing) + 1 .. Len(list) : \A a \in 1 .. b - 1 :
          list[a].name # list[b].name
    /\ \A i \in 1 .. Len(list) : \E e \in seen : Alike(list[i], e, mergeMembers)

\* What is known of their merge: nothing is lost, or there is a reason.
MergedSoFar(acc, existing, seen, mergeMembers) ==
    /\ Grows(acc.value, existing, seen, mergeMembers)
    /\ acc.ok => \A e \in seen : \E i \in 1 .. Len(acc.value) :
                     Covers(acc.value[i], e, mergeMembers)
    /\ ~acc.ok /\ acc.why = "conflict" =>
           \E d, e \in seen : d.name = e.name /\ ~Alike(d, e, mergeMembers)
    /\ ~acc.ok /\ acc.why = "malformed" => \E e \in seen : e.name = NoName

LEMMA MergeItemIs ==
    ASSUME NEW E, NEW mm \in BOOLEAN, Unites(E, mm), NEW existing \in Seq(E),
           NEW seen, NEW acc \in Outcome(E), NEW item \in E,
           MergedSoFar(acc, existing, seen, mm)
    PROVE  /\ MergeItem(acc, item, mm) \in Outcome(E)
           /\ MergedSoFar(MergeItem(acc, item, mm), existing, seen \cup {item}, mm)
<1> DEFINE list == acc.value
           position == Position(list, item.name)
           both == IF mm THEN MergeGroup(list[position], item) ELSE Conflict
           Grown == seen \cup {item}
<1>1. list \in Seq(E) /\ Len(list) \in Nat /\ Len(existing) \in Nat
  <2>1. list \in Seq(E)
    BY DEF Outcome
  <2> QED BY <2>1
<1>2. /\ position \in 0 .. Len(list)
      /\ position = 0 => \A i \in 1 .. Len(list) : list[i].name # item.name
      /\ position # 0 => list[position].name = item.name
  BY <1>1, PositionIs
<1>0. Grows(list, existing, seen, mm) /\ Grows(list, existing, Grown, mm)
  <2> HIDE DEF list
  <2> QED BY DEF MergedSoFar, Grows, list
<1>3. CASE ~acc.ok
  <2>1. MergeItem(acc, item, mm) = acc
    BY <1>3 DEF MergeItem
  <2> QED BY <1>0, <1>3, <2>1 DEF MergedSoFar
<1>4. CASE acc.ok /\ item.name = NoName
  <2>1. MergeItem(acc, item, mm) = Failure(list, "malformed")
    BY <1>4 DEF MergeItem
  <2> HIDE DEF list
  <2>2. Failure(list, "malformed") \in Outcome(E)
    BY <1>1 DEF Failure, Outcome
  <2>3. MergedSoFar(Failure(list, "malformed"), existing, Grown, mm)
    BY <1>0, <1>4 DEF MergedSoFar, Failure
  <2> QED BY <2>1, <2>2, <2>3
<1>5. CASE acc.ok /\ item.name # NoName /\ position = 0
  <2> DEFINE longer == Append(list, item)
  <2>1. MergeItem(acc, item, mm) = Merged(longer)
    BY <1>5 DEF MergeItem
  <2>2. /\ longer \in Seq(E) /\ Len(longer) = Len(list) + 1 /\ longer[Len(list) + 1] = item
        /\ \A i \in 1 .. Len(list) : longer[i] = list[i]
    BY <1>1, AppendProperties
  <2>3. Merged(longer) \in Outcome(E) /\ Merged(longer).ok /\ Merged(longer).value = longer
    BY <2>2 DEF Merged, Outcome
  <2>4. Alike(item, item, mm) /\ Covers(item, item, mm)
    BY DEF Alike, Covers
  <2> HIDE DEF longer, list, position
  <2>5. /\ Len(existing) <= Len(longer)
        /\ \A i \in 1 .. Len(existing) : longer[i].name = existing[i].name
    BY <1>0, <1>1, <2>2 DEF Grows
  <2>6. ASSUME NEW b \in Len(existing) + 1 .. Len(longer), NEW a \in 1 .. b - 1
        PROVE  longer[a].name # longer[b].name
    <3>1. a \in 1 .. Len(list) /\ longer[a] = list[a] /\ b \in 1 .. Len(list) + 1
      BY <1>1, <2>2
    <3>2. CASE b = Len(list) + 1
      BY <1>2, <1>5, <2>2, <3>1, <3>2
    <3>3. CASE b # Len(list) + 1
      <4>1. b \in Len(existing) + 1 .. Len(list) /\ longer[b] = list[b]
        BY <1>1, <2>2, <3>1, <3>3
      <4> QED BY <1>0, <3>1, <4>1 DEF Grows
    <3> QED BY <3>2, <3>3
  <2>7. ASSUME NEW i \in 1 .. Len(longer) PROVE \E e \in Grown : Alike(longer[i], e, mm)
    <3>1. CASE i = Len(list) + 1
      BY <2>2, <2>4, <3>1
    <3>2. CASE i # Len(list) + 1
      <4>1. i \in 1 .. Len(list) /\ longer[i] = list[i]
        BY <1>1, <2>2, <3>2
      <4> QED BY <1>0, <4>1 DEF Grows
    <3> QED BY <3>1, <3>2
  <2>8. ASSUME NEW e \in Grown PROVE \E i \in 1 .. Len(longer) : Covers(longer[i], e, mm)
    <3>1. CASE e = item
      <4>1. Len(list) + 1 \in 1 .. Len(longer)
        BY <1>1, <2>2
      <4> QED BY <2>2, <2>4, <3>1, <4>1
    <3>2. CASE e \in seen
      <4>1. PICK i \in 1 .. Len(list) : Covers(list[i], e, mm)
        BY <1>5, <3>2 DEF MergedSoFar, list
      <4>2. i \in 1 .. Len(longer) /\ longer[i] = list[i]
        BY <1>1, <2>2
      <4> QED BY <4>1, <4>2
    <3> QED BY <3>1, <3>2
  <2>9. Grows(longer, existing, Grown, mm)
    BY <2>5, <2>6, <2>7 DEF Grows
  <2>10. MergedSoFar(Merged(longer), existing, Grown, mm)
    BY <2>3, <2>8, <2>9 DEF MergedSoFar
  <2> QED BY <2>1, <2>3, <2>10
<1>6. CASE acc.ok /\ item.name # NoName /\ position # 0 /\ list[position] = item
  <2>1. MergeItem(acc, item, mm) = acc
    BY <1>6 DEF MergeItem
  <2>2. Covers(list[position], item, mm) /\ position \in 1 .. Len(list)
    BY <1>2, <1>6 DEF Covers
  <2> QED BY <1>0, <1>6, <2>1, <2>2 DEF MergedSoFar
<1>7. CASE acc.ok /\ item.name # NoName /\ position # 0 /\ list[position] # item
           /\ both = Conflict
  <2>1. MergeItem(acc, item, mm) = Failure(list, "conflict")
    BY <1>7 DEF MergeItem
  <2>2. position \in 1 .. Len(list) /\ list[position] \in E /\ list[position].name = item.name
    BY <1>1, <1>2, <1>7
  <2>3. ~Alike(list[position], item, mm)
    BY <1>7, <2>2 DEF Unites, Alike
  <2>4. PICK d \in seen : Alike(list[position], d, mm)
    BY <1>0, <2>2 DEF Grows
  <2>5. d.name = item.name /\ ~Alike(d, item, mm)
    BY <2>2, <2>3, <2>4 DEF Alike
  <2> HIDE DEF list
  <2>6. Failure(list, "conflict") \in Outcome(E)
    BY <1>1 DEF Failure, Outcome
  <2>7. MergedSoFar(Failure(list, "conflict"), existing, Grown, mm)
    BY <1>0, <2>5 DEF MergedSoFar, Failure
  <2> QED BY <2>1, <2>6, <2>7
<1>8. CASE acc.ok /\ item.name # NoName /\ position # 0 /\ list[position] # item
           /\ both # Conflict
  <2> DEFINE changed == [list EXCEPT ![position] = both]
  <2>1. MergeItem(acc, item, mm) = Merged(changed)
    BY <1>8 DEF MergeItem
  <2>2. position \in 1 .. Len(list) /\ list[position] \in E /\ list[position].name = item.name
    BY <1>1, <1>2, <1>8
  <2>3. /\ mm /\ both \in E
        /\ Covers(both, list[position], mm) /\ Covers(both, item, mm)
    BY <1>8, <2>2 DEF Unites
  <2>4. /\ changed \in Seq(E) /\ Len(changed) = Len(list)
        /\ changed[position] = both
        /\ \A i \in 1 .. Len(list) : i # position => changed[i] = list[i]
    BY <1>1, <2>2, <2>3
  <2>5. Merged(changed) \in Outcome(E) /\ Merged(changed).ok /\ Merged(changed).value = changed
    BY <2>4 DEF Merged, Outcome
  <2>6. \A i \in 1 .. Len(list) :
            changed[i].name = list[i].name /\ Covers(changed[i], list[i], mm)
    BY <2>3, <2>4 DEF Covers
  <2> HIDE DEF changed, list, both
  <2>7. /\ Len(existing) <= Len(changed)
        /\ \A i \in 1 .. Len(existing) : changed[i].name = existing[i].name
    BY <1>0, <1>1, <2>4, <2>6 DEF Grows
  <2>8. ASSUME NEW b \in Len(existing) + 1 .. Len(changed), NEW a \in 1 .. b - 1
        PROVE  changed[a].name # changed[b].name
    <3>1. a \in 1 .. Len(list) /\ b \in 1 .. Len(list)
      BY <1>1, <2>4
    <3> QED BY <1>0, <2>4, <2>6, <3>1 DEF Grows
  <2>9. \A i \in 1 .. Len(changed) : \E e \in Grown : Alike(changed[i], e, mm)
    BY <1>0, <1>1, <2>3, <2>4, <2>6 DEF Grows, Alike, Covers
  <2>10. ASSUME NEW e \in Grown PROVE \E i \in 1 .. Len(changed) : Covers(changed[i], e, mm)
    <3>1. CASE e = item
      BY <2>2, <2>3, <2>4, <3>1
    <3>2. CASE e \in seen
      <4>1. PICK i \in 1 .. Len(list) : Covers(list[i], e, mm)
        BY <1>8, <3>2 DEF MergedSoFar, list
      <4>2. Covers(changed[i], e, mm)
        BY <2>3, <2>6, <4>1 DEF Covers
      <4> QED BY <2>4, <4>2
    <3> QED BY <3>1, <3>2
  <2> QED BY <2>1, <2>5, <2>7, <2>8, <2>9, <2>10 DEF MergedSoFar, Grows
<1> QED BY <1>3, <1>4, <1>5, <1>6, <1>7, <1>8

MergeAll(base, incoming, mergeMembers) ==
    FoldLeft(LAMBDA acc, item : MergeItem(acc, item, mergeMembers), base, incoming)

\* What MergeAll has after each item; what no item leads out of.
After(f, base, incoming, mergeMembers) ==
    /\ f[0] = base
    /\ \A k \in 1 .. Len(incoming) : f[k] = MergeItem(f[k - 1], incoming[k], mergeMembers)
    /\ MergeAll(base, incoming, mergeMembers) = f[Len(incoming)]
Closed(A, E, mergeMembers) ==
    \A acc \in A, item \in E : MergeItem(acc, item, mergeMembers) \in A

LEMMA MergeItemSteps ==
    ASSUME NEW E, NEW mm, NEW A, NEW base \in A, NEW incoming \in Seq(E), Closed(A, E, mm)
    PROVE  \E f \in [0 .. Len(incoming) -> A] : After(f, base, incoming, mm)
<1> DEFINE n == Len(incoming)
           Follows(g) == g = [s \in SUBSET (1 .. n) |->
                                 IF s = {} THEN base
                                 ELSE MergeItem(g[s \ {Max(s)}], incoming[Max(s)], mm)]
           next == [i \in 1 .. n |-> [acc \in A |-> MergeItem(acc, incoming[i], mm)]]
<1>1. n \in Nat /\ DOMAIN incoming = 1 .. n /\ \A i \in 1 .. n : incoming[i] \in E
  OBVIOUS
<1>2. \A acc \in A, i \in 1 .. n : MergeItem(acc, incoming[i], mm) \in A
  BY <1>1 DEF Closed
<1>3. \E g : Follows(g)
  <2>1. PICK g \in [SUBSET (1 .. n) -> A] : FoldsWith(g, next, base, n)
    <3>1. Steps(next, n, A)
      BY <1>2 DEF Steps
    <3> HIDE DEF n, next
    <3> QED BY <1>1, <3>1, FoldExists
  <2>2. ASSUME NEW s \in SUBSET (1 .. n), s # {}
        PROVE  next[Max(s)][g[s \ {Max(s)}]] = MergeItem(g[s \ {Max(s)}], incoming[Max(s)], mm)
    <3>1. Max(s) \in 1 .. n
      BY <1>1, <2>2, MaxIs
    <3>2. g[s \ {Max(s)}] \in A
      BY <2>1
    <3> QED BY <3>1, <3>2
  <2>3. \A s \in SUBSET (1 .. n) :
            g[s] = IF s = {} THEN base ELSE MergeItem(g[s \ {Max(s)}], incoming[Max(s)], mm)
    <3> HIDE DEF next
    <3> QED BY <2>1, <2>2 DEF FoldsWith
  <2>4. Follows(g)
    BY <2>3
  <2> QED BY <2>4
<1> DEFINE fold == MergeAll(base, incoming, mm)
<1>4. \E g : Follows(g) /\ fold = g[1 .. n]
  <2>1. fold = (CHOOSE g : Follows(g))[1 .. n]
    BY <1>1 DEF MergeAll, FoldLeft, MapThenFoldSet
  <2> HIDE DEF Follows, fold
  <2> QED BY <1>3, <2>1
<1>5. PICK g : Follows(g) /\ fold = g[1 .. n]
  BY <1>4
<1>6. g[1 .. 0] = base
  <2>1. 1 .. 0 = {} /\ {} \in SUBSET (1 .. n)
    OBVIOUS
  <2> QED BY <1>5, <2>1
<1>7. \A k \in 1 .. n : g[1 .. k] = MergeItem(g[1 .. (k - 1)], incoming[k], mm)
  <2> TAKE k \in 1 .. n
  <2>1. /\ 1 .. k \in SUBSET (1 .. n) /\ 1 .. k # {}
        /\ Max(1 .. k) = k /\ (1 .. k) \ {k} = 1 .. (k - 1)
    BY <1>1, UpTo
  <2> QED BY <1>5, <2>1
<1>8. \A k \in 0 .. n : g[1 .. k] \in A
  <2> DEFINE Typed == {k \in Nat : g[1 .. k] \in A}
  <2>1. 0 \in Typed
    BY <1>6
  <2>2. \A k \in 0 .. n : k \in Typed /\ k < n => k + 1 \in Typed
    <3> SUFFICES ASSUME NEW k \in 0 .. n, k \in Typed, k < n PROVE k + 1 \in Typed
      OBVIOUS
    <3>1. k + 1 \in Nat /\ k + 1 \in 1 .. n /\ (k + 1) - 1 = k
      BY <1>1
    <3>2. g[1 .. (k + 1)] = MergeItem(g[1 .. k], incoming[k + 1], mm)
      BY <1>7, <3>1
    <3> QED BY <1>2, <3>1, <3>2
  <2>3. \A k \in 0 .. n : k \in Typed
    <3> HIDE DEF Typed
    <3> QED BY <1>1, <2>1, <2>2, SetInduction
  <2> QED BY <2>3
<1> DEFINE f == [k \in 0 .. n |-> g[1 .. k]]
<1>9. 0 \in 0 .. n /\ n \in 0 .. n /\ \A k \in 1 .. n : k \in 0 .. n /\ k - 1 \in 0 .. n
  BY <1>1
<1>10. f \in [0 .. n -> A] /\ f[0] = base /\ f[n] = fold
  <2> HIDE DEF n, Follows, fold
  <2> QED BY <1>5, <1>6, <1>8, <1>9
<1>11. \A k \in 1 .. n : f[k] = MergeItem(f[k - 1], incoming[k], mm)
  BY <1>7, <1>9
<1> HIDE DEF f
<1> QED BY <1>10, <1>11 DEF After

\* A list of named entries as the merges of a call leave it: `first` is the list
\* it began with, `seen` the entries of all lists merged.
MergedList(list, first, seen, mergeMembers) ==
    /\ Grows(list, first, seen, mergeMembers)
    /\ \A e \in seen : \E i \in 1 .. Len(list) : Covers(list[i], e, mergeMembers)

LEMMA FirstListIsMerged ==
    ASSUME NEW E, NEW first \in Seq(E), NEW mm \in BOOLEAN
    PROVE  MergedList(first, first, ToSet(first), mm)
<1>1. Len(first) \in Nat /\ DOMAIN first = 1 .. Len(first)
  OBVIOUS
<1> QED BY <1>1 DEF MergedList, Grows, Alike, Covers, ToSet

\* From a list on, every item leads to an outcome of the merge.
LEMMA MergeSteps ==
    ASSUME NEW E, NEW mm \in BOOLEAN, Unites(E, mm),
           NEW existing \in Seq(E), NEW incoming \in Seq(E)
    PROVE  \E f \in [0 .. Len(incoming) -> Outcome(E)] : After(f, Merged(existing), incoming, mm)
<1> DEFINE base == Merged(existing)
           A == {o \in Outcome(E) : \E S \in SUBSET E : MergedSoFar(o, existing, S, mm)}
<1>1. base \in A
  <2>1. base \in Outcome(E) /\ base.ok /\ base.value = existing
    BY DEF Merged, Outcome
  <2>2. MergedList(existing, existing, ToSet(existing), mm)
    BY FirstListIsMerged
  <2>3. MergedSoFar(base, existing, ToSet(existing), mm)
    <3> HIDE DEF base
    <3> QED BY <2>1, <2>2 DEF MergedSoFar, MergedList
  <2>4. ToSet(existing) \in SUBSET E
    BY DEF ToSet
  <2> QED BY <2>1, <2>3, <2>4
<1>2. ASSUME NEW acc \in A, NEW item \in E PROVE MergeItem(acc, item, mm) \in A
  <2>1. PICK S \in SUBSET E : MergedSoFar(acc, existing, S, mm)
    OBVIOUS
  <2>2. /\ MergeItem(acc, item, mm) \in Outcome(E)
        /\ MergedSoFar(MergeItem(acc, item, mm), existing, S \cup {item}, mm)
    BY <2>1, MergeItemIs
  <2> QED BY <2>2
<1>3. A \subseteq Outcome(E)
  OBVIOUS
<1> HIDE DEF A, base
<1>4. Closed(A, E, mm)
  BY <1>2 DEF Closed
<1>5. PICK f \in [0 .. Len(incoming) -> A] : After(f, base, incoming, mm)
  BY <1>1, <1>4, MergeItemSteps
<1> QED BY <1>3, <1>5 DEF base

\* A merge that ends well has every entry of both lists and no other; a name
\* comes twice only where it came twice in the first.  One that fails has found
\* two entries that contradict each other, or one without a name.
LEMMA ListMergeIs ==
    ASSUME NEW E, NEW mm \in BOOLEAN, Unites(E, mm),
           NEW existing \in Seq(E), NEW incoming \in Seq(E)
    PROVE  /\ ListMerge(existing, incoming, mm) \in Outcome(E)
           /\ MergedSoFar(ListMerge(existing, incoming, mm), existing,
                          ToSet(existing) \cup ToSet(incoming), mm)
<1> DEFINE n == Len(incoming)
           seen(k) == ToSet(existing) \cup {incoming[i] : i \in 1 .. k}
           base == Merged(existing)
<1>1. /\ n \in Nat /\ DOMAIN incoming = 1 .. n /\ Len(existing) \in Nat
      /\ DOMAIN existing = 1 .. Len(existing) /\ \A i \in 1 .. n : incoming[i] \in E
  OBVIOUS
<1>2. seen(0) = ToSet(existing) /\ seen(n) = ToSet(existing) \cup ToSet(incoming)
  BY <1>1 DEF ToSet
<1>3. /\ Grows(existing, existing, ToSet(existing), mm)
      /\ \A e \in ToSet(existing) : \E i \in 1 .. Len(existing) : Covers(existing[i], e, mm)
  BY <1>1 DEF Grows, Alike, Covers, ToSet
<1>4. base \in Outcome(E) /\ base.ok /\ base.value = existing
  BY DEF Merged, Outcome
<1>5. MergedSoFar(base, existing, ToSet(existing), mm)
  BY <1>3, <1>4 DEF MergedSoFar
<1>6. CASE incoming = <<>>
  <2>1. ToSet(incoming) = {}
    BY <1>6 DEF ToSet
  <2>2. ListMerge(existing, incoming, mm) = base
    BY <1>6 DEF ListMerge, MergeLists
  <2> QED BY <1>4, <1>5, <2>1, <2>2
<1>7. CASE incoming # <<>> /\ Nameless(existing)
  <2> DEFINE refused == Failure(existing, "malformed")
             both == ToSet(existing) \cup ToSet(incoming)
  <2>1. ListMerge(existing, incoming, mm) = refused
    BY <1>7 DEF ListMerge, MergeLists
  <2>2. refused \in Outcome(E) /\ ~refused.ok /\ refused.value = existing
        /\ refused.why = "malformed"
    BY DEF Failure, Outcome
  <2>3. \E e \in both : e.name = NoName
    BY <1>7 DEF Nameless, ToSet
  <2>4. Grows(existing, existing, both, mm)
    BY <1>3 DEF Grows
  <2>5. MergedSoFar(refused, existing, both, mm)
    <3> HIDE DEF refused, both
    <3> QED BY <2>2, <2>3, <2>4 DEF MergedSoFar
  <2> QED BY <2>1, <2>2, <2>5
<1>8. CASE incoming # <<>> /\ ~Nameless(existing)
  <2>1. PICK f \in [0 .. n -> Outcome(E)] : After(f, base, incoming, mm)
    BY MergeSteps
  <2>2. /\ f[0] = base
        /\ \A k \in 1 .. n : f[k] = MergeItem(f[k - 1], incoming[k], mm)
        /\ MergeAll(base, incoming, mm) = f[n]
    BY <2>1 DEF After
  <2> HIDE DEF base
  <2> DEFINE Good == {k \in Nat : MergedSoFar(f[k], existing, seen(k), mm)}
  <2>3. 0 \in Good
    BY <1>2, <1>5, <2>2
  <2>4. ASSUME NEW k \in 0 .. n, k \in Good, k < n PROVE k + 1 \in Good
    <3>1. k + 1 \in Nat /\ k + 1 \in 1 .. n /\ (k + 1) - 1 = k
          /\ 1 .. (k + 1) = (1 .. k) \cup {k + 1} /\ k \in 0 .. n
      BY <1>1, <2>4
    <3>2. seen(k + 1) = seen(k) \cup {incoming[k + 1]}
      BY <3>1
    <3>3. f[k + 1] = MergeItem(f[k], incoming[k + 1], mm)
      BY <2>2, <3>1
    <3>4. f[k] \in Outcome(E) /\ incoming[k + 1] \in E /\ MergedSoFar(f[k], existing, seen(k), mm)
      BY <1>1, <2>1, <2>4, <3>1
    <3> HIDE DEF seen
    <3>5. MergedSoFar(f[k + 1], existing, seen(k + 1), mm)
      BY <3>2, <3>3, <3>4, MergeItemIs
    <3> QED BY <3>1, <3>5
  <2>5. \A k \in 0 .. n : k \in Good
    <3>1. \A k \in 0 .. n : k \in Good /\ k < n => k + 1 \in Good
      BY <2>4
    <3> HIDE DEF Good
    <3> QED BY <1>1, <2>3, <3>1, SetInduction
  <2>6. n \in 0 .. n /\ f[n] \in Outcome(E)
    BY <1>1, <2>1
  <2>7. ListMerge(existing, incoming, mm) = f[n]
    BY <1>8, <2>2 DEF ListMerge, MergeLists, MergeAll, base
  <2> QED BY <1>2, <2>5, <2>6, <2>7
<1> QED BY <1>6, <1>7, <1>8

\* A merged list, or the reason why it is none.
MergedOrRefused(m, E, first, seen, mergeMembers) ==
    /\ m.ok => m.value \in Seq(E) /\ MergedList(m.value, first, seen, mergeMembers)
    /\ ~m.ok /\ m.why = "conflict" =>
           \E d, e \in seen : d.name = e.name /\ ~Alike(d, e, mergeMembers)
    /\ ~m.ok /\ m.why = "malformed" => \E e \in seen : e.name = NoName

\* One more list: the merged list stays one, or two entries of the lists that
\* were served are the reason why not.
LEMMA NextListMerges ==
    ASSUME NEW E, NEW mm \in BOOLEAN, Unites(E, mm), NEW seen,
           NEW first \in Seq(E), NEW list \in Seq(E), NEW incoming \in Seq(E),
           MergedList(list, first, seen, mm),
           NEW m, m = ListMerge(list, incoming, mm)
    PROVE  MergedOrRefused(m, E, first, seen \cup ToSet(incoming), mm)
<1> DEFINE all == seen \cup ToSet(incoming)
           near == ToSet(list) \cup ToSet(incoming)
           longer == m.value
<1>1. m \in Outcome(E) /\ MergedSoFar(m, list, near, mm)
  BY ListMergeIs
<1>2. longer \in Seq(E)
  BY <1>1 DEF Outcome
<1>3. /\ Len(list) \in Nat /\ Len(first) \in Nat /\ Len(longer) \in Nat
      /\ DOMAIN list = 1 .. Len(list) /\ Len(first) <= Len(list)
  BY <1>2 DEF MergedList, Grows
<1>4. Grows(list, first, seen, mm) /\ Grows(longer, list, near, mm)
  BY <1>1 DEF MergedList, MergedSoFar
<1>5. ASSUME NEW d \in near PROVE \E e \in all : Alike(d, e, mm) /\ d.name = e.name
  <2>1. CASE d \in ToSet(incoming)
    BY <2>1 DEF Alike
  <2>2. CASE d \in ToSet(list)
    <3>1. PICK i \in 1 .. Len(list) : d = list[i]
      BY <1>3, <2>2 DEF ToSet
    <3>2. PICK e \in seen : Alike(list[i], e, mm)
      BY <1>4 DEF Grows
    <3> QED BY <3>1, <3>2 DEF Alike
  <2> QED BY <2>1, <2>2
<1>6. \A a, b, c : Alike(a, b, mm) /\ Alike(b, c, mm) => Alike(a, c, mm)
  BY DEF Alike
<1>7. \A a, b : Alike(a, b, mm) => Alike(b, a, mm)
  BY DEF Alike
<1>8. \A a, b, c : Covers(a, b, mm) /\ Covers(b, c, mm) => Covers(a, c, mm)
  BY DEF Covers
<1> HIDE DEF all, near, longer
<1>9. ASSUME m.ok PROVE MergedList(longer, first, all, mm)
  <2>1. Len(first) <= Len(longer) /\ Len(list) <= Len(longer)
    BY <1>3, <1>4 DEF Grows
  <2>2. \A i \in 1 .. Len(first) : longer[i].name = first[i].name
    BY <1>3, <1>4 DEF Grows
  <2>3. ASSUME NEW b \in Len(first) + 1 .. Len(longer), NEW a \in 1 .. b - 1
        PROVE  longer[a].name # longer[b].name
    <3>1. CASE b \in Len(list) + 1 .. Len(longer)
      BY <1>4, <3>1 DEF Grows
    <3>2. CASE b \in Len(first) + 1 .. Len(list)
      <4>1. a \in 1 .. Len(list) /\ b \in 1 .. Len(list)
        BY <1>3, <3>2
      <4>2. longer[a].name = list[a].name /\ longer[b].name = list[b].name
        BY <1>4, <4>1 DEF Grows
      <4> QED BY <1>4, <3>2, <4>2 DEF Grows
    <3> QED BY <1>3, <3>1, <3>2
  <2>4. ASSUME NEW i \in 1 .. Len(longer) PROVE \E e \in all : Alike(longer[i], e, mm)
    <3>1. PICK d \in near : Alike(longer[i], d, mm)
      BY <1>4 DEF Grows
    <3> QED BY <1>5, <1>6, <3>1
  <2>5. ASSUME NEW e \in all PROVE \E i \in 1 .. Len(longer) : Covers(longer[i], e, mm)
    <3>1. \A d \in near : \E i \in 1 .. Len(longer) : Covers(longer[i], d, mm)
      BY <1>1, <1>9 DEF MergedSoFar, longer
    <3>2. CASE e \in ToSet(incoming)
      BY <3>1, <3>2 DEF near
    <3>3. CASE e \in seen
      <4>1. PICK j \in 1 .. Len(list) : Covers(list[j], e, mm)
        BY <3>3 DEF MergedList
      <4>2. list[j] \in near
        BY <1>3 DEF near, ToSet
      <4> QED BY <1>8, <3>1, <4>1, <4>2
    <3> QED BY <3>2, <3>3 DEF all
  <2>6. Grows(longer, first, all, mm)
    BY <2>1, <2>2, <2>3, <2>4 DEF Grows
  <2> QED BY <2>5, <2>6 DEF MergedList
<1>10. ASSUME ~m.ok, m.why = "conflict"
       PROVE  \E d, e \in all : d.name = e.name /\ ~Alike(d, e, mm)
  <2>1. PICK d \in near, e \in near : d.name = e.name /\ ~Alike(d, e, mm)
    BY <1>1, <1>10 DEF MergedSoFar
  <2>2. PICK d2 \in all : Alike(d, d2, mm) /\ d.name = d2.name
    BY <1>5
  <2>3. PICK e2 \in all : Alike(e, e2, mm) /\ e.name = e2.name
    BY <1>5
  <2>4. ~Alike(d2, e2, mm)
    BY <1>6, <1>7, <2>1, <2>2, <2>3
  <2> QED BY <2>1, <2>2, <2>3, <2>4
<1>11. ASSUME ~m.ok, m.why = "malformed" PROVE \E e \in all : e.name = NoName
  <2>1. PICK d \in near : d.name = NoName
    BY <1>1, <1>11 DEF MergedSoFar
  <2>2. PICK e \in all : d.name = e.name
    BY <1>5
  <2> QED BY <2>1, <2>2
<1> QED BY <1>2, <1>9, <1>10, <1>11 DEF MergedOrRefused, all, longer

\* A section instead of a list.
LEMMA SectionMerges ==
    ASSUME NEW E, NEW mm \in BOOLEAN, Unites(E, mm), NEW target, NEW source,
           AsSlice(target) \in Seq(E), AsSlice(source) \in Seq(E),
           NEW m, m = MergeNamedList(target, source, mm),
           NEW l, l = ListMerge(AsSlice(target), AsSlice(source), mm)
    PROVE  (m.ok <=> l.ok) /\ AsSlice(m.value) = l.value /\ (~m.ok => m.why = l.why)
<1>1. CASE AsSlice(source) = <<>>
  BY <1>1 DEF MergeNamedList, ListMerge, Merged
<1>2. CASE AsSlice(source) # <<>>
  <2> DEFINE list == MergeLists(AsSlice(target), AsSlice(source), mm)
  <2>1. l = list /\ l \in Outcome(E)
    BY <1>2, ListMergeIs DEF ListMerge
  <2>2. m = [l EXCEPT !.value = List(@)]
    BY <1>2, <2>1 DEF MergeNamedList
  <2>3. m.ok = l.ok /\ m.value = List(l.value) /\ (~l.ok => m.why = l.why)
    BY <2>1, <2>2 DEF Outcome
  <2> QED BY <2>3 DEF List, AsSlice
<1> QED BY <1>1, <1>2

\* The rules of two documents, by their printed forms.
LEMMA RulesMerge ==
    ASSUME NEW X, NEW target, NEW source, AsSlice(target) \in Seq(X), AsSlice(source) \in Seq(X),
           NEW m, m = MergeRules(target, source)
    PROVE  /\ m.ok /\ AsSlice(m.value) \in Seq(X)
           /\ Prints(AsSlice(m.value)) =
                  AppendNew(Prints(AsSlice(target)), Prints(AsSlice(source)))
           /\ PrintsIn(m.value) = PrintsIn(target) \cup PrintsIn(source)
<1> DEFINE left == AsSlice(target)
           right == AsSlice(source)
           both == AppendUnseen(left, right)
<1>1. CASE source.kind = "list"
  <2>1. /\ both \in Seq(X) /\ Prints(both) = AppendNew(Prints(left), Prints(right))
        /\ ToSet(Prints(both)) = ToSet(Prints(left)) \cup ToSet(Prints(right))
    BY AppendUnseenPrints
  <2>2. m = Merged(List(both))
    BY <1>1 DEF MergeRules
  <2> HIDE DEF both
  <2>3. m.ok /\ AsSlice(m.value) = both
    BY <2>2 DEF Merged, List, AsSlice
  <2> QED BY <2>1, <2>3 DEF PrintsIn
<1>2. CASE source.kind # "list"
  <2>1. m.ok /\ m.value = target
    BY <1>2 DEF MergeRules, Merged
  <2>2. right = <<>> /\ Prints(right) = <<>>
    BY <1>2 DEF AsSlice, Prints
  <2>3. Len(Prints(right)) = 0 /\ Prints(right) \in Seq({Printed(x) : x \in X})
        /\ Prints(left) \in Seq({Printed(x) : x \in X})
    BY <2>2, PrintsAre
  <2> HIDE DEF left, right
  <2>4. PICK f \in [0 .. Len(Prints(right)) -> Seq({Printed(x) : x \in X})] :
            Appends(f, Prints(left), Prints(right))
    BY <2>3, AppendNewSteps
  <2>5. AppendNew(Prints(left), Prints(right)) = Prints(left)
    BY <2>3, <2>4 DEF Appends
  <2>6. ToSet(Prints(right)) = {}
    BY <2>2 DEF ToSet
  <2> QED BY <2>1, <2>5, <2>6 DEF PrintsIn, left, right
<1> QED BY <1>1, <1>2

\* The providers of two documents.
ProvidersMergedOrRefused(m, ours, theirs) ==
    /\ DOMAIN ours \cap DOMAIN theirs # {} => ~m.ok /\ m.why = "conflict"
    /\ DOMAIN ours \cap DOMAIN theirs = {} =>
          /\ m.ok /\ DOMAIN AsMap(m.value) = DOMAIN ours \cup DOMAIN theirs
          /\ \A name \in DOMAIN ours : AsMap(m.value)[name] = ours[name]
          /\ \A name \in DOMAIN theirs : AsMap(m.value)[name] = theirs[name]

LEMMA ProvidersMerge ==
    ASSUME NEW target, NEW source, NEW m, m = MergeProviders(target, source),
           NEW ours, ours = AsMap(target), NEW theirs, theirs = AsMap(source)
    PROVE  ProvidersMergedOrRefused(m, ours, theirs)
<1> USE DEF ProvidersMergedOrRefused
<1>1. CASE DOMAIN theirs = {}
  BY <1>1 DEF MergeProviders, Merged
<1>2. CASE DOMAIN theirs # {} /\ DOMAIN ours \cap DOMAIN theirs # {}
  BY <1>2 DEF MergeProviders, Failure
<1>3. CASE DOMAIN theirs # {} /\ DOMAIN ours \cap DOMAIN theirs = {}
  <2> DEFINE both == [name \in DOMAIN ours \cup DOMAIN theirs |->
                         IF name \in DOMAIN ours THEN ours[name] ELSE theirs[name]]
  <2>1. m = Merged(Map(both))
    BY <1>3 DEF MergeProviders
  <2>2. /\ DOMAIN both = DOMAIN ours \cup DOMAIN theirs
        /\ \A name \in DOMAIN ours : both[name] = ours[name]
        /\ \A name \in DOMAIN theirs : both[name] = theirs[name]
    BY <1>3
  <2> HIDE DEF both
  <2>3. m.ok /\ AsMap(m.value) = both
    BY <2>1 DEF Merged, Map, AsMap
  <2> QED BY <1>3, <2>2, <2>3
<1> QED BY <1>1, <1>2, <1>3

SectionMergedOrRefused(m, E, first, seen, mergeMembers) ==
    /\ m.ok => /\ AsSlice(m.value) \in Seq(E)
               /\ MergedList(AsSlice(m.value), first, seen, mergeMembers)
    /\ ~m.ok /\ m.why = "conflict" =>
           \E d, e \in seen : d.name = e.name /\ ~Alike(d, e, mergeMembers)
    /\ ~m.ok /\ m.why = "malformed" => \E e \in seen : e.name = NoName

LEMMA NextSectionMerges ==
    ASSUME NEW E, NEW mm \in BOOLEAN, Unites(E, mm), NEW seen,
           NEW first \in Seq(E), NEW target, NEW source,
           AsSlice(target) \in Seq(E), AsSlice(source) \in Seq(E),
           MergedList(AsSlice(target), first, seen, mm),
           NEW m, m = MergeNamedList(target, source, mm)
    PROVE  SectionMergedOrRefused(m, E, first, seen \cup ToSet(AsSlice(source)), mm)
<1> DEFINE l == ListMerge(AsSlice(target), AsSlice(source), mm)
           all == seen \cup ToSet(AsSlice(source))
<1>1. (m.ok <=> l.ok) /\ AsSlice(m.value) = l.value /\ (~m.ok => m.why = l.why)
  BY SectionMerges
<1>2. MergedOrRefused(l, E, first, all, mm)
  BY NextListMerges
<1> HIDE DEF l, all
<1>3. SectionMergedOrRefused(m, E, first, all, mm)
  BY <1>1, <1>2 DEF MergedOrRefused, SectionMergedOrRefused
<1> QED BY <1>3 DEF all

-----------------------------------------------------------------------------
(***************************************************************************)
(* Order.  `all` is everything that was served, one list after the other.  *)
(***************************************************************************)

\* `x` is in the list before any `y`.
Precedes(list, x, y) ==
    \E i \in 1 .. Len(list) : list[i] = x /\ \A j \in 1 .. i : list[j] # y

KeepsOrder(list, all) ==
    /\ ToSet(list) = ToSet(all)
    /\ \A x, y : Precedes(list, x, y) => Precedes(all, x, y)

LEMMA OrderOfAppend ==
    ASSUME NEW X, NEW list \in Seq(X), NEW item \in X
    PROVE  /\ Append(list, item) \in Seq(X)
           /\ ToSet(Append(list, item)) = ToSet(list) \cup {item}
           /\ \A x, y : Precedes(Append(list, item), x, y) <=>
                  \/ Precedes(list, x, y)
                  \/ x = item /\ y # item /\ y \notin ToSet(list)
<1> DEFINE longer == Append(list, item)
           n == Len(list)
<1>1. /\ longer \in Seq(X) /\ Len(longer) = n + 1 /\ longer[n + 1] = item /\ n \in Nat
      /\ \A i \in 1 .. n : longer[i] = list[i]
      /\ DOMAIN longer = 1 .. n + 1 /\ DOMAIN list = 1 .. n
      /\ 1 .. n + 1 = (1 .. n) \cup {n + 1}
  BY AppendProperties
<1> HIDE DEF longer, n
<1>2. ToSet(longer) = ToSet(list) \cup {item}
  BY <1>1 DEF ToSet
<1>3. ASSUME NEW x, NEW y, Precedes(list, x, y) PROVE Precedes(longer, x, y)
  <2>1. PICK i \in 1 .. n : list[i] = x /\ \A j \in 1 .. i : list[j] # y
    BY <1>3 DEF Precedes, n
  <2>2. i \in 1 .. n + 1 /\ \A j \in 1 .. i : j \in 1 .. n
    BY <1>1
  <2> QED BY <1>1, <2>1, <2>2 DEF Precedes
<1>4. ASSUME NEW x, NEW y, x = item, y # item, y \notin ToSet(list) PROVE Precedes(longer, x, y)
  <2>1. \A j \in 1 .. n : list[j] # y
    BY <1>1, <1>4 DEF ToSet
  <2>2. longer[n + 1] = x /\ n + 1 \in 1 .. n + 1 /\ \A j \in 1 .. n + 1 : longer[j] # y
    BY <1>1, <1>4, <2>1
  <2> QED BY <1>1, <2>2 DEF Precedes
<1>5. ASSUME NEW x, NEW y, Precedes(longer, x, y), ~Precedes(list, x, y)
      PROVE  x = item /\ y # item /\ y \notin ToSet(list)
  <2>1. PICK i \in 1 .. n + 1 : longer[i] = x /\ \A j \in 1 .. i : longer[j] # y
    BY <1>1, <1>5 DEF Precedes
  <2>2. i = n + 1
    <3> SUFFICES ASSUME i # n + 1 PROVE FALSE
      OBVIOUS
    <3>1. i \in 1 .. n /\ \A j \in 1 .. i : j \in 1 .. n
      BY <1>1
    <3> QED BY <1>1, <1>5, <2>1, <3>1 DEF Precedes, n
  <2> QED BY <1>1, <2>1, <2>2 DEF ToSet
<1> QED BY <1>1, <1>2, <1>3, <1>4, <1>5 DEF longer

\* An item that is appended only when it is new keeps the order.
LEMMA UnseenKeepsOrder ==
    ASSUME NEW X, NEW list \in Seq(X), NEW all \in Seq(X), NEW item \in X,
           KeepsOrder(list, all)
    PROVE  KeepsOrder(Unseen(list, item), Append(all, item))
<1>1. /\ Append(list, item) \in Seq(X) /\ ToSet(Append(list, item)) = ToSet(list) \cup {item}
      /\ \A x, y : Precedes(Append(list, item), x, y) <=>
             \/ Precedes(list, x, y)
             \/ x = item /\ y # item /\ y \notin ToSet(list)
  BY OrderOfAppend
<1>2. /\ ToSet(Append(all, item)) = ToSet(all) \cup {item}
      /\ \A x, y : Precedes(Append(all, item), x, y) <=>
             \/ Precedes(all, x, y)
             \/ x = item /\ y # item /\ y \notin ToSet(all)
  BY OrderOfAppend
<1>3. CASE Contains(list, item)
  <2>1. Unseen(list, item) = list /\ item \in ToSet(list)
    BY <1>3 DEF Unseen, Contains, ToSet
  <2> QED BY <1>2, <2>1 DEF KeepsOrder
<1>4. CASE ~Contains(list, item)
  <2>1. Unseen(list, item) = Append(list, item)
    BY <1>4 DEF Unseen
  <2> QED BY <1>1, <1>2, <2>1 DEF KeepsOrder
<1> QED BY <1>3, <1>4

\* `all` with the first items of another list appended.
LongerBy(all, right, k) == all \o SubSeq(right, 1, k)

LEMMA LongerByOne ==
    ASSUME NEW X, NEW all \in Seq(X), NEW right \in Seq(X)
    PROVE  /\ LongerBy(all, right, 0) = all
           /\ LongerBy(all, right, Len(right)) = all \o right
           /\ \A k \in 0 .. Len(right) : LongerBy(all, right, k) \in Seq(X)
           /\ \A k \in 1 .. Len(right) :
                 LongerBy(all, right, k) = Append(LongerBy(all, right, k - 1), right[k])
  BY DEF LongerBy

LEMMA AppendNewKeepsOrder ==
    ASSUME NEW X, NEW left \in Seq(X), NEW right \in Seq(X), NEW all \in Seq(X),
           KeepsOrder(left, all)
    PROVE  KeepsOrder(AppendNew(left, right), all \o right)
<1>1. Len(right) \in Nat /\ \A i \in 1 .. Len(right) : right[i] \in X
  OBVIOUS
<1>2. PICK f \in [0 .. Len(right) -> Seq(X)] : Appends(f, left, right)
  BY AppendNewSteps
<1>3. /\ LongerBy(all, right, 0) = all
      /\ LongerBy(all, right, Len(right)) = all \o right
      /\ \A k \in 0 .. Len(right) : LongerBy(all, right, k) \in Seq(X)
      /\ \A k \in 1 .. Len(right) :
            LongerBy(all, right, k) = Append(LongerBy(all, right, k - 1), right[k])
  BY LongerByOne
<1> DEFINE n == Len(right)
           Ordered == {k \in Nat : KeepsOrder(f[k], LongerBy(all, right, k))}
<1>4. 0 \in Ordered
  <2> HIDE DEF n
  <2> QED BY <1>2, <1>3 DEF Appends
<1>5. ASSUME NEW k \in 0 .. n, k \in Ordered, k < n PROVE k + 1 \in Ordered
  <2>1. k + 1 \in Nat /\ k + 1 \in 1 .. n /\ (k + 1) - 1 = k
    BY <1>1, <1>5
  <2>2. /\ f[k + 1] = Unseen(f[k], right[k + 1])
        /\ LongerBy(all, right, k + 1) = Append(LongerBy(all, right, k), right[k + 1])
    BY <1>2, <1>3, <2>1 DEF Appends
  <2>3. f[k] \in Seq(X) /\ LongerBy(all, right, k) \in Seq(X) /\ right[k + 1] \in X
    BY <1>1, <1>2, <1>3, <2>1
  <2>4. KeepsOrder(f[k + 1], LongerBy(all, right, k + 1))
    BY <1>5, <2>2, <2>3, UnseenKeepsOrder
  <2> QED BY <2>1, <2>4
<1>6. \A k \in 0 .. n : k \in Ordered
  <2>1. \A k \in 0 .. n : k \in Ordered /\ k < n => k + 1 \in Ordered
    BY <1>5
  <2> HIDE DEF Ordered
  <2> QED BY <1>1, <1>4, <2>1, SetInduction
<1>7. n \in 0 .. n
  BY <1>1
<1> QED BY <1>2, <1>3, <1>6, <1>7 DEF Appends

\* Entries are ordered by their names where entries of one name are merged.
Key(e, mergeMembers) == IF mergeMembers THEN e.name ELSE e
Keys(list, mergeMembers) == [i \in DOMAIN list |-> Key(list[i], mergeMembers)]
KeySet(E, mergeMembers) == {Key(e, mergeMembers) : e \in E}

LEMMA KeysAre ==
    ASSUME NEW E, NEW mm \in BOOLEAN, NEW list \in Seq(E)
    PROVE  /\ Keys(list, mm) \in Seq(KeySet(E, mm)) /\ Len(Keys(list, mm)) = Len(list)
           /\ \A i \in 1 .. Len(list) : Keys(list, mm)[i] = Key(list[i], mm)
           /\ Keys(list, FALSE) = list
<1>1. /\ Len(list) \in Nat /\ list = [i \in 1 .. Len(list) |-> list[i]]
      /\ \A i \in 1 .. Len(list) : list[i] \in E
  OBVIOUS
<1>2. Keys(list, mm) = [i \in 1 .. Len(list) |-> Key(list[i], mm)]
  BY <1>1 DEF Keys
<1>3. Keys(list, FALSE) = list
  BY <1>1 DEF Keys, Key
<1>4. \A i \in 1 .. Len(list) : Key(list[i], mm) \in KeySet(E, mm)
  BY <1>1 DEF KeySet
<1>5. Keys(list, mm) \in [1 .. Len(list) -> KeySet(E, mm)]
  BY <1>2, <1>4
<1>6. Keys(list, mm) \in Seq(KeySet(E, mm)) /\ Len(Keys(list, mm)) = Len(list)
  <2> HIDE DEF Keys
  <2> QED BY <1>1, <1>5
<1>7. \A i \in 1 .. Len(list) : Keys(list, mm)[i] = Key(list[i], mm)
  BY <1>2
<1> QED BY <1>3, <1>6, <1>7

\* An item that is merged is appended when its key is new, and only then.
LEMMA ItemKeys ==
    ASSUME NEW E, NEW mm \in BOOLEAN, Unites(E, mm), NEW acc \in Outcome(E), NEW item \in E,
           MergeItem(acc, item, mm).ok
    PROVE  /\ acc.ok
           /\ Keys(MergeItem(acc, item, mm).value, mm) =
                  Unseen(Keys(acc.value, mm), Key(item, mm))
<1> DEFINE list == acc.value
           position == Position(list, item.name)
           both == IF mm THEN MergeGroup(list[position], item) ELSE Conflict
<1>1. list \in Seq(E) /\ Len(list) \in Nat
  <2>1. list \in Seq(E)
    BY DEF Outcome
  <2> QED BY <2>1
<1>2. /\ position \in 0 .. Len(list)
      /\ position = 0 => \A i \in 1 .. Len(list) : list[i].name # item.name
      /\ position # 0 => list[position].name = item.name
  BY <1>1, PositionIs
<1>3. /\ Keys(list, mm) \in Seq(KeySet(E, mm)) /\ Len(Keys(list, mm)) = Len(list)
      /\ \A i \in 1 .. Len(list) : Keys(list, mm)[i] = Key(list[i], mm)
  BY <1>1, KeysAre
<1>4. acc.ok /\ item.name # NoName
  BY DEF MergeItem, Failure
<1>5. CASE position = 0
  <2>1. MergeItem(acc, item, mm) = Merged(Append(list, item))
    BY <1>4, <1>5 DEF MergeItem
  <2>2. ~Contains(Keys(list, mm), Key(item, mm))
    BY <1>2, <1>3, <1>5 DEF Contains, Key
  <2>3. Keys(Append(list, item), mm) = Append(Keys(list, mm), Key(item, mm))
    <3>1. /\ Append(list, item) = [i \in 1 .. Len(list) + 1 |->
                                      IF i = Len(list) + 1 THEN item ELSE list[i]]
          /\ Append(Keys(list, mm), Key(item, mm)) =
                 [i \in 1 .. Len(list) + 1 |->
                     IF i = Len(list) + 1 THEN Key(item, mm) ELSE Keys(list, mm)[i]]
      BY <1>1, <1>3
    <3>2. \A i \in 1 .. Len(list) + 1 : i # Len(list) + 1 => i \in 1 .. Len(list)
      BY <1>1
    <3> HIDE DEF list
    <3> QED BY <1>1, <1>3, <3>1, <3>2 DEF Keys
  <2> QED BY <1>4, <2>1, <2>2, <2>3 DEF Unseen, Merged
<1>6. CASE position # 0
  <2>1. position \in 1 .. Len(list) /\ list[position] \in E
    BY <1>1, <1>2, <1>6
  <2>2. CASE list[position] = item
    <3>1. MergeItem(acc, item, mm) = acc
      BY <1>4, <1>6, <2>2 DEF MergeItem
    <3>2. Contains(Keys(list, mm), Key(item, mm))
      BY <1>3, <2>1, <2>2 DEF Contains
    <3> QED BY <3>1, <3>2 DEF Unseen
  <2>3. CASE list[position] # item
    <3>1. both # Conflict /\ mm
      BY <1>4, <1>6, <2>3 DEF MergeItem, Failure
    <3> DEFINE changed == [list EXCEPT ![position] = both]
    <3>2. MergeItem(acc, item, mm) = Merged(changed)
      BY <1>4, <1>6, <2>3, <3>1 DEF MergeItem
    <3>3. both.name = list[position].name
      BY <2>1, <3>1 DEF Unites, Covers
    <3>4. Contains(Keys(list, mm), Key(item, mm))
      BY <1>2, <1>3, <1>6, <2>1, <3>1 DEF Contains, Key
    <3>5. Keys(changed, mm) = Keys(list, mm)
      BY <3>1, <3>3 DEF Keys, Key
    <3> QED BY <1>4, <3>2, <3>4, <3>5 DEF Unseen, Merged
  <2> QED BY <2>2, <2>3
<1> QED BY <1>4, <1>5, <1>6

\* What is merged is in the order of the lists that were merged.
LEMMA MergedKeys ==
    ASSUME NEW E, NEW mm \in BOOLEAN, Unites(E, mm),
           NEW existing \in Seq(E), NEW incoming \in Seq(E),
           ListMerge(existing, incoming, mm).ok
    PROVE  Keys(ListMerge(existing, incoming, mm).value, mm) =
               AppendNew(Keys(existing, mm), Keys(incoming, mm))
<1> DEFINE left == Keys(existing, mm)
           right == Keys(incoming, mm)
           n == Len(incoming)
<1>1. /\ left \in Seq(KeySet(E, mm)) /\ right \in Seq(KeySet(E, mm)) /\ Len(right) = n
      /\ n \in Nat /\ \A i \in 1 .. n : right[i] = Key(incoming[i], mm) /\ incoming[i] \in E
  <2>1. n \in Nat /\ \A i \in 1 .. n : incoming[i] \in E
    OBVIOUS
  <2> QED BY <2>1, KeysAre
<1> HIDE DEF left, right
<1>2. PICK g \in [0 .. Len(right) -> Seq(KeySet(E, mm))] : Appends(g, left, right)
  BY <1>1, AppendNewSteps
<1>3. CASE incoming = <<>>
  <2>1. n = 0 /\ ListMerge(existing, incoming, mm) = Merged(existing)
    BY <1>3 DEF ListMerge, MergeLists
  <2> QED BY <1>1, <1>2, <2>1 DEF Appends, Merged, left, right
<1>4. CASE incoming # <<>>
  <2>1. PICK f \in [0 .. n -> Outcome(E)] : After(f, Merged(existing), incoming, mm)
    BY MergeSteps
  <2> DEFINE Same == {k \in Nat : f[k].ok => Keys(f[k].value, mm) = g[k]}
  <2>2. 0 \in Same
    BY <1>2, <2>1 DEF After, Appends, Merged, left
  <2>3. ASSUME NEW k \in 0 .. n, k \in Same, k < n PROVE k + 1 \in Same
    <3>1. k + 1 \in Nat /\ k + 1 \in 1 .. n /\ (k + 1) - 1 = k
      BY <1>1, <2>3
    <3>2. f[k + 1] = MergeItem(f[k], incoming[k + 1], mm) /\ f[k] \in Outcome(E)
      BY <2>1, <3>1 DEF After
    <3>3. g[k + 1] = Unseen(g[k], Key(incoming[k + 1], mm))
      BY <1>1, <1>2, <3>1 DEF Appends
    <3>4. ASSUME f[k + 1].ok PROVE Keys(f[k + 1].value, mm) = g[k + 1]
      <4>1. incoming[k + 1] \in E /\ MergeItem(f[k], incoming[k + 1], mm).ok
        BY <1>1, <3>1, <3>2, <3>4
      <4>2. /\ f[k].ok
            /\ Keys(f[k + 1].value, mm) = Unseen(Keys(f[k].value, mm), Key(incoming[k + 1], mm))
        BY <3>2, <4>1, ItemKeys
      <4> QED BY <2>3, <3>3, <4>2
    <3> QED BY <3>1, <3>4
  <2>4. \A k \in 0 .. n : k \in Same
    <3>1. \A k \in 0 .. n : k \in Same /\ k < n => k + 1 \in Same
      BY <2>3
    <3> HIDE DEF Same, n
    <3> QED BY <1>1, <2>2, <3>1, SetInduction
  <2>5. ListMerge(existing, incoming, mm) = f[n]
    <3>1. ~Nameless(existing)
      BY <1>4 DEF ListMerge, MergeLists, Failure
    <3> QED BY <1>4, <2>1, <3>1 DEF ListMerge, MergeLists, MergeAll, After
  <2>6. n \in 0 .. n
    BY <1>1
  <2> QED BY <1>1, <1>2, <2>4, <2>5, <2>6 DEF Appends, left, right
<1> QED BY <1>3, <1>4

\* One more list of named entries; the first list is in its own order.
LEMMA NextListKeepsOrder ==
    ASSUME NEW E, NEW mm \in BOOLEAN, Unites(E, mm), NEW all \in Seq(KeySet(E, mm)),
           NEW list \in Seq(E), NEW incoming \in Seq(E), KeepsOrder(Keys(list, mm), all),
           NEW m, m = ListMerge(list, incoming, mm), m.ok
    PROVE  KeepsOrder(Keys(m.value, mm), all \o Keys(incoming, mm))
<1>1. Keys(list, mm) \in Seq(KeySet(E, mm)) /\ Keys(incoming, mm) \in Seq(KeySet(E, mm))
  BY KeysAre
<1>2. Keys(m.value, mm) = AppendNew(Keys(list, mm), Keys(incoming, mm))
  BY MergedKeys
<1> QED BY <1>1, <1>2, AppendNewKeepsOrder

LEMMA NextSectionKeepsOrder ==
    ASSUME NEW E, NEW mm \in BOOLEAN, Unites(E, mm), NEW all \in Seq(KeySet(E, mm)),
           NEW target, NEW source, AsSlice(target) \in Seq(E), AsSlice(source) \in Seq(E),
           KeepsOrder(Keys(AsSlice(target), mm), all),
           NEW m, m = MergeNamedList(target, source, mm), m.ok
    PROVE  KeepsOrder(Keys(AsSlice(m.value), mm), all \o Keys(AsSlice(source), mm))
<1> DEFINE l == ListMerge(AsSlice(target), AsSlice(source), mm)
<1>1. l.ok /\ AsSlice(m.value) = l.value
  BY SectionMerges
<1> QED BY <1>1, NextListKeepsOrder

LEMMA FirstListKeepsOrder == ASSUME NEW list PROVE KeepsOrder(list, list)
  BY DEF KeepsOrder

-----------------------------------------------------------------------------
(***************************************************************************)
(* FlattenSeq: the lists one after the other.                              *)
(***************************************************************************)
Joined(f, lists, n) ==
    \A k \in 1 .. n : f[k] = IF k = 1 THEN lists[k] ELSE f[k - 1] \o lists[k]
Flattens(f, lists, n) == Joined(f, lists, n) /\ FlattenSeq(lists) = f[n]

LEMMA JoinedExists ==
    ASSUME NEW X, NEW n \in Nat, NEW lists \in [1 .. n -> Seq(X)]
    PROVE  \E f \in [1 .. n -> Seq(X)] : Joined(f, lists, n)
<1> DEFINE T == {k \in Nat : \E f \in [1 .. k -> Seq(X)] : Joined(f, lists, k)}
<1>1. 0 \in T
  <2>1. [k \in 1 .. 0 |-> <<>>] \in [1 .. 0 -> Seq(X)]
        /\ Joined([k \in 1 .. 0 |-> <<>>], lists, 0)
    BY DEF Joined
  <2> QED BY <2>1
<1>2. ASSUME NEW k \in 0 .. n, k \in T, k < n PROVE k + 1 \in T
  <2>1. PICK f \in [1 .. k -> Seq(X)] : Joined(f, lists, k)
    BY <1>2
  <2>2. /\ k + 1 \in Nat /\ k + 1 \in 1 .. n /\ (k + 1) - 1 = k /\ k \in Nat
        /\ \A i \in 1 .. k + 1 : i # k + 1 => i \in 1 .. k
        /\ \A i \in 1 .. k : i \in 1 .. k + 1 /\ i # k + 1
        /\ \A i \in 1 .. k + 1 : i # 1 => i - 1 \in 1 .. k
    BY <1>2
  <2> DEFINE last == IF k + 1 = 1 THEN lists[k + 1] ELSE f[k] \o lists[k + 1]
             h == [i \in 1 .. k + 1 |-> IF i = k + 1 THEN last ELSE f[i]]
  <2>3. last \in Seq(X)
    <3>1. lists[k + 1] \in Seq(X) /\ (k + 1 # 1 => f[k] \in Seq(X))
      BY <2>1, <2>2
    <3> QED BY <3>1
  <2>4. h \in [1 .. k + 1 -> Seq(X)]
    <3> HIDE DEF last
    <3> QED BY <2>1, <2>2, <2>3
  <2>5. \A i \in 1 .. k : h[i] = f[i]
    BY <2>2
  <2>6. Joined(h, lists, k + 1)
    <3> SUFFICES ASSUME NEW i \in 1 .. k + 1
                 PROVE  h[i] = IF i = 1 THEN lists[i] ELSE h[i - 1] \o lists[i]
      BY DEF Joined
    <3>1. i # 1 => h[i - 1] = f[i - 1]
      BY <2>2, <2>5
    <3>2. CASE i = k + 1
      BY <2>2, <3>1, <3>2
    <3>3. CASE i # k + 1
      <4>1. i \in 1 .. k /\ h[i] = f[i]
        BY <2>2, <2>5, <3>3
      <4> HIDE DEF h
      <4> QED BY <2>1, <3>1, <4>1 DEF Joined
    <3> QED BY <3>2, <3>3
  <2> HIDE DEF h
  <2> QED BY <2>2, <2>4, <2>6
<1>3. \A k \in 0 .. n : k \in T
  <2>1. \A k \in 0 .. n : k \in T /\ k < n => k + 1 \in T
    BY <1>2
  <2> HIDE DEF T
  <2> QED BY <1>1, <2>1, SetInduction
<1>4. n \in 0 .. n
  OBVIOUS
<1> QED BY <1>3, <1>4

LEMMA FlattenIs ==
    ASSUME NEW X, NEW n \in Nat \ {0}, NEW lists \in [1 .. n -> Seq(X)]
    PROVE  \E f \in [1 .. n -> Seq(X)] : Flattens(f, lists, n)
<1> DEFINE Follows(f) ==
               f = [i \in 1 .. n |-> IF i = 1 THEN lists[i] ELSE f[i - 1] \o lists[i]]
<1>1. lists \in Seq(Seq(X)) /\ Len(lists) = n /\ n # 0
  OBVIOUS
<1>2. FlattenSeq(lists) = (CHOOSE f : Follows(f))[n]
  BY <1>1 DEF FlattenSeq
<1>3. \E f : Follows(f)
  <2>1. PICK f \in [1 .. n -> Seq(X)] : Joined(f, lists, n)
    BY JoinedExists
  <2>2. Follows(f)
    BY <2>1 DEF Joined
  <2> QED BY <2>2
<1>4. \E f : Follows(f) /\ FlattenSeq(lists) = f[n]
  <2> HIDE DEF Follows
  <2> QED BY <1>2, <1>3
<1>5. PICK f : Follows(f) /\ FlattenSeq(lists) = f[n]
  BY <1>4
<1>6. Joined(f, lists, n)
  BY <1>5 DEF Joined
<1>7. \A k \in 1 .. n : f[k] \in Seq(X)
  <2> DEFINE T == {k \in Nat : k # 0 => f[k] \in Seq(X)}
  <2>1. 0 \in T
    OBVIOUS
  <2>2. ASSUME NEW k \in 0 .. n, k \in T, k < n PROVE k + 1 \in T
    <3>1. k + 1 \in Nat /\ k + 1 \in 1 .. n /\ (k + 1) - 1 = k
      BY <2>2
    <3>2. f[k + 1] = IF k + 1 = 1 THEN lists[k + 1] ELSE f[k] \o lists[k + 1]
      BY <1>6, <3>1 DEF Joined
    <3>3. lists[k + 1] \in Seq(X) /\ (k + 1 # 1 => f[k] \in Seq(X))
      BY <2>2, <3>1
    <3>4. f[k + 1] \in Seq(X)
      BY <3>2, <3>3
    <3> QED BY <3>1, <3>4
  <2>3. \A k \in 0 .. n : k \in T
    <3>1. \A k \in 0 .. n : k \in T /\ k < n => k + 1 \in T
      BY <2>2
    <3> HIDE DEF T, Follows
    <3> QED BY <2>1, <3>1, SetInduction
  <2> QED BY <2>3
<1>8. f \in [1 .. n -> Seq(X)]
  BY <1>5, <1>7
<1> HIDE DEF Follows
<1> QED BY <1>5, <1>6, <1>8 DEF Flattens

\* The first list, and one more.
LEMMA FlattenFirst ==
    ASSUME NEW X, NEW n, n = 1, NEW lists \in [1 .. n -> Seq(X)]
    PROVE  FlattenSeq(lists) = lists[n] /\ FlattenSeq(lists) \in Seq(X)
<1>1. n \in Nat \ {0} /\ n \in 1 .. n
  OBVIOUS
<1>2. PICK f \in [1 .. n -> Seq(X)] : Flattens(f, lists, n)
  BY <1>1, FlattenIs
<1> QED BY <1>1, <1>2 DEF Flattens, Joined

LEMMA FlattenNext ==
    ASSUME NEW X, NEW n \in Nat \ {0}, NEW lists \in [1 .. n + 1 -> Seq(X)],
           NEW fewer, fewer = [i \in 1 .. n |-> lists[i]]
    PROVE  /\ FlattenSeq(lists) = FlattenSeq(fewer) \o lists[n + 1]
           /\ FlattenSeq(fewer) \in Seq(X)
<1>1. /\ n + 1 \in Nat \ {0} /\ n + 1 # 1 /\ (n + 1) - 1 = n
      /\ n \in 1 .. n /\ n + 1 \in 1 .. n + 1 /\ n \in 0 .. n
      /\ \A i \in 1 .. n : i \in 1 .. n + 1
  OBVIOUS
<1>2. fewer \in [1 .. n -> Seq(X)] /\ \A i \in 1 .. n : fewer[i] = lists[i]
  BY <1>1
<1>3. PICK f \in [1 .. n + 1 -> Seq(X)] : Flattens(f, lists, n + 1)
  BY <1>1, FlattenIs
<1>4. PICK h \in [1 .. n -> Seq(X)] : Flattens(h, fewer, n)
  BY <1>2, FlattenIs
<1> DEFINE T == {k \in Nat : k # 0 => f[k] = h[k]}
<1>5. 0 \in T
  OBVIOUS
<1>6. ASSUME NEW k \in 0 .. n, k \in T, k < n PROVE k + 1 \in T
  <2>1. k + 1 \in Nat /\ k + 1 \in 1 .. n /\ (k + 1) - 1 = k
    BY <1>6
  <2>2. f[k + 1] = IF k + 1 = 1 THEN lists[k + 1] ELSE f[k] \o lists[k + 1]
    BY <1>1, <1>3, <2>1 DEF Flattens, Joined
  <2>3. h[k + 1] = IF k + 1 = 1 THEN lists[k + 1] ELSE h[k] \o lists[k + 1]
    BY <1>2, <1>4, <2>1 DEF Flattens, Joined
  <2> QED BY <1>6, <2>1, <2>2, <2>3
<1>7. \A k \in 0 .. n : k \in T
  <2>1. \A k \in 0 .. n : k \in T /\ k < n => k + 1 \in T
    BY <1>6
  <2> HIDE DEF T
  <2> QED BY <1>5, <2>1, SetInduction
<1>8. f[n] = h[n]
  BY <1>1, <1>7
<1>9. f[n + 1] = f[n] \o lists[n + 1]
  BY <1>1, <1>3 DEF Flattens, Joined
<1> QED BY <1>1, <1>3, <1>4, <1>8, <1>9 DEF Flattens
==============================================================================
