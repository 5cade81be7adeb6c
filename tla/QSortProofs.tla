----------------------------- MODULE QSortProofs -----------------------------
(***************************************************************************)
(* Whenever basic/qsort.cpp returns from its outermost call the array is   *)
(* sorted, for every length and every content: the asserts that stop it    *)
(* on some inputs never let an unsorted array through.                     *)
(* The second half is about another module, Forking: each connection is    *)
(* open where it should be, and main waits for all its children.           *)
(***************************************************************************)
EXTENDS QSort, Forking, TLAPS, SequenceTheorems

\* What Head and Tail do to the list of pending calls.
LEMMA PopCall ==
    ASSUME todo \in Seq(Parts), todo # <<>>
    PROVE  /\ Len(todo) >= 1 /\ todo[1] \in Parts /\ Head(todo) = todo[1]
           /\ Tail(todo) \in Seq(Parts)
           /\ Len(Tail(todo)) = Len(todo) - 1
           /\ \A n \in 1 .. Len(todo) - 1 : Tail(todo)[n] = todo[n + 1]
  OBVIOUS

\* What partition's return does to it: the first call is replaced by two.
LEMMA PushHalves ==
    ASSUME todo \in Seq(Parts), todo # <<>>, NEW p \in Parts, NEW q \in Parts,
           todo' = <<p, q>> \o Tail(todo)
    PROVE  /\ todo' \in Seq(Parts)
           /\ Len(todo') = Len(todo) + 1
           /\ todo'[1] = p /\ todo'[2] = q
           /\ \A n \in 2 .. Len(todo) : todo'[n + 1] = todo[n]
  BY PopCall

\* A pending call is for a part inside the array, if for any.
LEMMA PartBounds ==
    ASSUME NEW p \in Parts
    PROVE  p[1] \in Int /\ p[2] \in Int /\ p[1] >= 0 /\ p[2] <= Num - 1
           /\ p = <<p[1], p[2]>>
  BY NumAssumption DEF Parts

\* Exchanging two elements inside the first pending part leaves every pair
\* that is not inside one part in order.
LEMMA SwapSeparated ==
    ASSUME SortTypeOK, CallsInv, Separated, todo # <<>>,
           NEW a \in Idx, NEW b \in Idx,
           todo[1][1] <= a, a <= todo[1][2], todo[1][1] <= b, b <= todo[1][2],
           NEW c \in Idx, NEW d \in Idx, c < d, ~Covered(c, d)
    PROVE  /\ swap(array, a, b) \in [Idx -> Vals]
           /\ swap(array, a, b)[c] <= swap(array, a, b)[d]
  <1> DEFINE f == swap(array, a, b)
  <1>1. todo[1] \in Parts /\ Len(todo) \in Nat /\ Len(todo) >= 1
    BY PopCall DEF SortTypeOK
  <1>2. /\ f \in [Idx -> Vals] /\ f[a] = array[b] /\ f[b] = array[a]
        /\ \A k \in Idx \ {a, b} : f[k] = array[k]
    BY DEF SortTypeOK, swap
  <1>3. \A k \in Idx : array[k] \in Int
    BY ValsAssumption DEF SortTypeOK
  <1>4. ASSUME NEW x \in Idx, NEW y \in Idx, x < y,
               \/ x < todo[1][1] \/ y > todo[1][2],
               \/ todo[1][1] <= x /\ x <= todo[1][2]
               \/ todo[1][1] <= y /\ y <= todo[1][2]
        PROVE  array[x] <= array[y]
    <2>1. ASSUME NEW n \in 1 .. Len(todo), todo[n][1] <= x, y <= todo[n][2]
          PROVE  FALSE
      <3>1. todo[n] \in Parts
        BY <1>1 DEF SortTypeOK
      <3>2. n # 1
        BY <1>1, <3>1, <1>4, <2>1, PartBounds DEF Idx
      <3>3. todo[1][2] < todo[n][1]
        BY <3>2, <1>1 DEF CallsInv
      <3> QED
        BY <1>1, <3>1, <3>3, <1>4, <2>1, PartBounds DEF Idx
    <2> QED
      BY <2>1, <1>4 DEF Separated, Covered
  <1>5. ~(todo[1][1] <= c /\ d <= todo[1][2])
    BY <1>1 DEF Covered
  <1>6. todo[1][1] \in Int /\ todo[1][2] \in Int
    BY <1>1, PartBounds
  <1>7. array[c] <= array[d]
    BY DEF Separated
  <1>8. CASE c \in {a, b}
    <2>1. d > todo[1][2] /\ d \notin {a, b}
      BY <1>5, <1>6, <1>8 DEF Idx
    <2>2. array[a] <= array[d] /\ array[b] <= array[d]
      BY <1>4, <2>1, <1>6 DEF Idx
    <2> QED
      BY <1>2, <2>1, <2>2, <1>8
  <1>9. CASE c \notin {a, b} /\ d \in {a, b}
    <2>1. c < todo[1][1]
      BY <1>5, <1>6, <1>9 DEF Idx
    <2>2. array[c] <= array[a] /\ array[c] <= array[b]
      BY <1>4, <2>1, <1>6 DEF Idx
    <2> QED
      BY <1>2, <2>2, <1>9
  <1> QED
    BY <1>2, <1>7, <1>8, <1>9

------------------------------------------------------------------------------
\* Dropping a finished call keeps the parts apart; pairs the dropped part alone
\* covered must be in order.
LEMMA DropCall ==
    ASSUME SortTypeOK, CallsInv, todo # <<>>, todo' = Tail(todo), pc' = "call",
           array' \in [Idx -> Vals],
           \A a, b \in Idx : a < b /\ ~Covered(a, b) => array'[a] <= array'[b],
           \A a, b \in Idx : /\ a < b /\ todo[1][1] <= a /\ b <= todo[1][2]
                             => array'[a] <= array'[b]
    PROVE  CallsInv' /\ Separated' /\ todo' \in Seq(Parts)
  <1>1. /\ Len(todo) \in Nat /\ Len(todo) >= 1 /\ todo' \in Seq(Parts)
        /\ Len(todo') = Len(todo) - 1
        /\ \A n \in 1 .. Len(todo) - 1 : todo'[n] = todo[n + 1]
    BY PopCall DEF SortTypeOK
  <1>2. CallsInv'
    BY <1>1 DEF CallsInv
  <1>3. ASSUME NEW a \in Idx, NEW b \in Idx, a < b, ~(array'[a] <= array'[b])
        PROVE  Covered(a, b)'
    <2>1. Covered(a, b)
      BY <1>3
    <2>2. PICK n \in 1 .. Len(todo) : todo[n][1] <= a /\ b <= todo[n][2]
      BY <2>1 DEF Covered
    <2>3. n # 1
      BY <1>3, <2>2
    <2>4. n - 1 \in 1 .. Len(todo') /\ todo'[n - 1] = todo[n]
      BY <1>1, <2>3
    <2> QED
      BY <2>2, <2>4 DEF Covered
  <1> QED
    BY <1>1, <1>2, <1>3 DEF Separated

\* partition's return covers with its two halves every pair that its whole part
\* covered and that is not in order around the pivot.
LEMMA SplitCall ==
    ASSUME SortTypeOK, PartitionInv, CallsInv, Separated,
           pc = "loop", left = right, TRUE \in PivotAt,
           todo' = Halves \o Tail(todo), array' = array, pc' # "loop", pc' # "done"
    PROVE  CallsInv' /\ Separated' /\ todo' \in Seq(Parts)
  <1>1. /\ todo # <<>> /\ todo[1] = <<lo, hi>> /\ todo \in Seq(Parts)
        /\ Len(todo) \in Nat /\ Len(todo) >= 1
    BY PopCall DEF CallsInv, SortTypeOK
  <1>2. /\ 0 <= lo /\ lo <= left /\ left <= hi /\ hi < Num
        /\ lo \in Int /\ hi \in Int /\ left \in Int /\ left \in Idx
        /\ Num \in Nat /\ pivot \in Int
        /\ \A k \in Idx : array[k] \in Int
    <2>1. lo \in Int /\ hi \in Int /\ left \in Int /\ Num \in Nat
      BY NumAssumption DEF SortTypeOK
    <2>2. 0 <= lo /\ lo <= left /\ left <= hi /\ hi < Num
      BY <2>1 DEF PartitionInv
    <2>3. pivot \in Int
      <3>1. pivot \in Vals \/ pivot = 0
        BY DEF SortTypeOK
      <3>2. \A v \in Vals : v \in Int
        BY ValsAssumption
      <3>3. CASE pivot \in Vals
        BY <3>2, <3>3
      <3>4. CASE pivot = 0
        BY <3>4
      <3> QED
        BY <3>1, <3>3, <3>4
    <2>4. \A k \in Idx : array[k] \in Int
      BY ValsAssumption DEF SortTypeOK
    <2> QED
      BY <2>1, <2>2, <2>3, <2>4 DEF Idx
  <1>3. re \in Int /\ lo - 1 <= re /\ re <= hi + 1
        /\ (array[left] > pivot => re = left - 1)
        /\ (array[left] < pivot => re = left + 1)
        /\ (array[left] = pivot => re = left)
    BY <1>2 DEF re
  <1> DEFINE p == <<lo, re - 1>>
             q == <<re + 1, hi>>
  <1>4. p \in Parts /\ q \in Parts
    BY <1>2, <1>3 DEF Parts
  <1>5. todo' = <<p, q>> \o Tail(todo)
    BY DEF Halves
  <1>6. /\ todo' \in Seq(Parts) /\ Len(todo') = Len(todo) + 1
        /\ todo'[1] = p /\ todo'[2] = q
        /\ \A n \in 2 .. Len(todo) : todo'[n + 1] = todo[n]
    <2> HIDE DEF p, q
    <2> QED
      BY <1>1, <1>4, <1>5, PushHalves
  <1>7. \A n \in 2 .. Len(todo) : hi < todo[n][1] /\ todo[n] \in Parts
    BY <1>1 DEF CallsInv
  <1>8. ASSUME NEW m \in 1 .. Len(todo'), NEW n \in 1 .. Len(todo'), m < n
        PROVE  todo'[m][2] < todo'[n][1]
    <2>1. CASE n = 2
      BY <2>1, <1>8, <1>6, <1>3
    <2>2. CASE n > 2 /\ m <= 2
      <3> n - 1 \in 2 .. Len(todo) /\ (n - 1) + 1 = n
        BY <2>2, <1>6, <1>1
      <3>1. todo'[n] = todo[n - 1] /\ hi < todo[n - 1][1] /\ todo[n - 1] \in Parts
        BY <1>6, <1>7
      <3>2. todo'[m][2] <= hi /\ todo'[m][2] \in Int
        <4>1. m = 1 \/ m = 2
          BY <2>2, <1>6, <1>1
        <4>2. p[2] = re - 1 /\ q[2] = hi
          OBVIOUS
        <4>3. CASE m = 1
          BY <4>3, <4>2, <1>6, <1>3, <1>2
        <4>4. CASE m = 2
          BY <4>4, <4>2, <1>6, <1>2
        <4> QED
          BY <4>1, <4>3, <4>4
      <3>3. todo[n - 1][1] \in Int
        BY <3>1, PartBounds
      <3>4. todo'[n][1] \in Int /\ hi < todo'[n][1]
        BY <3>1, <3>3
      <3>5. hi \in Int
        BY <1>2
      <3>6. \A x, y \in Int : x <= hi /\ hi < y => x < y
        BY <3>5
      <3> QED
        BY <3>2, <3>4, <3>6
    <2>3. CASE m > 2
      <3>1. todo'[m] = todo[m - 1] /\ todo'[n] = todo[n - 1]
        BY <2>3, <1>8, <1>6, <1>1
      <3>2. m - 1 \in 1 .. Len(todo) /\ n - 1 \in 1 .. Len(todo) /\ m - 1 < n - 1
        BY <2>3, <1>8, <1>6, <1>1
      <3> QED
        BY <3>1, <3>2 DEF CallsInv
    <2> QED
      BY <2>1, <2>2, <2>3, <1>8, <1>6, <1>1
  <1>9. ASSUME NEW a \in Idx, NEW b \in Idx, a < b, ~(array[a] <= array[b])
        PROVE  Covered(a, b)'
    <2>1. PICK n \in 1 .. Len(todo) : todo[n][1] <= a /\ b <= todo[n][2]
      BY <1>9 DEF Separated, Covered
    <2>2. CASE n > 1
      <3>1. n + 1 \in 1 .. Len(todo') /\ todo'[n + 1] = todo[n]
        BY <2>2, <1>6, <1>1
      <3> QED
        BY <3>1, <2>1 DEF Covered
    <2>3. CASE n = 1
      <3>1. lo <= a /\ b <= hi
        BY <2>1, <2>3, <1>1
      <3>2. b <= re - 1 \/ re + 1 <= a
        <4>1. SUFFICES ASSUME a <= re, re <= b PROVE FALSE
          BY <1>3 DEF Idx
        <4>2. re \in Idx
          BY <4>1, <1>2, <1>3 DEF Idx
        <4>3. array[re] = pivot
          BY <4>2 DEF PivotAt
        <4>4. array[a] <= pivot
          <5>1. CASE a < left
            BY <5>1, <3>1, <1>2 DEF PartitionInv, Idx
          <5>2. CASE a >= left
            <6>1. a = re \/ (a = left /\ re = left + 1)
              BY <5>2, <4>1, <1>2, <1>3 DEF Idx
            <6>2. re = left + 1 => array[left] < pivot
              BY <1>2, <1>3
            <6> QED
              BY <6>1, <6>2, <4>3, <1>2
          <5> QED
            BY <5>1, <5>2, <1>2 DEF Idx
        <4>5. pivot <= array[b]
          <5>1. CASE b > right
            BY <5>1, <3>1, <1>2 DEF PartitionInv, Idx
          <5>2. CASE b <= right
            BY <5>2, <4>1, <4>3, <1>2, <1>3 DEF Idx
          <5> QED
            BY <5>1, <5>2, <1>2 DEF Idx
        <4> QED
          BY <4>4, <4>5, <1>2, <1>9
      <3>3. \/ todo'[1][1] <= a /\ b <= todo'[1][2]
            \/ todo'[2][1] <= a /\ b <= todo'[2][2]
        BY <3>1, <3>2, <1>6
      <3>4. 1 \in 1 .. Len(todo') /\ 2 \in 1 .. Len(todo')
        BY <1>1, <1>6
      <3> QED
        BY <3>3, <3>4 DEF Covered
    <2> QED
      BY <2>2, <2>3
  <1>10. CallsInv'
    BY <1>8 DEF CallsInv
  <1> QED
    BY <1>6, <1>9, <1>10 DEF Separated

------------------------------------------------------------------------------
\* The outermost call covers the whole array.
LEMMA InitInv == SortInit => IInv
  <1> SUFFICES ASSUME SortInit PROVE IInv
    OBVIOUS
  <1>1. <<0, Num - 1>> \in Parts
    BY NumAssumption DEF Parts
  <1>2. todo \in Seq(Parts) /\ Len(todo) = 1 /\ todo[1] = <<0, Num - 1>>
    BY <1>1 DEF SortInit
  <1>3. SortTypeOK
    BY <1>2, NumAssumption DEF SortInit, SortTypeOK
  <1>4. PartitionInv /\ CallsInv
    BY <1>2 DEF SortInit, PartitionInv, CallsInv
  <1>5. Separated
    BY <1>2, NumAssumption DEF Separated, Covered, Idx
  <1> QED
    BY <1>3, <1>4, <1>5 DEF IInv

\* What the part being worked on looks like.
LEMMA FirstPart ==
    ASSUME SortTypeOK, todo # <<>>, l <= r
    PROVE  /\ todo[1] \in Parts /\ todo[1] = <<l, r>> /\ l \in Idx /\ r \in Idx
           /\ todo[1][1] = l /\ todo[1][2] = r
  <1>1. todo[1] \in Parts /\ Head(todo) = todo[1]
    BY PopCall DEF SortTypeOK
  <1>2. l = todo[1][1] /\ r = todo[1][2]
    BY <1>1 DEF l, r
  <1> QED
    BY <1>1, <1>2, PartBounds, NumAssumption DEF Idx

\* Entering qsort keeps the invariant.
LEMMA CallInv == IInv /\ Call /\ UNCHANGED input => IInv'
  <1> SUFFICES ASSUME IInv, Call, UNCHANGED input PROVE IInv'
    OBVIOUS
  <1> USE DEF IInv
  <1>1. CASE Return
    <2>1. SortTypeOK'
      BY <1>1 DEF Return, SortTypeOK, frameVars
    <2> QED
      BY <1>1, <2>1 DEF Return, PartitionInv, CallsInv, Separated, Covered, frameVars
  <1>2. CASE QsortAssert
    <2>1. SortTypeOK'
      BY <1>2 DEF QsortAssert, Abort, SortTypeOK, frameVars
    <2> QED
      BY <1>2, <2>1 DEF QsortAssert, Abort, PartitionInv, CallsInv, Separated,
                        Covered, frameVars
  <1>3. CASE QsortOne
    <2>1. /\ todo # <<>> /\ todo' = Tail(todo) /\ array' = array /\ pc' = "call"
          /\ l = r
      BY <1>3 DEF QsortOne, Call
    <2>2. todo[1][1] = todo[1][2] /\ todo[1][1] \in Int
      BY <2>1, PopCall, PartBounds DEF SortTypeOK, l, r
    <2>3. \A a, b \in Idx : ~(a < b /\ todo[1][1] <= a /\ b <= todo[1][2])
      BY <2>2 DEF Idx
    <2>4. CallsInv' /\ Separated' /\ todo' \in Seq(Parts)
      BY <2>1, <2>3, DropCall DEF SortTypeOK, Separated
    <2>5. SortTypeOK'
      BY <1>3, <2>1, <2>4 DEF QsortOne, SortTypeOK, frameVars
    <2> QED
      BY <2>1, <2>4, <2>5 DEF PartitionInv
  <1>4. CASE QsortTwo
    <2>1. /\ todo # <<>> /\ todo' = Tail(todo) /\ pc' = "call" /\ l = r - 1
          /\ array' = Ordered(array, l, r)
      BY <1>4 DEF QsortTwo, Call
    <2>2. l \in Int /\ r \in Int
      BY <2>1, PopCall, PartBounds DEF SortTypeOK, l, r
    <2>3. /\ todo[1][1] = l /\ todo[1][2] = r /\ l \in Idx /\ r \in Idx
      BY <2>1, <2>2, FirstPart
    <2>4. \A k \in Idx : array[k] \in Int
      BY ValsAssumption DEF SortTypeOK
    <2>5. array' \in [Idx -> Vals] /\ array'[l] <= array'[r]
      <3>1. CASE array[l] > array[r]
        BY <3>1, <2>1, <2>2, <2>3, <2>4 DEF Ordered, swap, SortTypeOK
      <3>2. CASE ~(array[l] > array[r])
        BY <3>2, <2>1, <2>2, <2>3, <2>4 DEF Ordered, SortTypeOK
      <3> QED
        BY <3>1, <3>2
    <2>6. ASSUME NEW a \in Idx, NEW b \in Idx, a < b, ~Covered(a, b)
          PROVE  array'[a] <= array'[b]
      <3>1. CASE array[l] > array[r]
        <4>1. l <= r
          BY <2>1, <2>2
        <4>2. swap(array, l, r)[a] <= swap(array, l, r)[b]
          BY <2>1, <2>2, <2>3, <2>6, <4>1, SwapSeparated DEF Idx
        <4> QED
          BY <3>1, <4>2, <2>1 DEF Ordered
      <3>2. CASE ~(array[l] > array[r])
        BY <3>2, <2>1, <2>6 DEF Ordered, Separated
      <3> QED
        BY <3>1, <3>2
    <2>7. ASSUME NEW a \in Idx, NEW b \in Idx,
                 a < b /\ todo[1][1] <= a /\ b <= todo[1][2]
          PROVE  array'[a] <= array'[b]
      <3>1. a = l /\ b = r
        BY <2>1, <2>2, <2>3, <2>7 DEF Idx
      <3> QED
        BY <3>1, <2>5
    <2>8. CallsInv' /\ Separated' /\ todo' \in Seq(Parts)
      BY <2>1, <2>5, <2>6, <2>7, DropCall
    <2>9. SortTypeOK'
      BY <1>4, <2>1, <2>5, <2>8 DEF QsortTwo, SortTypeOK, frameVars
    <2> QED
      BY <2>1, <2>8, <2>9 DEF PartitionInv
  <1>5. CASE QsortMany
    <2>1. /\ todo # <<>> /\ l < r - 1
      BY <1>5 DEF QsortMany
    <2>2. l \in Int /\ r \in Int
      BY <2>1, PopCall, PartBounds DEF SortTypeOK, l, r
    <2>3. todo[1] = <<l, r>> /\ l \in Idx /\ r \in Idx
      BY <2>1, <2>2, FirstPart
    <2>4. (l + r) \div 2 \in Idx
      BY <2>1, <2>2, <2>3, NumAssumption DEF Idx
    <2>5. array[(l + r) \div 2] \in Vals
      BY <2>4 DEF SortTypeOK
    <2>6. /\ lo' \in 0 .. Num /\ hi' \in 0 .. Num
          /\ left' \in 0 .. Num /\ right' \in 0 .. Num
      BY <1>5, <2>3, NumAssumption DEF QsortMany, Idx
    <2>7. SortTypeOK'
      BY <1>5, <2>5, <2>6 DEF QsortMany, SortTypeOK
    <2>8. PartitionInv'
      BY <1>5, <2>1, <2>2, <2>3, NumAssumption DEF QsortMany, PartitionInv, Idx
    <2>9. CallsInv'
      BY <1>5, <2>3 DEF QsortMany, CallsInv
    <2>10. Separated'
      BY <1>5 DEF QsortMany, Separated, Covered
    <2> QED
      BY <2>7, <2>8, <2>9, <2>10
  <1> QED
    BY <1>1, <1>2, <1>3, <1>4, <1>5 DEF Call

\* Every step of partition keeps the invariant.
LEMMA PartitionStepInv == IInv /\ Partition /\ UNCHANGED input => IInv'
  <1> SUFFICES ASSUME IInv, Partition, UNCHANGED input PROVE IInv'
    OBVIOUS
  <1> USE DEF IInv
  <1>1. /\ pc = "loop" /\ 0 <= lo /\ lo <= left /\ left <= right /\ right <= hi
        /\ hi < Num /\ Num \in Nat
        /\ lo \in Int /\ hi \in Int /\ left \in Int /\ right \in Int
    <2>1. pc = "loop"
      BY DEF Partition, PartitionLeft, PartitionRight, PartitionSwap,
             PartitionReturn, PartitionAssert
    <2>2. 0 <= lo /\ lo <= left /\ left <= right /\ right <= hi /\ hi < Num
      BY <2>1 DEF PartitionInv
    <2>3. lo \in Int /\ hi \in Int /\ left \in Int /\ right \in Int /\ Num \in Nat
      BY NumAssumption DEF SortTypeOK
    <2> QED
      BY <2>1, <2>2, <2>3
  <1>2. /\ \A k \in lo .. left - 1 : array[k] <= pivot
        /\ \A k \in right + 1 .. hi : array[k] >= pivot
    BY <1>1 DEF PartitionInv
  <1>3. CASE PartitionLeft
    <2>1. SortTypeOK'
      BY <1>1, <1>3 DEF PartitionLeft, SortTypeOK
    <2>2. PartitionInv'
      BY <1>1, <1>2, <1>3 DEF PartitionLeft, PartitionInv, SmallEnough
    <2> QED
      BY <1>3, <2>1, <2>2 DEF PartitionLeft, CallsInv, Separated, Covered
  <1>4. CASE PartitionRight
    <2>1. SortTypeOK'
      BY <1>1, <1>4 DEF PartitionRight, SortTypeOK
    <2>2. PartitionInv'
      BY <1>1, <1>2, <1>4 DEF PartitionRight, PartitionInv, LargeEnough
    <2> QED
      BY <1>4, <2>1, <2>2 DEF PartitionRight, CallsInv, Separated, Covered
  <1>5. CASE PartitionSwap
    <2>1. /\ left \in Idx /\ right \in Idx /\ todo # <<>>
          /\ todo[1][1] = lo /\ todo[1][2] = hi
      BY <1>1 DEF Idx, CallsInv
    <2>2. /\ array' = swap(array, left, right) /\ todo' = todo /\ lo' = lo
          /\ hi' = hi /\ left' = left /\ right' = right /\ pivot' = pivot
          /\ pc' = pc /\ failed' = failed
      BY <1>5 DEF PartitionSwap, frameVars
    <2>3. /\ array' \in [Idx -> Vals]
          /\ \A k \in Idx \ {left, right} : array'[k] = array[k]
      BY <2>1, <2>2 DEF swap, SortTypeOK
    <2>4. SortTypeOK'
      BY <2>2, <2>3 DEF SortTypeOK
    <2>5. PartitionInv'
      BY <1>1, <1>2, <2>2, <2>3 DEF PartitionInv, Idx
    <2>6. CallsInv'
      BY <2>2 DEF CallsInv
    <2>7. ASSUME NEW a \in Idx, NEW b \in Idx, a < b, ~Covered(a, b)
          PROVE  array'[a] <= array'[b]
      <3>1. /\ todo[1][1] <= left /\ left <= todo[1][2]
            /\ todo[1][1] <= right /\ right <= todo[1][2]
        BY <1>1, <2>1
      <3>2. swap(array, left, right)[a] <= swap(array, left, right)[b]
        BY <2>1, <2>7, <3>1, SwapSeparated
      <3> QED
        BY <2>2, <3>2
    <2>8. Separated'
      BY <2>2, <2>7 DEF Separated, Covered
    <2> QED
      BY <2>4, <2>5, <2>6, <2>8
  <1>6. CASE PartitionReturn
    <2>1. /\ left = right /\ TRUE \in PivotAt /\ todo' = Halves \o Tail(todo)
          /\ array' = array /\ pc' \in {"call", "crash"}
      BY <1>6 DEF PartitionReturn
    <2>2. CallsInv' /\ Separated' /\ todo' \in Seq(Parts)
      BY <1>1, <2>1, SplitCall
    <2>3. SortTypeOK'
      BY <1>6, <2>1, <2>2 DEF PartitionReturn, SortTypeOK, frameVars
    <2> QED
      BY <2>1, <2>2, <2>3 DEF PartitionInv
  <1>7. CASE PartitionAssert
    <2>1. SortTypeOK'
      BY <1>7 DEF PartitionAssert, Abort, SortTypeOK, frameVars
    <2> QED
      BY <1>7, <2>1 DEF PartitionAssert, Abort, PartitionInv, CallsInv, Separated,
                        Covered, frameVars
  <1> QED
    BY <1>3, <1>4, <1>5, <1>6, <1>7 DEF Partition

\* partition's loop stays inside its part and splits it around the pivot, the
\* pending calls lie apart, and what they do not cover is in order.
THEOREM Invariance == SortSpec => []IInv
  <1>1. IInv /\ UNCHANGED sortVars => IInv'
    BY DEF IInv, SortTypeOK, PartitionInv, CallsInv, Separated, Covered, sortVars
  <1>2. IInv /\ SortNext => IInv'
    BY CallInv, PartitionStepInv DEF SortNext
  <1> QED
    BY <1>1, <1>2, InitInv, PTL DEF SortSpec

\* Every value stays in its range and no access leaves the array.
THEOREM TypeCorrect == SortSpec => []SortTypeOK
  <1>1. IInv => SortTypeOK
    BY DEF IInv
  <1> QED
    BY <1>1, Invariance, PTL

\* The asserts of partition at 22 and 34 hold, and its loop sorts its part into
\* small and large.
THEOREM PartitionCorrect == SortSpec => []PartitionInv
  <1>1. IInv => PartitionInv
    BY DEF IInv
  <1> QED
    BY <1>1, Invariance, PTL

\* Exchanging two elements of a rearrangement gives a rearrangement.
LEMMA SwapRearranged ==
    ASSUME Rearranged, input \in [Idx -> Vals], NEW a \in Idx, NEW b \in Idx
    PROVE  \E p \in Rearrangements : swap(array, a, b) = [k \in Idx |-> input[p[k]]]
  <1>1. PICK p \in Rearrangements : array = [k \in Idx |-> input[p[k]]]
    BY DEF Rearranged
  <1> DEFINE q == [p EXCEPT ![a] = p[b], ![b] = p[a]]
  <1>2. q \in Rearrangements
    BY <1>1 DEF Rearrangements
  <1>3. swap(array, a, b) = [k \in Idx |-> input[q[k]]]
    BY <1>1 DEF swap, Rearrangements
  <1> QED
    BY <1>2, <1>3

\* Only qsort's exchange of two elements and partition's swap write the array.
LEMMA RearrangedStep == IInv /\ Rearranged /\ [SortNext]_sortVars => Rearranged'
  <1> SUFFICES ASSUME IInv, Rearranged, [SortNext]_sortVars
               PROVE  Rearranged'
    OBVIOUS
  <1>1. input' = input /\ input \in [Idx -> Vals]
    BY DEF SortNext, sortVars, IInv, SortTypeOK
  <1>2. CASE array' = array
    BY <1>1, <1>2 DEF Rearranged
  <1>3. ASSUME NEW a \in Idx, NEW b \in Idx, array' = swap(array, a, b)
        PROVE  Rearranged'
    <2>1. PICK p \in Rearrangements : swap(array, a, b) = [k \in Idx |-> input[p[k]]]
      BY <1>1, SwapRearranged
    <2>2. array' = [k \in Idx |-> input'[p[k]]]
      BY <1>1, <1>3, <2>1
    <2> QED
      BY <2>1, <2>2 DEF Rearranged
  <1>4. CASE pc = "call" /\ QsortTwo
    <2>1. l \in Idx /\ r \in Idx
      <3>1. todo \in Seq(Parts) /\ todo # <<>> /\ l = r - 1
        BY <1>4 DEF QsortTwo, IInv, SortTypeOK
      <3>2. l \in Int /\ r \in Int
        BY <3>1, PopCall, NumAssumption DEF Parts, l, r
      <3> QED
        BY <3>1, <3>2, FirstPart DEF IInv
    <2> QED
      BY <1>2, <1>3, <1>4, <2>1 DEF QsortTwo, Ordered
  <1>5. CASE PartitionSwap
    <2>1. left \in Idx /\ right \in Idx
      BY <1>5, NumAssumption DEF PartitionSwap, IInv, PartitionInv, SortTypeOK, Idx
    <2> QED
      BY <1>3, <1>5, <2>1 DEF PartitionSwap
  <1>6. CASE UNCHANGED sortVars \/ PartitionLeft \/ PartitionRight \/ PartitionReturn \/ PartitionAssert
    BY <1>2, <1>6 DEF sortVars, PartitionLeft, PartitionRight, PartitionReturn, PartitionAssert, Abort
  <1>7. CASE Return \/ QsortAssert \/ QsortOne \/ QsortMany
    BY <1>2, <1>7 DEF Return, QsortAssert, QsortOne, QsortMany, Abort
  <1> QED
    BY <1>4, <1>5, <1>6, <1>7 DEF SortNext, Call, Partition

\* No element is lost or duplicated: the array is always a rearrangement of what
\* main put into it.
THEOREM RearrangedCorrect == SortSpec => []Rearranged
  <1>1. SortInit => Rearranged
    <2> SUFFICES ASSUME SortInit PROVE Rearranged
      OBVIOUS
    <2> DEFINE id == [k \in Idx |-> k]
    <2>1. id \in Rearrangements
      BY DEF Rearrangements
    <2>2. array = [k \in Idx |-> input[id[k]]]
      BY DEF SortInit
    <2> QED
      BY <2>1, <2>2 DEF Rearranged
  <1> QED
    BY <1>1, RearrangedStep, Invariance, PTL DEF SortSpec

\* Whenever qsort returns to main, for every length and content of the array,
\* the array is increasing and has the elements it had at first.
THEOREM SortCorrect == SortSpec => []SortOk
  <1>1. IInv /\ Rearranged => SortOk
    <2> SUFFICES ASSUME IInv, Rearranged, pc = "done", NEW k \in 0 .. Num - 1 - 1
                 PROVE  array[k] <= array[k + 1]
      BY DEF SortOk, is_increase
    <2>1. k \in Idx /\ k + 1 \in Idx /\ k < k + 1
      BY NumAssumption DEF Idx
    <2>2. Len(todo) = 0
      BY DEF IInv, CallsInv
    <2>3. ~Covered(k, k + 1)
      BY <2>2 DEF Covered
    <2> QED
      BY <2>1, <2>3 DEF IInv, Separated
  <1> QED
    BY <1>1, Invariance, RearrangedCorrect, PTL

------------------------------------------------------------------------------
(***************************************************************************)
(* The programs that fork: the second half is about module Forking (vars,  *)
(* Init, Next and Spec are its own, QSort's are sortVars, SortInit, ...).  *)
(* ForkInv is proved inductive for all three programs.                     *)
(***************************************************************************)
Waiting == {"sleep", "waitall", "nap", "check", "return"}

\* A connection waits at one place of the backlog, and nobody serves it yet.
QueueInv ==
    /\ \A k \in 1 .. Len(backlog) : client[backlog[k]] # "none" /\ at[backlog[k]] = "none"
    /\ \A j, k \in 1 .. Len(backlog) : backlog[j] = backlog[k] => j = k

\* The servers fork once for a connection.
ServerInv ==
    program \in Servers =>
        /\ mpc \notin Waiting
        /\ \A c \in Conns : at[c] # "none" => client[c] # "none"
        /\ mpc = "fork" => /\ cur \in held[0] /\ client[cur] # "none" /\ at[cur] = "none"
                           /\ \A k \in 1 .. Len(backlog) : backlog[k] # cur

\* test_fork_and_waitpid forks a child in each round, and has waited for all of
\* them when waitpid finds no child.
RoundInv ==
    program = "fork_and_waitpid" =>
        /\ backlog = <<>>
        /\ mpc \in Waiting => cur = ConnNum + 1
        /\ \A c \in Conns : at[c] = "none" <=> c >= cur
        /\ mpc \in {"check", "return"} => \A c \in Conns : at[c] = "gone"

\* A son that has a child of its own serves nobody.
FamilyInv == \A c \in Conns : at[-c] # "none" => at[c] \in {"leaving", "zombie", "gone"}

\* A process at write has a message in hand.
EchoInv ==
    /\ \A c \in Conns : echoed[c] <= sent[c]
    /\ \A p \in Children : at[p] = "write" => echoed[Conn(p)] < sent[Conn(p)]

ForkInv == HeldRight /\ QueueInv /\ ServerInv /\ RoundInv /\ FamilyInv /\ EchoInv

\* The numbers of the processes.
LEMMA Kin ==
    ASSUME ConnNum \in Nat
    PROVE  /\ \A c \in Conns : /\ c \in Nat /\ c > 0 /\ c \in Children /\ -c \in Children
                               /\ Conn(c) = c /\ Conn(-c) = c /\ -c # c /\ ~(-c > 0)
           /\ \A p \in Children : /\ p \in Int /\ p # 0 /\ p \in Procs /\ Conn(p) \in Conns
                                  /\ p = Conn(p) \/ p = -Conn(p)
                                  /\ p > 0 => p \in Conns
                                  /\ -p \in Children
           /\ 0 \in Procs /\ 0 \notin Children
  BY DEF Conns, Children, Procs, Conn

\* The connections in the backlog, and what accept leaves there.
LEMMA Backlogged ==
    ASSUME backlog \in Seq(Conns)
    PROVE  /\ Len(backlog) \in Nat
           /\ \A k \in 1 .. Len(backlog) : backlog[k] \in Conns
           /\ backlog # <<>> =>
                 /\ Head(backlog) = backlog[1] /\ Len(backlog) >= 1
                 /\ Tail(backlog) \in Seq(Conns) /\ Len(Tail(backlog)) = Len(backlog) - 1
                 /\ \A k \in 1 .. Len(backlog) - 1 : Tail(backlog)[k] = backlog[k + 1]
  OBVIOUS

\* The invariant holds before the first connection or round.
LEMMA ForkInit == ASSUME ConnNum \in Nat, MaxSend \in Nat, Init PROVE ForkInv
<1> USE Kin DEF Init
<1>1. TypeOK
    <2>1. 1 \in 1 .. ConnNum + 1 /\ 0 \in 0 .. MaxSend /\ backlog \in Seq(Conns)
        BY EmptySeq
    <2>2. mpc \in {"accept", "fork"} /\ addrlen \in {-1, 16}
        OBVIOUS
    <2> QED
        BY <2>1, <2>2 DEF TypeOK, Servers
<1>2. HeldRight
    BY <1>1 DEF HeldRight, Servers
<1>3. QueueInv /\ FamilyInv
    BY DEF QueueInv, FamilyInv
<1>4. ServerInv /\ RoundInv
    BY DEF ServerInv, RoundInv, Servers, Waiting, Conns
<1>5. EchoInv
    BY DEF EchoInv
<1> QED
    BY <1>2, <1>3, <1>4, <1>5 DEF ForkInv

\* A step that starts no process for a connection leaves the backlog right.
LEMMA QueueKeeps ==
    ASSUME ForkInv, UNCHANGED <<backlog, client>>,
           \A c \in Conns : at'[c] = "none" <=> at[c] = "none"
    PROVE  QueueInv'
<1>1. \A k \in 1 .. Len(backlog) : backlog[k] \in Conns
    BY Backlogged DEF ForkInv, HeldRight, TypeOK
<1> QED
    BY <1>1 DEF ForkInv, QueueInv

\* A child that was waited for: main, or the handler on top of it.
LEMMA WaitedKeeps ==
    ASSUME ConnNum \in Nat, ForkInv, NEW pid \in waitpid, Waited(pid)
    PROVE  /\ pid \in Int
           /\ at' \in [Children -> {"none", "son", "read", "write", "leaving", "zombie", "gone"}]
           /\ errno' \in {"0", "EINTR", "ECHILD", "EMFILE", "EINVAL"}
           /\ \A p \in Children : at'[p] = at[p] \/ (at[p] = "zombie" /\ at'[p] = "gone")
           /\ pid < 0 => \A c \in Conns : at[c] \in {"none", "gone"}
<1> USE Kin DEF Waited, waitpid, Zombies, Running, ForkInv, HeldRight, TypeOK
<1>1. CASE Zombies # {}
    BY <1>1
<1>2. CASE Zombies = {} /\ Running # {}
    BY <1>2
<1>3. CASE Zombies = {} /\ Running = {}
    BY <1>3
<1> QED
    BY <1>1, <1>2, <1>3

\* Waiting disturbs nothing else.
LEMMA ReapKeeps ==
    ASSUME ConnNum \in Nat, ForkInv,
           \A p \in Children : at'[p] = at[p] \/ (at[p] = "zombie" /\ at'[p] = "gone"),
           UNCHANGED <<program, cur, held, backlog, client, sent, echoed>>,
           mpc' = mpc
    PROVE  QueueInv' /\ ServerInv' /\ RoundInv' /\ FamilyInv' /\ EchoInv'
<1>1. \A c \in Conns : at[c] = "none" <=> at'[c] = "none"
    BY Kin
<1>2. QueueInv'
    BY <1>1, QueueKeeps
<1>3. ServerInv'
    BY <1>1, Kin DEF ForkInv, ServerInv, HeldRight, TypeOK, Conns, Servers
<1>4. RoundInv'
    BY <1>1, Kin DEF ForkInv, RoundInv
<1>5. FamilyInv'
    BY <1>1, Kin DEF ForkInv, FamilyInv
<1>6. EchoInv'
    BY Kin DEF ForkInv, EchoInv
<1> QED
    BY <1>2, <1>3, <1>4, <1>5, <1>6

\* The handler.
LEMMA HandlerKeeps ==
    ASSUME ConnNum \in Nat, ForkInv, HandlerStep
    PROVE  ForkInv'
<1>1. CASE HandlerEnter
    <2>1. TypeOK'
        BY <1>1 DEF HandlerStep, HandlerEnter, clientVars, ForkInv, HeldRight, TypeOK
    <2>2. mpc' # mpc => mpc = "blocked" /\ mpc' = "eintr" /\ program = "css_echo"
        BY <1>1 DEF HandlerEnter
    <2>3. UNCHANGED <<program, cur, held, at, backlog, client, sent, echoed>>
        BY <1>1 DEF HandlerStep, HandlerEnter, clientVars
    <2> QED
        BY <2>1, <2>2, <2>3 DEF ForkInv, HeldRight, QueueInv, ServerInv, RoundInv, FamilyInv,
           EchoInv, Waiting, Servers
<1>2. CASE HandlerWait
    <2>1. PICK pid \in waitpid : Waited(pid) /\ handler' = (Again(pid) \/ pending)
                                   /\ pending' = (Again(pid) /\ pending)
        BY <1>2 DEF HandlerWait
    <2>2. UNCHANGED <<program, mpc, cur, addrlen, held, backlog, client, sent, echoed>>
        BY <1>2 DEF HandlerStep, HandlerWait, clientVars
    <2>3. handler' \in BOOLEAN /\ pending' \in BOOLEAN
        BY <2>1
    <2>4. TypeOK'
        BY <2>1, <2>2, <2>3, WaitedKeeps DEF ForkInv, HeldRight, TypeOK
    <2>5. HeldRight'
        BY <2>1, <2>2, <2>4, WaitedKeeps DEF ForkInv, HeldRight
    <2> QED
        BY <2>1, <2>2, <2>5, WaitedKeeps, ReapKeeps DEF ForkInv
<1> QED
    BY <1>1, <1>2 DEF HandlerStep

\* Main ends, and init waits for its zombies.
LEMMA MainExitKeeps ==
    ASSUME ConnNum \in Nat, ForkInv, MainExit,
           UNCHANGED <<program, cur, errno, addrlen, handler, pending, backlog, client, sent, echoed>>
    PROVE  ForkInv'
<1> USE Kin
<1>1. /\ \A p \in Children : at'[p] = at[p] \/ (at[p] = "zombie" /\ at'[p] = "gone")
      /\ \A p \in Children : held'[p] = held[p]
      /\ held'[0] = {} /\ mpc' = "exit"
    BY DEF MainExit, ForkInv, HeldRight, TypeOK
<1>2. TypeOK'
    BY DEF MainExit, ForkInv, HeldRight, TypeOK
<1>3. HeldRight'
    BY <1>1, <1>2 DEF ForkInv, HeldRight
<1>4. \A c \in Conns : at[c] = "none" <=> at'[c] = "none"
    BY <1>1
<1>5. QueueInv'
    BY <1>4, QueueKeeps
<1>6. ServerInv' /\ RoundInv'
    BY <1>1, <1>4 DEF ForkInv, ServerInv, RoundInv, Waiting
<1>7. FamilyInv' /\ EchoInv'
    BY <1>1, <1>4 DEF ForkInv, FamilyInv, EchoInv
<1> QED
    BY <1>3, <1>5, <1>6, <1>7 DEF ForkInv

\* accept, with all its results.
LEMMA AcceptKeeps ==
    ASSUME ConnNum \in Nat, ForkInv, UNCHANGED <<program, handler>>,
           Block \/ Accept \/ AcceptInvalid \/ AcceptFull \/ AcceptInterrupted
    PROVE  ForkInv'
<1> USE DEF clientVars
<1>1. CASE Block \/ AcceptFull \/ AcceptInterrupted
    <2>1. /\ UNCHANGED <<program, cur, held, at, backlog, client, sent, echoed>>
          /\ mpc \in {"accept", "eintr"} /\ mpc' \in {"blocked", "failed"}
        BY <1>1 DEF Block, AcceptFull, AcceptInterrupted
    <2>2. TypeOK'
        BY <1>1 DEF Block, AcceptFull, AcceptInterrupted, ForkInv, HeldRight, TypeOK
    <2> QED
        BY <2>1, <2>2 DEF ForkInv, HeldRight, QueueInv, ServerInv, RoundInv, FamilyInv,
           EchoInv, Waiting
<1>2. CASE Accept
    <2>1. /\ UNCHANGED <<program, errno, pending, handler, at, client, sent, echoed>>
          /\ mpc \in {"accept", "blocked"} /\ mpc' = "fork" /\ backlog # <<>>
          /\ cur' = backlog[1] /\ backlog' = Tail(backlog) /\ addrlen' = 16
          /\ held' = [held EXCEPT ![0] = @ \cup {backlog[1]}]
          /\ program \in Servers
        BY <1>2, Backlogged DEF Accept, ForkInv, RoundInv, HeldRight, TypeOK
    <2>2. /\ backlog \in Seq(Conns) /\ cur' \in Conns /\ cur' \in Nat
          /\ held \in [Procs -> SUBSET Conns] /\ cur' \in 1 .. ConnNum + 1
        BY <2>1, Backlogged DEF Conns, ForkInv, HeldRight, TypeOK
    <2>3. TypeOK'
        BY <2>1, <2>2, Kin, Backlogged DEF ForkInv, HeldRight, TypeOK
    <2>4. HeldRight'
        BY <2>1, <2>2, <2>3, Kin DEF ForkInv, HeldRight
    <2>5. QueueInv' /\ ServerInv'
        BY <2>1, <2>2, Backlogged, Kin DEF ForkInv, QueueInv, ServerInv, Waiting
    <2>6. RoundInv' /\ FamilyInv' /\ EchoInv'
        BY <2>1 DEF ForkInv, RoundInv, FamilyInv, EchoInv, Servers
    <2> QED
        BY <2>4, <2>5, <2>6 DEF ForkInv
<1>3. CASE AcceptInvalid
    <2>1. /\ UNCHANGED <<program, cur, addrlen, held, pending, handler, at, sent, echoed>>
          /\ mpc \in {"accept", "blocked"} /\ mpc' = "failed" /\ backlog # <<>>
          /\ backlog' = Tail(backlog) /\ errno' = "EINVAL"
          /\ client' = [client EXCEPT ![backlog[1]] = "reset"]
        BY <1>3, Backlogged DEF AcceptInvalid, ForkInv, HeldRight, TypeOK
    <2>2. backlog \in Seq(Conns)
        BY DEF ForkInv, HeldRight, TypeOK
    <2>3. TypeOK'
        BY <2>1, <2>2, Backlogged DEF ForkInv, HeldRight, TypeOK
    <2>4. HeldRight'
        BY <2>1, <2>3 DEF ForkInv, HeldRight
    <2>5. QueueInv' /\ ServerInv' /\ RoundInv'
        BY <2>1, <2>2, <2>3, Backlogged, Kin DEF ForkInv, QueueInv, ServerInv, RoundInv, Waiting,
           HeldRight, TypeOK
    <2>6. FamilyInv' /\ EchoInv'
        BY <2>1 DEF ForkInv, FamilyInv, EchoInv
    <2> QED
        BY <2>4, <2>5, <2>6 DEF ForkInv
<1> QED
    BY <1>1, <1>2, <1>3

\* fork and close of the servers.
LEMMA ForkServerKeeps ==
    ASSUME ConnNum \in Nat, ForkInv, UNCHANGED <<program, handler>>, ForkServer \/ Close
    PROVE  ForkInv'
<1> USE Kin DEF clientVars
<1>1. CASE Close
    <2>1. /\ UNCHANGED <<program, cur, at, backlog, client, sent, echoed>>
          /\ mpc = "close" /\ mpc' = "accept" /\ held' = [held EXCEPT ![0] = @ \ {cur}]
        BY <1>1 DEF Close, Closed
    <2>2. TypeOK'
        BY <1>1, <2>1 DEF Close, ForkInv, HeldRight, TypeOK
    <2>3. HeldRight'
        BY <2>1, <2>2 DEF ForkInv, HeldRight, TypeOK
    <2> QED
        BY <2>1, <2>3 DEF ForkInv, QueueInv, ServerInv, RoundInv, FamilyInv, EchoInv, Waiting
<1>2. CASE ForkServer
    <2>1. /\ UNCHANGED <<program, cur, errno, addrlen, pending, handler, backlog, client, sent, echoed>>
          /\ program \in Servers /\ mpc = "fork" /\ cur \in Conns
          /\ mpc' = IF program = "css_echo" THEN "accept" ELSE "close"
          /\ cur \in held[0] /\ client[cur] # "none" /\ at[cur] = "none" /\ at[-cur] = "none"
          /\ \A k \in 1 .. Len(backlog) : backlog[k] # cur
        BY <1>2 DEF ForkServer, ForkInv, ServerInv, FamilyInv, HeldRight, TypeOK
    <2>2. /\ at' \in [Children -> {"none", "son", "read", "write", "leaving", "zombie", "gone"}]
          /\ held' \in [Procs -> SUBSET Conns]
          /\ at'[cur] \in {"none", "son", "read"} /\ held'[0] = held[0]
          /\ at'[cur] # "none" => held'[cur] = held[0]
          /\ at'[cur] = "none" => held'[cur] = held[cur]
          /\ \A p \in Children : p # cur => at'[p] = at[p] /\ held'[p] = held[p]
        BY <1>2, <2>1 DEF ForkServer, ForkInv, HeldRight, TypeOK
    <2>3. TypeOK'
        BY <2>1, <2>2 DEF ForkInv, HeldRight, TypeOK
    <2>4. HeldRight'
        <3>1. \A p \in Children : at'[p] \in {"son", "read", "write"} => Conn(p) \in held'[p]
            BY <2>1, <2>2 DEF ForkInv, HeldRight
        <3>2. CASE program = "sigaction_waitpidS"
            <4>1. held[0] = {cur} /\ mpc' = "close" /\ \A p \in Children : held[p] \subseteq {Conn(p)}
                BY <2>1, <3>2 DEF ForkInv, HeldRight
            <4>2. \A p \in Children : held'[p] \subseteq {Conn(p)}
                BY <2>1, <2>2, <4>1
            <4> QED
                BY <2>1, <2>2, <2>3, <3>1, <4>1, <4>2 DEF HeldRight
        <3>3. CASE program # "sigaction_waitpidS"
            BY <2>1, <2>3, <3>1, <3>3 DEF HeldRight
        <3> QED
            BY <3>2, <3>3
    <2>5. QueueInv'
        <3>1. \A k \in 1 .. Len(backlog) : at'[backlog[k]] = at[backlog[k]]
            BY <2>1, <2>2, Backlogged DEF ForkInv, HeldRight, TypeOK
        <3> QED
            BY <2>1, <3>1 DEF ForkInv, QueueInv
    <2>6. ServerInv' /\ RoundInv'
        BY <2>1, <2>2 DEF ForkInv, ServerInv, RoundInv, Waiting, Servers
    <2>7. FamilyInv'
        BY <2>1, <2>2 DEF ForkInv, FamilyInv, Conns
    <2>8. EchoInv'
        BY <2>1, <2>2 DEF ForkInv, EchoInv
    <2> QED
        BY <2>4, <2>5, <2>6, <2>7, <2>8 DEF ForkInv
<1> QED
    BY <1>1, <1>2

\* main of test_fork_and_waitpid.
LEMMA RoundKeeps ==
    ASSUME ConnNum \in Nat, ForkInv, UNCHANGED <<program, handler>>,
           ForkRound \/ Sleep \/ wait_all_children
    PROVE  ForkInv'
<1> USE Kin DEF clientVars
<1>1. CASE ForkRound
    <2>1. CASE MainExit /\ UNCHANGED cur
        BY <1>1, <2>1, MainExitKeeps DEF ForkRound
    <2>2. CASE ~(MainExit /\ UNCHANGED cur)
        <3>1. /\ UNCHANGED <<program, mpc, errno, addrlen, pending, handler, held, backlog, client,
                             sent, echoed>>
              /\ program = "fork_and_waitpid" /\ mpc = "fork" /\ cur \in Conns /\ cur' = cur + 1
              /\ at' = [at EXCEPT ![cur] = "leaving"]
            BY <1>1, <2>2 DEF ForkRound, ForkInv, HeldRight, TypeOK, Conns
        <3>2. at[cur] = "none" /\ at[-cur] = "none" /\ backlog = <<>>
            BY <3>1 DEF ForkInv, RoundInv, FamilyInv
        <3>3. TypeOK'
            <4>1. cur' \in 1 .. ConnNum + 1
                BY <3>1 DEF Conns
            <4> QED
                BY <3>1, <4>1 DEF ForkInv, HeldRight, TypeOK
        <3>4. at[cur] = "none" /\ \A p \in Children : at'[p] = IF p = cur THEN "leaving" ELSE at[p]
            BY <3>1, <3>2 DEF ForkInv, HeldRight, TypeOK
        <3>5. HeldRight'
            BY <3>1, <3>3, <3>4 DEF ForkInv, HeldRight
        <3>6. QueueInv' /\ ServerInv' /\ EchoInv'
            BY <3>1, <3>2, <3>4 DEF ForkInv, QueueInv, ServerInv, EchoInv, Servers
        <3>7. RoundInv'
            BY <3>1, <3>2, <3>4 DEF ForkInv, RoundInv, Waiting, Conns
        <3>8. FamilyInv'
            BY <3>1, <3>2, <3>4 DEF ForkInv, FamilyInv
        <3> QED
            BY <3>5, <3>6, <3>7, <3>8 DEF ForkInv
    <2> QED
        BY <2>1, <2>2
<1>2. CASE Sleep
    <2>1. /\ UNCHANGED <<program, cur, held, at, backlog, client, sent, echoed>>
          /\ program = "fork_and_waitpid" /\ mpc' \in {"sleep", "waitall"}
          /\ cur > ConnNum \/ mpc \in {"sleep", "nap"}
        BY <1>2 DEF Sleep
    <2>2. TypeOK'
        BY <1>2 DEF Sleep, ForkInv, HeldRight, TypeOK
    <2>3. RoundInv'
        BY <2>1, <2>2 DEF ForkInv, RoundInv, Waiting, TypeOK
    <2> QED
        BY <2>1, <2>2, <2>3 DEF ForkInv, HeldRight, QueueInv, ServerInv, FamilyInv, EchoInv, Servers
<1>3. CASE wait_all_children
    <2>1. PICK pid \in waitpid : /\ Waited(pid)
                                 /\ mpc' = IF GoesOn(pid) THEN IF pid = 0 THEN "nap" ELSE mpc
                                           ELSE IF pid < 0 THEN "check" ELSE "return"
        BY <1>3 DEF wait_all_children
    <2>2. /\ UNCHANGED <<program, cur, addrlen, handler, pending, held, backlog, client, sent, echoed>>
          /\ mpc = "waitall" /\ program = "fork_and_waitpid"
        BY <1>3 DEF wait_all_children, ForkInv, ServerInv, Waiting, HeldRight, TypeOK
    <2>3. /\ \A p \in Children : at'[p] = at[p] \/ (at[p] = "zombie" /\ at'[p] = "gone")
          /\ mpc' \in {"nap", "waitall", "check"}
          /\ mpc' = "check" => \A c \in Conns : at[c] \in {"none", "gone"}
        BY <2>1, <2>2, WaitedKeeps DEF GoesOn
    <2>4. TypeOK'
        BY <2>1, <2>2, <2>3, WaitedKeeps DEF ForkInv, HeldRight, TypeOK
    <2>5. HeldRight'
        BY <2>2, <2>3, <2>4 DEF ForkInv, HeldRight
    <2>6. QueueInv' /\ ServerInv' /\ EchoInv'
        <3>1. backlog = <<>> /\ Len(backlog) = 0
            BY <2>2 DEF ForkInv, RoundInv
        <3>2. QueueInv'
            BY <2>2, <3>1 DEF QueueInv
        <3>3. ServerInv'
            BY <2>2 DEF ServerInv, Servers
        <3>4. EchoInv'
            BY <2>2, <2>3 DEF ForkInv, EchoInv
        <3> QED
            BY <3>2, <3>3, <3>4
    <2>7. RoundInv'
        <3>1. cur = ConnNum + 1 /\ \A c \in Conns : at[c] # "none"
            BY <2>2 DEF ForkInv, RoundInv, Waiting, Conns
        <3> QED
            BY <2>2, <2>3, <3>1 DEF ForkInv, RoundInv, Waiting
    <2>8. FamilyInv'
        BY <2>3 DEF ForkInv, FamilyInv
    <2> QED
        BY <2>5, <2>6, <2>7, <2>8 DEF ForkInv
<1> QED
    BY <1>1, <1>2, <1>3

\* Main's steps.
LEMMA ForkMainKeeps ==
    ASSUME ConnNum \in Nat, ForkInv, MainStep
    PROVE  ForkInv'
<1> USE DEF clientVars
<1>1. UNCHANGED <<program, handler>>
    BY DEF MainStep
<1>2. CASE AcceptFailed \/ WaitCheck
    <2>1. CASE MainExit
        BY <1>1, <1>2, <2>1, MainExitKeeps DEF AcceptFailed, WaitCheck
    <2>2. CASE ~MainExit
        <3>1. /\ UNCHANGED <<program, cur, held, at, backlog, client, sent, echoed>>
              /\ \/ mpc = "failed" /\ mpc' = "accept"
                 \/ mpc = "check" /\ mpc' = "return"
            BY <1>1, <1>2, <2>2 DEF AcceptFailed, WaitCheck
        <3>2. TypeOK'
            BY <1>1, <1>2, <3>1 DEF AcceptFailed, WaitCheck, ForkInv, HeldRight, TypeOK
        <3> QED
            BY <3>1, <3>2 DEF ForkInv, HeldRight, QueueInv, ServerInv, RoundInv, FamilyInv,
               EchoInv, Waiting
    <2> QED
        BY <2>1, <2>2
<1> QED
    BY <1>1, <1>2, AcceptKeeps, ForkServerKeeps, RoundKeeps DEF MainStep

\* What a step of a child must respect for the invariant to hold after it.
LEMMA ChildMoves ==
    ASSUME ConnNum \in Nat, ForkInv, pending' \in BOOLEAN,
           UNCHANGED <<program, mpc, cur, errno, addrlen, handler, backlog, client, sent, echoed>>,
           at' \in [Children -> {"none", "son", "read", "write", "leaving", "zombie", "gone"}],
           held' \in [Procs -> SUBSET Conns], held'[0] = held[0],
           \A p \in Children : at'[p] \in {"son", "read", "write"} => Conn(p) \in held'[p],
           \A p \in Children : \E q \in Children : Conn(q) = Conn(p) /\ held'[p] \subseteq held[q],
           \A c \in Conns : at'[c] = "none" <=> at[c] = "none",
           \A c \in Conns : at[c] = "gone" => at'[c] = "gone",
           FamilyInv',
           \A p \in Children : at'[p] = "write" => echoed[Conn(p)] < sent[Conn(p)]
    PROVE  ForkInv'
<1>1. TypeOK'
    BY DEF ForkInv, HeldRight, TypeOK
<1>2. HeldRight'
    <2>1. program = "sigaction_waitpidS" => \A p \in Children : held'[p] \subseteq {Conn(p)}
        BY DEF ForkInv, HeldRight
    <2> QED
        BY <1>1, <2>1 DEF ForkInv, HeldRight
<1>3. QueueInv'
    BY QueueKeeps
<1>4. ServerInv'
    <2>1. CASE program \in Servers
        <3>1. mpc = "fork" => cur \in Conns
            BY <2>1, Kin DEF ForkInv, ServerInv, HeldRight, TypeOK
        <3> QED
            BY <2>1, <3>1 DEF ForkInv, ServerInv
    <2>2. CASE program \notin Servers
        BY <2>2 DEF ServerInv
    <2> QED
        BY <2>1, <2>2
<1>5. RoundInv'
    BY DEF ForkInv, RoundInv
<1>6. EchoInv'
    BY DEF ForkInv, EchoInv
<1> QED
    BY <1>2, <1>3, <1>4, <1>5, <1>6 DEF ForkInv

\* A child exits, wherever it was in its loop.
LEMMA ExitKeeps ==
    ASSUME ConnNum \in Nat, ForkInv, NEW p \in Children, ChildExit(p),
           at[p] \in {"read", "write", "leaving"},
           UNCHANGED <<program, mpc, cur, errno, addrlen, handler, backlog, client, sent, echoed>>
    PROVE  ForkInv'
<1> USE Kin
<1>1. /\ at \in [Children -> {"none", "son", "read", "write", "leaving", "zombie", "gone"}]
      /\ held \in [Procs -> SUBSET Conns] /\ pending \in BOOLEAN
    BY DEF ForkInv, HeldRight, TypeOK
<1>2. /\ at' \in [Children -> {"none", "son", "read", "write", "leaving", "zombie", "gone"}]
      /\ at'[p] \in {"zombie", "gone"}
      /\ \A q \in Children : q # p => at'[q] = at[q] \/ (at[q] = "zombie" /\ at'[q] = "gone")
    BY <1>1 DEF ChildExit
<1>3. held' \in [Procs -> SUBSET Conns] /\ \A q \in Procs : held'[q] = IF q = p THEN {} ELSE held[q]
    BY <1>1 DEF ChildExit
<1>4. pending' \in BOOLEAN
    BY <1>1 DEF ChildExit
<1>5. FamilyInv'
    BY <1>2 DEF ForkInv, FamilyInv
<1>6. \A q \in Children : at'[q] \in {"son", "read", "write"} => Conn(q) \in held'[q]
    BY <1>2, <1>3 DEF ForkInv, HeldRight
<1>7. \A q \in Children : at'[q] = "write" => echoed[Conn(q)] < sent[Conn(q)]
    BY <1>2 DEF ForkInv, EchoInv
<1>8. /\ \A c \in Conns : at'[c] = "none" <=> at[c] = "none"
      /\ \A c \in Conns : at[c] = "gone" => at'[c] = "gone"
    BY <1>2
<1>9. held'[0] = held[0] /\ \A q \in Children : held'[q] \subseteq held[q]
    BY <1>3
<1> QED
    BY <1>2, <1>3, <1>4, <1>5, <1>6, <1>7, <1>8, <1>9, ChildMoves

\* A process goes from read to write or back.
LEMMA TurnKeeps ==
    ASSUME ConnNum \in Nat, ForkInv, NEW p \in Children, NEW place \in {"read", "write"},
           at[p] \in {"read", "write"}, at' = [at EXCEPT ![p] = place],
           place = "write" => echoed[Conn(p)] < sent[Conn(p)],
           UNCHANGED <<program, mpc, cur, errno, addrlen, handler, pending, held, backlog, client,
                       sent, echoed>>
    PROVE  ForkInv'
<1> USE Kin
<1>1. /\ at \in [Children -> {"none", "son", "read", "write", "leaving", "zombie", "gone"}]
      /\ held \in [Procs -> SUBSET Conns] /\ pending \in BOOLEAN
    BY DEF ForkInv, HeldRight, TypeOK
<1>2. /\ at' \in [Children -> {"none", "son", "read", "write", "leaving", "zombie", "gone"}]
      /\ at'[p] = place /\ \A q \in Children : q # p => at'[q] = at[q]
    BY <1>1
<1>3. FamilyInv'
    BY <1>2 DEF ForkInv, FamilyInv
<1>4. \A q \in Children : at'[q] \in {"son", "read", "write"} => Conn(q) \in held'[q]
    BY <1>2 DEF ForkInv, HeldRight
<1>5. \A q \in Children : at'[q] = "write" => echoed[Conn(q)] < sent[Conn(q)]
    BY <1>2 DEF ForkInv, EchoInv
<1>6. /\ \A c \in Conns : at'[c] = "none" <=> at[c] = "none"
      /\ \A c \in Conns : at[c] = "gone" => at'[c] = "gone"
    BY <1>2
<1> QED
    BY <1>1, <1>2, <1>3, <1>4, <1>5, <1>6, ChildMoves

\* A son of css_echo: the second fork, and its handler.
LEMMA SonKeeps ==
    ASSUME ConnNum \in Nat, ForkInv, NEW c \in Conns, SonFork(c) \/ SonWait(c),
           UNCHANGED <<program, mpc, cur, errno, addrlen, handler>>
    PROVE  ForkInv'
<1> USE Kin DEF clientVars
<1>1. /\ at \in [Children -> {"none", "son", "read", "write", "leaving", "zombie", "gone"}]
      /\ held \in [Procs -> SUBSET Conns] /\ pending \in BOOLEAN
    BY DEF ForkInv, HeldRight, TypeOK
<1>2. UNCHANGED <<pending, backlog, client, sent, echoed>>
    BY DEF SonFork, SonWait
<1>3. CASE SonFork(c)
    <2>1. at[c] = "son" /\ at[-c] = "none" /\ c \in held[c]
        BY <1>3 DEF SonFork, ForkInv, FamilyInv, HeldRight
    <2>2. PICK childpid \in {-1, 1} :
             /\ at' = [at EXCEPT ![c] = IF Leaves(childpid) THEN "leaving" ELSE "read",
                                 ![-c] = IF childpid > 0 THEN "read" ELSE @]
             /\ held' = [held EXCEPT ![-c] = IF childpid > 0 THEN held[c] ELSE @]
        BY <1>3 DEF SonFork
    <2>3. /\ at' \in [Children -> {"none", "son", "read", "write", "leaving", "zombie", "gone"}]
          /\ held' \in [Procs -> SUBSET Conns] /\ held'[0] = held[0]
          /\ \A q \in Children : q # c /\ q # -c => at'[q] = at[q] /\ held'[q] = held[q]
          /\ held'[c] = held[c]
          /\ \/ at'[c] = "leaving" /\ at'[-c] = "read" /\ held'[-c] = held[c]
             \/ at'[c] = "read" /\ at'[-c] = "none" /\ held'[-c] = held[-c]
        BY <1>1, <2>1, <2>2 DEF Leaves
    <2>4. FamilyInv'
        BY <2>3 DEF ForkInv, FamilyInv
    <2>5. \A q \in Children : at'[q] \in {"son", "read", "write"} => Conn(q) \in held'[q]
        BY <2>1, <2>3 DEF ForkInv, HeldRight
    <2>6. \A q \in Children : at'[q] = "write" => echoed[Conn(q)] < sent[Conn(q)]
        BY <2>3 DEF ForkInv, EchoInv
    <2>7. \A q \in Children : \E d \in Children : Conn(d) = Conn(q) /\ held'[q] \subseteq held[d]
        BY <2>3
    <2>8. /\ \A d \in Conns : at'[d] = "none" <=> at[d] = "none"
          /\ \A d \in Conns : at[d] = "gone" => at'[d] = "gone"
        BY <2>1, <2>3
    <2> QED
        BY <1>1, <1>2, <2>3, <2>4, <2>5, <2>6, <2>7, <2>8, ChildMoves
<1>4. CASE SonWait(c)
    <2>1. /\ at' \in [Children -> {"none", "son", "read", "write", "leaving", "zombie", "gone"}]
          /\ held' = held /\ at[-c] = "zombie" /\ at'[-c] = "gone"
          /\ \A q \in Children : q # -c => at'[q] = at[q]
        BY <1>1, <1>4 DEF SonWait
    <2>2. FamilyInv'
        BY <2>1 DEF ForkInv, FamilyInv
    <2>3. \A q \in Children : at'[q] \in {"son", "read", "write"} => Conn(q) \in held'[q]
        BY <2>1 DEF ForkInv, HeldRight
    <2>4. \A q \in Children : at'[q] = "write" => echoed[Conn(q)] < sent[Conn(q)]
        BY <2>1 DEF ForkInv, EchoInv
    <2>5. /\ \A d \in Conns : at'[d] = "none" <=> at[d] = "none"
          /\ \A d \in Conns : at[d] = "gone" => at'[d] = "gone"
        BY <2>1
    <2> QED
        BY <1>1, <1>2, <2>1, <2>2, <2>3, <2>4, <2>5, ChildMoves
<1> QED
    BY <1>3, <1>4

\* A message is written back: only one process serves a connection.
LEMMA WriteKeeps ==
    ASSUME ConnNum \in Nat, MaxSend \in Nat, ForkInv, NEW p \in Children, Write(p),
           UNCHANGED <<program, mpc, cur, errno, addrlen, handler>>
    PROVE  ForkInv'
<1> USE Kin
<1>1. /\ UNCHANGED <<held, pending, backlog, client, sent>> /\ at[p] = "write"
      /\ echoed' = [echoed EXCEPT ![Conn(p)] = @ + 1] /\ at' = [at EXCEPT ![p] = "read"]
    BY DEF Write
<1>2. /\ at \in [Children -> {"none", "son", "read", "write", "leaving", "zombie", "gone"}]
      /\ echoed \in [Conns -> 0 .. MaxSend] /\ sent \in [Conns -> 0 .. MaxSend]
    BY DEF ForkInv, HeldRight, TypeOK
<1>3. echoed[Conn(p)] < sent[Conn(p)]
    BY <1>1 DEF ForkInv, EchoInv
<1>4. /\ echoed' \in [Conns -> 0 .. MaxSend] /\ echoed'[Conn(p)] = echoed[Conn(p)] + 1
      /\ \A c \in Conns : c # Conn(p) => echoed'[c] = echoed[c]
    BY <1>1, <1>2, <1>3
<1>5. /\ at' \in [Children -> {"none", "son", "read", "write", "leaving", "zombie", "gone"}]
      /\ at'[p] = "read" /\ \A q \in Children : q # p => at'[q] = at[q]
    BY <1>1, <1>2
<1>6. \A q \in Children : q # p /\ Conn(q) = Conn(p) => at[q] # "write"
    BY <1>1 DEF ForkInv, FamilyInv
<1>7. EchoInv'
    <2>1. \A c \in Conns : echoed'[c] <= sent[c]
        BY <1>2, <1>3, <1>4 DEF ForkInv, EchoInv
    <2>2. \A q \in Children : at'[q] = "write" => echoed'[Conn(q)] < sent[Conn(q)]
        BY <1>4, <1>5, <1>6 DEF ForkInv, EchoInv
    <2> QED
        BY <1>1, <2>1, <2>2 DEF EchoInv
<1>8. TypeOK'
    BY <1>1, <1>4, <1>5 DEF ForkInv, HeldRight, TypeOK
<1>9. HeldRight'
    BY <1>1, <1>5, <1>8 DEF ForkInv, HeldRight
<1>10. \A c \in Conns : /\ at'[c] = "none" <=> at[c] = "none"
                        /\ at[c] = "gone" => at'[c] = "gone"
    BY <1>1, <1>5
<1>11. QueueInv'
    BY <1>1, <1>10, QueueKeeps
<1>12. ServerInv'
    <2>1. CASE program \in Servers
        <3>1. mpc = "fork" => cur \in Conns
            BY <2>1 DEF ForkInv, ServerInv, HeldRight, TypeOK
        <3> QED
            BY <1>1, <1>10, <2>1, <3>1 DEF ForkInv, ServerInv
    <2>2. CASE program \notin Servers
        BY <2>2 DEF ServerInv
    <2> QED
        BY <2>1, <2>2
<1>13. RoundInv' /\ FamilyInv'
    BY <1>1, <1>5, <1>10 DEF ForkInv, RoundInv, FamilyInv
<1> QED
    BY <1>7, <1>9, <1>11, <1>12, <1>13 DEF ForkInv

\* A child's steps.
LEMMA ForkChildKeeps ==
    ASSUME ConnNum \in Nat, MaxSend \in Nat, ForkInv, NEW p \in Children, ChildStep(p)
    PROVE  ForkInv'
<1> USE DEF clientVars
<1>1. UNCHANGED <<program, mpc, cur, errno, addrlen, handler>>
    BY DEF ChildStep, mainVars
<1>2. CASE p > 0 /\ (SonFork(p) \/ SonWait(p))
    BY <1>1, <1>2, Kin, SonKeeps
<1>3. CASE Leave(p)
    BY <1>1, <1>3, ExitKeeps DEF Leave
<1>4. CASE Read(p)
    <2>1. echoed[Conn(p)] < sent[Conn(p)]
        <3>1. echoed[Conn(p)] \in Int /\ sent[Conn(p)] \in Int
            BY Kin DEF ForkInv, HeldRight, TypeOK
        <3> QED
            BY <1>4, <3>1 DEF Read, Unread
    <2> QED
        BY <1>1, <1>4, <2>1, TurnKeeps DEF Read
<1>5. CASE ReadEnd(p)
    BY <1>1, <1>5, ExitKeeps DEF ReadEnd
<1>6. CASE Write(p)
    BY <1>1, <1>6, WriteKeeps
<1>7. CASE WriteFail(p)
    <2>1. CASE ChildExit(p)
        BY <1>1, <1>7, <2>1, ExitKeeps DEF WriteFail
    <2>2. CASE at' = [at EXCEPT ![p] = "read"] /\ UNCHANGED <<held, pending>>
        BY <1>1, <1>7, <2>2, TurnKeeps DEF WriteFail
    <2> QED
        BY <1>7, <2>1, <2>2 DEF WriteFail
<1> QED
    BY <1>2, <1>3, <1>4, <1>5, <1>6, <1>7 DEF ChildStep

\* The clients: a connection is made once.
LEMMA ForkClientKeeps ==
    ASSUME ConnNum \in Nat, MaxSend \in Nat, ForkInv, ClientStep
    PROVE  ForkInv'
<1> USE Kin
<1>1. UNCHANGED <<program, mpc, cur, errno, addrlen, handler, pending, at, held>>
    BY DEF ClientStep, mainVars
<1>2. PICK c \in Conns : Connect(c) \/ Send(c) \/ Finish(c) \/ Reset(c)
    BY DEF ClientStep
<1>3. /\ backlog \in Seq(Conns) /\ client \in [Conns -> {"none", "open", "shut", "reset"}]
      /\ sent \in [Conns -> 0 .. MaxSend] /\ echoed \in [Conns -> 0 .. MaxSend]
      /\ \A k \in 1 .. Len(backlog) : backlog[k] \in Conns
      /\ program \in Servers /\ mpc = "fork" => cur \in Conns
    BY Backlogged DEF ForkInv, HeldRight, TypeOK, ServerInv
<1>4. FamilyInv'
    BY <1>1 DEF ForkInv, FamilyInv
<1>5. CASE Connect(c)
    <2>1. /\ UNCHANGED <<sent, echoed>> /\ program \in Servers /\ client[c] = "none"
          /\ client' = [client EXCEPT ![c] = "open"] /\ backlog' = Append(backlog, c)
        BY <1>5 DEF Connect
    <2>2. /\ backlog' \in Seq(Conns) /\ Len(backlog) \in Nat /\ Len(backlog') = Len(backlog) + 1
          /\ backlog'[Len(backlog) + 1] = c
          /\ \A k \in 1 .. Len(backlog) : backlog'[k] = backlog[k] /\ backlog[k] # c
        BY <1>3, <2>1 DEF ForkInv, QueueInv
    <2>3. at[c] = "none" /\ (mpc = "fork" => cur # c)
        BY <2>1 DEF ForkInv, ServerInv
    <2>4. HeldRight'
        BY <1>1, <1>3, <2>1, <2>2 DEF ForkInv, HeldRight, TypeOK
    <2>5. QueueInv'
        <3>1. \A k \in 1 .. Len(backlog') : k \in 1 .. Len(backlog) \/ k = Len(backlog) + 1
            BY <2>2
        <3>2. \A k \in 1 .. Len(backlog') : client'[backlog'[k]] # "none" /\ at[backlog'[k]] = "none"
            <4>1. \A k \in 1 .. Len(backlog) : client'[backlog[k]] = client[backlog[k]]
                BY <1>3, <2>1, <2>2
            <4>2. client'[c] = "open"
                BY <1>3, <2>1
            <4>3. \A k \in 1 .. Len(backlog) : client[backlog[k]] # "none" /\ at[backlog[k]] = "none"
                BY DEF ForkInv, QueueInv
            <4>4. TAKE k \in 1 .. Len(backlog')
            <4>5. CASE k = Len(backlog) + 1
                BY <2>2, <2>3, <4>2, <4>5
            <4>6. CASE k \in 1 .. Len(backlog)
                BY <2>2, <4>1, <4>3, <4>6
            <4> QED
                BY <3>1, <4>5, <4>6
        <3>3. \A j, k \in 1 .. Len(backlog') : backlog'[j] = backlog'[k] => j = k
            BY <2>2, <3>1 DEF ForkInv, QueueInv
        <3> QED
            BY <1>1, <3>2, <3>3 DEF QueueInv
    <2>6. ServerInv'
        <3>1. \A d \in Conns : client'[d] = "none" => client[d] = "none"
            BY <1>3, <2>1
        <3>2. mpc = "fork" => \A k \in 1 .. Len(backlog') : backlog'[k] # cur
            <4>1. \A k \in 1 .. Len(backlog') : k \in 1 .. Len(backlog) \/ k = Len(backlog) + 1
                BY <2>2
            <4>2. mpc = "fork" => \A k \in 1 .. Len(backlog) : backlog[k] # cur
                BY <2>1 DEF ForkInv, ServerInv
            <4> QED
                BY <2>2, <2>3, <4>1, <4>2
        <3> QED
            BY <1>1, <1>3, <2>1, <3>1, <3>2 DEF ForkInv, ServerInv
    <2>7. RoundInv' /\ EchoInv'
        BY <1>1, <2>1 DEF ForkInv, RoundInv, EchoInv, Servers
    <2> QED
        BY <1>4, <2>4, <2>5, <2>6, <2>7 DEF ForkInv
<1>6. CASE Send(c)
    <2>1. /\ UNCHANGED <<backlog, client, echoed>> /\ sent' \in [Conns -> 0 .. MaxSend]
          /\ \A d \in Conns : sent[d] <= sent'[d]
        BY <1>3, <1>6 DEF Send
    <2>2. HeldRight'
        BY <1>1, <2>1 DEF ForkInv, HeldRight, TypeOK
    <2>3. QueueInv' /\ ServerInv' /\ RoundInv'
        BY <1>1, <2>1 DEF ForkInv, QueueInv, ServerInv, RoundInv
    <2>4. EchoInv'
        <3>1. \A d \in Conns : {echoed[d], sent[d], sent'[d]} \subseteq Int
            BY <1>3, <2>1
        <3>2. \A d \in Conns : echoed[d] <= sent'[d]
            BY <2>1, <3>1 DEF ForkInv, EchoInv
        <3>3. \A p \in Children : at[p] = "write" => echoed[Conn(p)] < sent'[Conn(p)]
            BY <2>1, <3>1 DEF ForkInv, EchoInv
        <3> QED
            BY <1>1, <2>1, <3>2, <3>3 DEF EchoInv
    <2> QED
        BY <1>4, <2>2, <2>3, <2>4 DEF ForkInv
<1>7. CASE Finish(c) \/ Reset(c)
    <2>1. /\ UNCHANGED <<backlog, sent, echoed>>
          /\ client' \in [Conns -> {"none", "open", "shut", "reset"}]
          /\ \A d \in Conns : client'[d] = "none" => client[d] = "none"
        BY <1>3, <1>7 DEF Finish, Reset
    <2>2. HeldRight'
        BY <1>1, <2>1 DEF ForkInv, HeldRight, TypeOK
    <2>3. QueueInv'
        BY <1>1, <1>3, <2>1 DEF ForkInv, QueueInv
    <2>4. ServerInv'
        BY <1>1, <1>3, <2>1 DEF ForkInv, ServerInv
    <2>5. RoundInv' /\ EchoInv'
        BY <1>1, <2>1 DEF ForkInv, RoundInv, EchoInv
    <2> QED
        BY <1>4, <2>2, <2>3, <2>4, <2>5 DEF ForkInv
<1> QED
    BY <1>2, <1>5, <1>6, <1>7

\* Every step keeps the invariant.
LEMMA ForkStep ==
    ASSUME ConnNum \in Nat, MaxSend \in Nat, ForkInv, [Next]_vars
    PROVE  ForkInv'
<1>1. CASE Next
    BY <1>1, HandlerKeeps, ForkMainKeeps, ForkClientKeeps, ForkChildKeeps DEF Next
<1>2. CASE UNCHANGED vars
    BY <1>2 DEF vars, ForkInv, HeldRight, TypeOK, QueueInv, ServerInv, RoundInv, FamilyInv,
       EchoInv
<1> QED
    BY <1>1, <1>2

\* The invariant holds throughout.
THEOREM ForkInvariance == Spec => []ForkInv
<1>1. Init => ForkInv
    BY ForkInit, ConnNumAssumption, MaxSendAssumption
<1>2. ForkInv /\ [Next]_vars => ForkInv'
    BY ForkStep, ConnNumAssumption, MaxSendAssumption
<1> QED
    BY <1>1, <1>2, PTL DEF Spec

\* In both servers a process that serves a client has its connection open, and in
\* sigaction_waitpidS nobody has a connection open that is not his: for any
\* number of connections and messages, any limit on descriptors, and whichever
\* forks fail.
THEOREM ConnectionsHeldRight == Spec => []HeldRight
<1>1. ForkInv => HeldRight
    BY DEF ForkInv
<1> QED
    BY <1>1, ForkInvariance, PTL

\* test_fork_and_waitpid returns from main only when each of its children, however
\* many, was waited for, by the handler or by main.
THEOREM AllChildrenWaitedFor == Spec => []WaitsForAll
<1>1. ForkInv => WaitsForAll
    BY ConnNumAssumption DEF ForkInv, ServerInv, RoundInv, Waiting, WaitsForAll, HeldRight, TypeOK
<1> QED
    BY <1>1, ForkInvariance, PTL
==============================================================================
