-------------------------------- MODULE QSort --------------------------------
(***************************************************************************)
(* basic/qsort.cpp: the recursive quicksort that main runs on an array of  *)
(* Num random ints.  todo is the recursion: the calls qsort(array,l,r)     *)
(* still to be made, the next one first.  lo, hi, left, right and pivot    *)
(* are the parameters and locals of partition.  pc:                        *)
(*   call    qsort is entered for Head(todo), or main has its array back   *)
(*   loop    in partition's while                                          *)
(*   done    is_increase decides what main prints                          *)
(*   abort   the assert at line `failed' was false                         *)
(*   crash   the recursion is deeper than the stack                        *)
(***************************************************************************)
EXTENDS Integers, Sequences

CONSTANTS
    Num,        \* length of the array
    Vals,       \* what rand() may return
    MaxDepth    \* bound: pending calls the stack has room for

ASSUME NumAssumption == Num \in Nat
ASSUME ValsAssumption == Vals \subseteq Int
ASSUME DepthAssumption == MaxDepth \in Nat

VARIABLES
    array, todo, lo, hi, left, right, pivot, pc, failed,
    input       \* history: the array as main filled it

frameVars == <<lo, hi, left, right, pivot>>
sortVars == <<array, todo, lo, hi, left, right, pivot, pc, failed, input>>

Idx == 0 .. Num - 1

SortInit ==
    /\ array \in [Idx -> Vals] /\ input = array
    /\ todo = << <<0, Num - 1>> >>
    /\ lo = 0 /\ hi = 0 /\ left = 0 /\ right = 0 /\ pivot = 0
    /\ pc = "call" /\ failed = 0

------------------------------------------------------------------------------
\* Mutant: nothing is exchanged.
swap_Nothing(f, a, b) == f

swap(f, a, b) == [f EXCEPT ![a] = f[b], ![b] = f[a]]

Abort(line) ==
    /\ pc' = "abort" /\ failed' = line
    /\ UNCHANGED <<array, todo, frameVars>>

Return ==
    /\ todo = <<>>
    /\ pc' = "done"
    /\ UNCHANGED <<array, todo, frameVars, failed>>

l == Head(todo)[1]
r == Head(todo)[2]

QsortAssert == todo # <<>> /\ ~(r >= l) /\ Abort(61)

QsortOne ==
    /\ todo # <<>> /\ l = r
    /\ todo' = Tail(todo)
    /\ UNCHANGED <<array, frameVars, pc, failed>>

Ordered(f, a, b) == IF f[a] > f[b] THEN swap(f, a, b) ELSE f

QsortTwo ==
    /\ todo # <<>> /\ l = r - 1
    /\ array' = Ordered(array, l, r)
    /\ todo' = Tail(todo)
    /\ UNCHANGED <<frameVars, pc, failed>>

\* At least three elements: partition is called.
QsortMany ==
    /\ todo # <<>> /\ l < r - 1
    /\ lo' = l /\ hi' = r /\ left' = l /\ right' = r
    /\ pivot' = array[(l + r) \div 2]
    /\ pc' = "loop"
    /\ UNCHANGED <<array, todo, failed>>

Call == pc = "call" /\ (Return \/ QsortAssert \/ QsortOne \/ QsortTwo \/ QsortMany)

SmallEnough(v) == v <= pivot
LargeEnough(v) == v >= pivot

PartitionLeft ==
    /\ pc = "loop" /\ left < right
    /\ SmallEnough(array[left])
    /\ left' = left + 1
    /\ UNCHANGED <<array, todo, lo, hi, right, pivot, pc, failed>>

PartitionRight ==
    /\ pc = "loop" /\ left < right
    /\ ~SmallEnough(array[left]) /\ LargeEnough(array[right])
    /\ right' = right - 1
    /\ UNCHANGED <<array, todo, lo, hi, left, pivot, pc, failed>>

PartitionSwap ==
    /\ pc = "loop" /\ left < right
    /\ ~SmallEnough(array[left]) /\ ~LargeEnough(array[right])
    /\ array' = swap(array, left, right)
    /\ UNCHANGED <<todo, frameVars, pc, failed>>

re == IF array[left] > pivot THEN left - 1
      ELSE IF array[left] < pivot THEN left + 1 ELSE left

\* array[re]==pivot; next to the array there is some memory or other.
PivotAt == IF re \in Idx THEN {array[re] = pivot} ELSE BOOLEAN

\* Mutant: the element next to the pivot is in neither half.
Halves_Gap == << <<lo, re - 2>>, <<re + 1, hi>> >>

Halves == << <<lo, re - 1>>, <<re + 1, hi>> >>

\* partition returns re and qsort calls itself for both sides.
PartitionReturn ==
    /\ pc = "loop" /\ left = right
    /\ TRUE \in PivotAt
    /\ todo' = Halves \o Tail(todo)
    /\ pc' = IF Len(todo) < MaxDepth THEN "call" ELSE "crash"
    /\ UNCHANGED <<array, frameVars, failed>>

PartitionAssert ==
    /\ pc = "loop" /\ left = right
    /\ FALSE \in PivotAt
    /\ Abort(46)

Partition == PartitionLeft \/ PartitionRight \/ PartitionSwap
             \/ PartitionReturn \/ PartitionAssert

SortNext == (Call \/ Partition) /\ UNCHANGED input

SortSpec == SortInit /\ [][SortNext]_sortVars
SortFairSpec == SortSpec /\ WF_sortVars(SortNext)

is_increase(f, a, b) == \A k \in a .. b - 1 : f[k] <= f[k + 1]

------------------------------------------------------------------------------
\* The parts qsort may be asked to sort, the empty ones it then aborts on too.
Parts == (0 .. Num + 1) \X (-2 .. Num - 1)

SortTypeOK ==
    /\ array \in [Idx -> Vals] /\ input \in [Idx -> Vals]
    /\ todo \in Seq(Parts)
    /\ lo \in 0 .. Num /\ hi \in 0 .. Num
    /\ left \in 0 .. Num /\ right \in 0 .. Num
    /\ pivot \in Vals \cup {0}
    /\ pc \in {"call", "loop", "done", "abort", "crash"}
    /\ failed \in {0, 46, 61}

\* partition's loop stays inside the part it was given (so its asserts at 22
\* and 34 hold), everything it has passed on the left is at most the pivot and
\* everything it has passed on the right is at least the pivot.
PartitionInv ==
    pc = "loop" =>
        /\ 0 <= lo /\ lo <= left /\ left <= right /\ right <= hi /\ hi < Num
        /\ \A k \in lo .. left - 1 : array[k] <= pivot
        /\ \A k \in right + 1 .. hi : array[k] >= pivot

\* The calls still to be made are for parts that lie apart, in ascending order,
\* and partition works on the first of them.
CallsInv ==
    /\ \A m, n \in 1 .. Len(todo) : m < n => todo[m][2] < todo[n][1]
    /\ pc = "loop" => todo # <<>> /\ todo[1] = <<lo, hi>>
    /\ pc = "done" => todo = <<>>

\* Two positions are in order unless a call still to be made, or the one being
\* partitioned, covers both: what is behind is sorted for good.
Covered(a, b) == \E n \in 1 .. Len(todo) : todo[n][1] <= a /\ b <= todo[n][2]
Separated ==
    \A a, b \in Idx : a < b => array[a] <= array[b] \/ Covered(a, b)

\* The inductive invariant behind SortOk.
IInv == SortTypeOK /\ PartitionInv /\ CallsInv /\ Separated

\* The array is at all times a rearrangement of what main put into it.
Rearrangements == {p \in [Idx -> Idx] : \A a, b \in Idx : p[a] = p[b] => a = b}
Rearranged == \E p \in Rearrangements : array = [k \in Idx |-> input[p[k]]]

\* Whenever qsort returns to main, is_increase holds (main never prints
\* "sort fail") and the array has the elements main put into it.
SortOk == pc = "done" => is_increase(array, 0, Num - 1) /\ Rearranged

\* No loop of partition runs for ever: the array is returned, an assert fails
\* or the stack is used up.
Ends == <>(pc \in {"done", "abort", "crash"})

\* "assert(array[re]==pivot)" (qsort.cpp:46): partition leaves the pivot at the
\* position it returns.
PivotFound == failed # 46
==============================================================================
