---------------------------- MODULE DynamicArray ----------------------------
(***************************************************************************)
(* The growable array of include/utils/darray.h.  An array is the sequence *)
(* of its items and the number of items its allocation has room for; its   *)
(* count is the length of the sequence.  A write past the allocation shows *)
(* as a count above the capacity.                                          *)
(***************************************************************************)
EXTENDS Integers, Sequences

CONSTANTS InitialGrowthCapacity,   \* DARRAY_DEFAULT_INITIAL_GROWTH_CAPACITY: 8
          GrowthFactor             \* DARRAY_DEFAULT_CAPACITY_GROWTH_FACTOR: 2

(* DARRAY_INIT_EXPLICIT asserts both (darray.h:38-39).                     *)
ASSUME GrowthAssumption ==
  /\ InitialGrowthCapacity \in Nat \ {0}
  /\ GrowthFactor \in Nat \ {0, 1}

Arrays(Items) == [items : Seq(Items), capacity : Nat]

EmptyArray == [items |-> <<>>, capacity |-> 0]
Count(array) == Len(array.items)

(* DARRAY__GET_NEXT_CAPACITY *)
NextCapacity(capacity) ==
  IF capacity < InitialGrowthCapacity THEN InitialGrowthCapacity
  ELSE capacity * GrowthFactor

(* The capacities that an array grows through, from a given one on.        *)
Capacities(capacity) ==
  LET grown[n \in Nat] == IF n = 0 THEN capacity ELSE NextCapacity(grown[n - 1])
  IN  grown

(* The capacity that DARRAY_RESERVE leaves: the first one, in the order in  *)
(* which the array would grow, that is large enough.                       *)
ReservedCapacity(capacity, minimum) ==
  LET grown == Capacities(capacity)
  IN  grown[CHOOSE n \in 0..minimum :
              grown[n] >= minimum /\ \A k \in 0..n - 1 : grown[k] < minimum]

(* DARRAY_GROW *)
Grow(array) == [array EXCEPT !.capacity = NextCapacity(@)]

(* DARRAY_PUSH *)
Push(array, item) ==
  LET grown == IF Count(array) = array.capacity THEN Grow(array) ELSE array
  IN  [grown EXCEPT !.items = Append(@, item)]

Fits(array) == Count(array) <= array.capacity
=============================================================================
