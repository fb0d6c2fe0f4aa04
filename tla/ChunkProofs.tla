----------------------------- MODULE ChunkProofs -----------------------------
(***************************************************************************)
(* Proofs about the chunk for every opcode table, every width of a byte    *)
(* and every initial capacity of at least two bytes: that the appends stay *)
(* within the arrays, and that what is read back is what was appended.  The*)
(* second goes by the walk over the bytes, a recursive function: it exists,*)
(* appended bytes do not change where it has been, and it ends where the   *)
(* bytes of the next instruction begin.                                    *)
(***************************************************************************)
EXTENDS Chunk, SequenceTheorems, WellFoundedInduction, TLAPS

(* A capacity is the one of an array that has never grown, or at least the *)
(* initial one.  Without this a growth could add room for one byte only: an*)
(* array of 2 that grows to an initial capacity of 3.                      *)
Grown(capacity) == capacity = 0 \/ capacity >= InitialGrowthCapacity

IInv == ChunkInv /\ Grown(code.capacity)

(* DARRAY_GROW adds room for an item from any capacity, and for two from a *)
(* capacity that it reached itself.                                        *)
LEMMA GrowthMakesRoom ==
  ASSUME NEW capacity \in Nat
  PROVE  /\ NextCapacity(capacity) \in Nat
         /\ NextCapacity(capacity) >= capacity + 1
         /\ Grown(NextCapacity(capacity))
         /\ Grown(capacity) => NextCapacity(capacity) >= capacity + 2
<1>1. /\ InitialGrowthCapacity \in Nat /\ InitialGrowthCapacity >= 2
      /\ GrowthFactor \in Nat /\ GrowthFactor >= 2
  BY GrowthAssumption, ChunkAssumption
<1>2. CASE capacity < InitialGrowthCapacity
  BY <1>1, <1>2 DEF NextCapacity, Grown
<1>3. CASE capacity >= InitialGrowthCapacity
  <2>1. PICK extra \in Nat : GrowthFactor = extra + 2
    BY <1>1
  <2>2. capacity * GrowthFactor = capacity * extra + 2 * capacity
    BY <2>1
  <2>3. capacity * extra \in Nat
    BY <2>1
  <2>4. NextCapacity(capacity) = capacity * extra + 2 * capacity
    BY <1>1, <1>3, <2>2 DEF NextCapacity
  <2> QED BY <1>1, <1>3, <2>3, <2>4 DEF Grown
<1> QED BY <1>1, <1>2, <1>3

(* DARRAY_PUSH writes within its allocation.                               *)
LEMMA PushFits ==
  ASSUME NEW Items, NEW array \in Arrays(Items), Fits(array), NEW item \in Items
  PROVE  /\ Push(array, item) \in Arrays(Items)
         /\ Fits(Push(array, item))
         /\ Grown(array.capacity) => Grown(Push(array, item).capacity)
<1>1. array.items \in Seq(Items) /\ array.capacity \in Nat
      /\ Len(array.items) <= array.capacity
  BY DEF Arrays, Fits, Count
<1>2. /\ Append(array.items, item) \in Seq(Items)
      /\ Len(Append(array.items, item)) = Len(array.items) + 1
  BY <1>1
<1>3. CASE Count(array) = array.capacity
  <2>1. Push(array, item) = [items |-> Append(array.items, item),
                             capacity |-> NextCapacity(array.capacity)]
    <3>1. Grow(array) = [items |-> array.items,
                         capacity |-> NextCapacity(array.capacity)]
      BY DEF Grow, Arrays
    <3> QED BY <1>3, <3>1 DEF Push
  <2> QED BY <1>1, <1>2, <1>3, <2>1, GrowthMakesRoom DEF Arrays, Fits, Count
<1>4. CASE Count(array) # array.capacity
  <2>1. Push(array, item) = [items |-> Append(array.items, item),
                             capacity |-> array.capacity]
    BY <1>4 DEF Push, Arrays
  <2> QED BY <1>1, <1>2, <1>4, <2>1 DEF Arrays, Fits, Count
<1> QED BY <1>3, <1>4

(* chunk_append_multibyte_operand: one growth is enough for two bytes.     *)
LEMMA TwoBytesFit ==
  ASSUME NEW Items, NEW array \in Arrays(Items), Fits(array), Grown(array.capacity),
         NEW first \in Items, NEW second \in Items
  PROVE  /\ AppendTwoBytes(array, first, second) \in Arrays(Items)
         /\ Fits(AppendTwoBytes(array, first, second))
         /\ Grown(AppendTwoBytes(array, first, second).capacity)
<1>1. array.items \in Seq(Items) /\ array.capacity \in Nat
      /\ Len(array.items) <= array.capacity
  BY DEF Arrays, Fits, Count
<1>2. /\ array.items \o <<first, second>> \in Seq(Items)
      /\ Len(array.items \o <<first, second>>) = Len(array.items) + 2
  BY <1>1
<1>3. CASE Count(array) + 2 > array.capacity
  <2>1. AppendTwoBytes(array, first, second)
          = [items |-> array.items \o <<first, second>>,
             capacity |-> NextCapacity(array.capacity)]
    <3>1. Grow(array) = [items |-> array.items,
                         capacity |-> NextCapacity(array.capacity)]
      BY DEF Grow, Arrays
    <3>2. AppendTwoBytes(array, first, second)
            = [Grow(array) EXCEPT !.items = array.items \o <<first, second>>]
      BY <1>3, <3>1 DEF AppendTwoBytes
    <3>3. \A items, more, capacity :
            [[items |-> items, capacity |-> capacity] EXCEPT !.items = more]
              = [items |-> more, capacity |-> capacity]
      OBVIOUS
    <3>4. AppendTwoBytes(array, first, second)
            = [[items |-> array.items, capacity |-> NextCapacity(array.capacity)]
                 EXCEPT !.items = array.items \o <<first, second>>]
      BY <3>1, <3>2, Zenon
    <3> QED BY <3>3, <3>4, Zenon
  <2>2. NextCapacity(array.capacity) \in Nat /\ Grown(NextCapacity(array.capacity))
        /\ NextCapacity(array.capacity) >= array.capacity + 2
    BY <1>1, GrowthMakesRoom
  <2>3. Len(array.items) + 2 <= NextCapacity(array.capacity)
    BY <1>1, <2>2
  <2> QED BY <1>2, <2>1, <2>2, <2>3 DEF Arrays, Fits, Count
<1>4. CASE ~(Count(array) + 2 > array.capacity)
  <2>1. AppendTwoBytes(array, first, second)
          = [items |-> array.items \o <<first, second>>, capacity |-> array.capacity]
    <3>1. AppendTwoBytes(array, first, second)
            = [array EXCEPT !.items = array.items \o <<first, second>>]
      BY <1>4 DEF AppendTwoBytes
    <3> QED BY <3>1 DEF Arrays
  <2> QED BY <1>1, <1>2, <1>4, <2>1 DEF Arrays, Fits, Count
<1> QED BY <1>3, <1>4

LEMMA EmptyFits ==
  ASSUME NEW Items
  PROVE  /\ EmptyArray \in Arrays(Items) /\ Fits(EmptyArray)
         /\ Grown(EmptyArray.capacity)
BY DEF EmptyArray, Arrays, Fits, Count, Grown

(* The opcodes that are appended, and the bytes of an index, are bytes.    *)
LEMMA OpcodeIsByte ==
  ASSUME NEW op \in SimpleOps \cup ConstantOps
  PROVE  OpcodeByte(op) \in Bytes
<1>1. \E i \in 1..Len(OpcodeTable) : OpcodeTable[i] = op
  BY ChunkAssumption
<1>2. (CHOOSE i \in 1..Len(OpcodeTable) : OpcodeTable[i] = op) \in 1..Len(OpcodeTable)
  BY <1>1
<1> QED BY <1>2, ChunkAssumption DEF OpcodeByte, Bytes

LEMMA ByteOfIndex ==
  ASSUME NEW index \in Nat, NEW i \in {0, 1}
  PROVE  GetByte(index, i) \in Bytes
<1>1. ByteStates \in Nat /\ ByteStates > 0
  BY ChunkAssumption
<1>2. /\ index % ByteStates \in 0..(ByteStates - 1)
      /\ index \div ByteStates \in Nat
  BY <1>1
<1>3. (index \div ByteStates) % ByteStates \in 0..(ByteStates - 1)
  BY <1>1, <1>2
<1> QED BY <1>2, <1>3 DEF GetByte, Bytes

(* The lines of chunk_append_instruction.                                  *)
LEMMA AttributeFits ==
  ASSUME lines \in Arrays(LineCounts), Fits(lines), NEW line \in Lines
  PROVE  Attribute(line) \in Arrays(LineCounts) /\ Fits(Attribute(line))
<1>1. CASE Count(lines) = 0 \/ line # lines.items[Count(lines)].line
  <2>1. [line |-> line, count |-> 1] \in LineCounts
    BY DEF LineCounts
  <2> QED BY <1>1, <2>1, PushFits DEF Attribute
<1>2. CASE ~(Count(lines) = 0 \/ line # lines.items[Count(lines)].line)
  <2> DEFINE last == Len(lines.items)
             counted == [lines.items[last] EXCEPT !.count = @ + 1]
             items == [lines.items EXCEPT ![last] = counted]
  <2>1. lines.items \in Seq(LineCounts) /\ last \in 1..Len(lines.items)
        /\ lines.capacity \in Nat /\ Len(lines.items) <= lines.capacity
    BY <1>2 DEF Arrays, Count, Fits
  <2>2. lines.items[last] \in LineCounts
    BY <2>1
  <2>3. counted \in LineCounts
    BY <2>2 DEF LineCounts
  <2>4. items \in Seq(LineCounts) /\ Len(items) = Len(lines.items)
    BY <2>1, <2>3
  <2>5. Attribute(line) = [items |-> items, capacity |-> lines.capacity]
    BY <1>2, <2>1 DEF Attribute, Arrays, Count
  <2> QED BY <2>1, <2>4, <2>5 DEF Arrays, Fits, Count
<1> QED BY <1>1, <1>2

LEMMA AppendConstantStep ==
  ASSUME IInv, NEW value \in Values, NEW line \in Lines,
         chunk_append_constant_instruction(value, line)
  PROVE  IInv'
<1> DEFINE index == Count(constants)
<1>1. /\ code \in Arrays(Bytes) /\ Fits(code) /\ Grown(code.capacity)
      /\ lines \in Arrays(LineCounts) /\ Fits(lines)
      /\ constants \in Arrays(Values) /\ Fits(constants) /\ exited \in BOOLEAN
  BY DEF IInv, ChunkInv
<1>2. index \in Nat
  BY <1>1 DEF Arrays, Count
<1>3. constants' \in Arrays(Values) /\ Fits(constants')
  BY <1>1, PushFits DEF chunk_append_constant_instruction
<1>4. CASE index > ByteStates * ByteStates - 1 /\ exited' = TRUE /\ UNCHANGED <<code, lines>>
  BY <1>1, <1>3, <1>4 DEF IInv, ChunkInv
<1>5. CASE /\ code' = AppendTwoBytes(Push(code, OpcodeByte("CONSTANT_2B")),
                                     GetByte(index, 0), GetByte(index, 1))
           /\ lines' = Attribute(line) /\ UNCHANGED exited
  <2>1. OpcodeByte("CONSTANT_2B") \in Bytes
    BY OpcodeIsByte DEF ConstantOps
  <2> DEFINE opened == Push(code, OpcodeByte("CONSTANT_2B"))
  <2>2. opened \in Arrays(Bytes) /\ Fits(opened) /\ Grown(opened.capacity)
    BY <1>1, <2>1, PushFits
  <2>3. GetByte(index, 0) \in Bytes /\ GetByte(index, 1) \in Bytes
    BY <1>2, ByteOfIndex
  <2> HIDE DEF opened
  <2>4. code' = AppendTwoBytes(opened, GetByte(index, 0), GetByte(index, 1))
    BY <1>5 DEF opened
  <2>5. code' \in Arrays(Bytes) /\ Fits(code') /\ Grown(code'.capacity)
    BY <2>2, <2>3, <2>4, TwoBytesFit
  <2>6. lines' \in Arrays(LineCounts) /\ Fits(lines')
    BY <1>1, <1>5, AttributeFits
  <2> QED BY <1>1, <1>3, <1>5, <2>5, <2>6 DEF IInv, ChunkInv
<1>6. CASE /\ index <= ByteStates - 1
           /\ code' = Push(Push(code, OpcodeByte("CONSTANT")), index)
           /\ lines' = Attribute(line) /\ UNCHANGED exited
  <2>1. OpcodeByte("CONSTANT") \in Bytes
    BY OpcodeIsByte DEF ConstantOps
  <2> DEFINE opened == Push(code, OpcodeByte("CONSTANT"))
  <2>2. opened \in Arrays(Bytes) /\ Fits(opened) /\ Grown(opened.capacity)
    BY <1>1, <2>1, PushFits
  <2>3. index \in Bytes
    BY <1>2, <1>6, ChunkAssumption DEF Bytes
  <2> HIDE DEF opened
  <2>4. code' = Push(opened, index)
    BY <1>6 DEF opened
  <2>5. code' \in Arrays(Bytes) /\ Fits(code') /\ Grown(code'.capacity)
    BY <2>2, <2>3, <2>4, PushFits
  <2>6. lines' \in Arrays(LineCounts) /\ Fits(lines')
    BY <1>1, <1>6, AttributeFits
  <2> QED BY <1>1, <1>3, <1>6, <2>5, <2>6 DEF IInv, ChunkInv
<1> QED BY <1>4, <1>5, <1>6 DEF chunk_append_constant_instruction

LEMMA ChunkStep == IInv /\ [ChunkNext]_chunkVars => IInv'
<1> SUFFICES ASSUME IInv, [ChunkNext]_chunkVars PROVE IInv'
  OBVIOUS
<1>1. /\ code \in Arrays(Bytes) /\ Fits(code) /\ Grown(code.capacity)
      /\ lines \in Arrays(LineCounts) /\ Fits(lines)
      /\ constants \in Arrays(Values) /\ Fits(constants) /\ exited \in BOOLEAN
  BY DEF IInv, ChunkInv
<1>2. ASSUME NEW op \in SimpleOps, NEW line \in Lines, chunk_append_instruction(op, line)
      PROVE  IInv'
  <2>1. OpcodeByte(op) \in Bytes
    BY OpcodeIsByte
  <2>2. code' \in Arrays(Bytes) /\ Fits(code') /\ Grown(code'.capacity)
    BY <1>1, <1>2, <2>1, PushFits DEF chunk_append_instruction
  <2>3. lines' \in Arrays(LineCounts) /\ Fits(lines')
    BY <1>1, <1>2, AttributeFits DEF chunk_append_instruction
  <2> QED BY <1>1, <1>2, <2>2, <2>3 DEF IInv, ChunkInv, chunk_append_instruction
<1>3. ASSUME NEW value \in Values, NEW line \in Lines,
             chunk_append_constant_instruction(value, line)
      PROVE  IInv'
  BY <1>3, AppendConstantStep
<1>4. CASE chunk_reset
  BY <1>1, <1>4, EmptyFits DEF IInv, ChunkInv, chunk_reset
<1>5. CASE UNCHANGED chunkVars
  BY <1>1, <1>5 DEF IInv, ChunkInv, chunkVars
<1> QED BY <1>2, <1>3, <1>4, <1>5 DEF ChunkNext

(* No append writes past its allocation (chunk.c:68, :96-:102, DARRAY_PUSH)*)
(* and everything stored is a byte, a line count or a value.               *)
THEOREM ChunkWithinCapacity == ChunkSpec => []ChunkInv
<1>1. ChunkInit => IInv
  BY EmptyFits DEF ChunkInit, IInv, ChunkInv
<1>2. IInv => ChunkInv
  BY DEF IInv
<1> QED BY <1>1, <1>2, ChunkStep, PTL DEF ChunkSpec

-----------------------------------------------------------------------------
(* Functions of the naturals that are defined by recursion.  Such a one    *)
(* exists because its beginnings do: there is no least length without one. *)
LEMMA LeastNatural ==
  ASSUME NEW T, T \subseteq Nat, T # {}
  PROVE  \E x \in T : \A y \in T : x <= y
<1>1. PICK x \in T : \A y \in T : ~(<<y, x>> \in OpToRel(<, Nat))
  BY WFMin, NatLessThanWellFounded
<1>2. \A y \in T : ~(y < x)
  BY <1>1 DEF OpToRel
<1> QED BY <1>2

Beginning(f, n, first, step) ==
  /\ f[0] = first
  /\ \A i \in 1..n : f[i] = step[i][f[i - 1]]

(* Two beginnings of the same recursion agree as far as both go.           *)
LEMMA BeginningsAgree ==
  ASSUME NEW first, NEW step, NEW m \in Nat, NEW n \in Nat, NEW f, NEW g,
         Beginning(f, m, first, step), Beginning(g, n, first, step)
  PROVE  \A i \in Nat : i <= m /\ i <= n => f[i] = g[i]
<1> DEFINE Differ == {i \in Nat : i <= m /\ i <= n /\ f[i] # g[i]}
<1>1. SUFFICES ASSUME Differ # {} PROVE FALSE
  OBVIOUS
<1>2. PICK i \in Differ : \A j \in Differ : i <= j
  <2>1. Differ \subseteq Nat
    OBVIOUS
  <2> HIDE DEF Differ
  <2> QED BY <1>1, <2>1, LeastNatural
<1>3. i # 0
  BY DEF Beginning
<1>4. i - 1 \in Nat /\ i \in 1..m /\ i \in 1..n
  BY <1>3
<1>5. f[i - 1] = g[i - 1]
  BY <1>2, <1>4
<1> QED BY <1>4, <1>5 DEF Beginning

(* There is a beginning of every length.                                   *)
LEMMA BeginningsExist ==
  ASSUME NEW first, NEW step
  PROVE  \A n \in Nat : \E f : Beginning(f, n, first, step)
<1> DEFINE Without == {n \in Nat : ~\E f : Beginning(f, n, first, step)}
<1>1. SUFFICES ASSUME Without # {} PROVE FALSE
  OBVIOUS
<1>2. PICK n \in Without : \A m \in Without : n <= m
  <2>1. Without \subseteq Nat
    OBVIOUS
  <2> HIDE DEF Without
  <2> QED BY <1>1, <2>1, LeastNatural
<1>3. n # 0
  <2>1. Beginning([i \in {0} |-> first], 0, first, step)
    BY DEF Beginning
  <2> QED BY <2>1
<1>4. n - 1 \in Nat /\ n - 1 \notin Without
  BY <1>2, <1>3
<1>5. PICK f : Beginning(f, n - 1, first, step)
  BY <1>4
<1> DEFINE longer == [i \in 0..n |-> IF i = n THEN step[n][f[n - 1]] ELSE f[i]]
<1>6. /\ \A i \in 0..n : longer[i] = IF i = n THEN step[n][f[n - 1]] ELSE f[i]
      /\ n \in Nat
  OBVIOUS
<1> HIDE DEF longer
<1>7. longer[0] = first
  BY <1>3, <1>5, <1>6 DEF Beginning
<1>8. ASSUME NEW i \in 1..n PROVE longer[i] = step[i][longer[i - 1]]
  <2>1. i \in 0..n /\ i - 1 \in 0..n /\ i - 1 # n
    BY <1>6
  <2>2. longer[i - 1] = f[i - 1]
    BY <1>6, <2>1
  <2>3. CASE i = n
    BY <1>6, <2>1, <2>2, <2>3
  <2>4. CASE i # n
    <3>1. i \in 1..n - 1
      BY <1>6, <2>4
    <3>2. longer[i] = f[i] /\ f[i] = step[i][f[i - 1]]
      BY <1>5, <1>6, <2>1, <2>4, <3>1 DEF Beginning
    <3> QED BY <2>2, <3>2
  <2> QED BY <2>3, <2>4
<1>9. Beginning(longer, n, first, step)
  BY <1>7, <1>8 DEF Beginning
<1> QED BY <1>9

Follows(f, first, step) == f[0] = first /\ \A n \in Nat : f[n + 1] = step[n + 1][f[n]]

(* A recursion over a set of values has a function that follows it.        *)
LEMMA RecursiveFunction ==
  ASSUME NEW S, NEW first \in S, NEW step \in [Nat -> [S -> S]]
  PROVE  \E f \in [Nat -> S] : Follows(f, first, step)
<1> DEFINE beginning(n) == CHOOSE f : Beginning(f, n, first, step)
           whole == [n \in Nat |-> beginning(n)[n]]
<1>1. \A n \in Nat : Beginning(beginning(n), n, first, step)
  BY BeginningsExist
<1> HIDE DEF beginning
<1>2. whole[0] = first
  BY <1>1 DEF Beginning
<1>3. ASSUME NEW n \in Nat PROVE whole[n + 1] = step[n + 1][whole[n]]
  <2>1. n + 1 \in Nat /\ n + 1 \in 1..n + 1 /\ (n + 1) - 1 = n /\ n <= n + 1
    OBVIOUS
  <2>2. beginning(n + 1)[n + 1] = step[n + 1][beginning(n + 1)[n]]
    BY <1>1, <2>1 DEF Beginning
  <2>3. beginning(n + 1)[n] = beginning(n)[n]
    BY <1>1, <2>1, BeginningsAgree
  <2> QED BY <2>1, <2>2, <2>3
<1> DEFINE Outside == {n \in Nat : whole[n] \notin S}
<1>4. Outside = {}
  <2>1. SUFFICES ASSUME Outside # {} PROVE FALSE
    OBVIOUS
  <2>2. PICK n \in Outside : \A m \in Outside : n <= m
    <3>1. Outside \subseteq Nat
      OBVIOUS
    <3> HIDE DEF Outside
    <3> QED BY <2>1, <3>1, LeastNatural
  <2>3. n \in Nat /\ whole[n] \notin S
    OBVIOUS
  <2>4. n # 0
    BY <1>2, <2>3
  <2> HIDE DEF whole
  <2>5. n - 1 \in Nat /\ (n - 1) + 1 = n
    BY <2>3, <2>4
  <2>6. whole[n - 1] \in S
    BY <2>2, <2>5
  <2>7. whole[n] = step[n][whole[n - 1]]
    BY <1>3, <2>5
  <2> QED BY <2>3, <2>6, <2>7
<1>5. whole \in [Nat -> S]
  BY <1>4
<1>6. Follows(whole, first, step)
  BY <1>2, <1>3 DEF Follows
<1> QED BY <1>5, <1>6

(* The walk moves from an instruction to the next by the size of the first.*)
LEMMA WalkSteps ==
  ASSUME NEW bytes
  PROVE  /\ Walk(bytes) \in [Nat -> Nat]
         /\ Walk(bytes)[0] = 0
         /\ \A n \in Nat : Walk(bytes)[n + 1]
                = Walk(bytes)[n] + Size(OpcodeAt(bytes, Walk(bytes)[n]))
<1> DEFINE following == [offset \in Nat |-> offset + Size(OpcodeAt(bytes, offset))]
           step == [n \in Nat |-> following]
           walk == Walk(bytes)
<1>1. \A op : Size(op) \in Nat
  BY DEF Size
<1>2. following \in [Nat -> Nat]
  BY <1>1
<1>3. walk = CHOOSE w : w = [n \in Nat |-> IF n = 0 THEN 0 ELSE following[w[n - 1]]]
  BY DEF Walk
<1>4. \A offset \in Nat : following[offset] = offset + Size(OpcodeAt(bytes, offset))
  OBVIOUS
<1> HIDE DEF following, walk
<1>5. step \in [Nat -> [Nat -> Nat]]
  BY <1>2
<1>6. PICK f \in [Nat -> Nat] : Follows(f, 0, step)
  <2> HIDE DEF step
  <2>1. 0 \in Nat
    OBVIOUS
  <2> QED BY <1>5, <2>1, RecursiveFunction
<1>7. f[0] = 0 /\ \A n \in Nat : f[n + 1] = following[f[n]]
  BY <1>6 DEF Follows
<1>8. f = [n \in Nat |-> IF n = 0 THEN 0 ELSE following[f[n - 1]]]
  <2>1. ASSUME NEW n \in Nat PROVE f[n] = IF n = 0 THEN 0 ELSE following[f[n - 1]]
    <3>1. CASE n = 0
      BY <1>7, <3>1
    <3>2. CASE n # 0
      <4>1. n - 1 \in Nat /\ (n - 1) + 1 = n
        BY <3>2
      <4> QED BY <1>7, <3>2, <4>1
    <3> QED BY <3>1, <3>2
  <2> QED BY <2>1
<1>9. walk = [n \in Nat |-> IF n = 0 THEN 0 ELSE following[walk[n - 1]]]
  BY <1>3, <1>8, Zenon
<1>10. walk[0] = 0 /\ \A n \in Nat : walk[n + 1] = following[walk[n]]
  <2>1. \A n \in Nat : walk[n] = IF n = 0 THEN 0 ELSE following[walk[n - 1]]
    BY <1>9
  <2>2. ASSUME NEW n \in Nat PROVE walk[n + 1] = following[walk[n]]
    <3>1. n + 1 \in Nat /\ n + 1 # 0 /\ (n + 1) - 1 = n
      OBVIOUS
    <3> QED BY <2>1, <3>1
  <2> QED BY <2>1, <2>2
<1>11. \A n \in Nat : walk[n] \in Nat
  <2> DEFINE Outside == {n \in Nat : walk[n] \notin Nat}
  <2>1. SUFFICES ASSUME Outside # {} PROVE FALSE
    OBVIOUS
  <2>2. PICK n \in Outside : \A m \in Outside : n <= m
    <3>1. Outside \subseteq Nat
      OBVIOUS
    <3> HIDE DEF Outside
    <3> QED BY <2>1, <3>1, LeastNatural
  <2>3. n \in Nat /\ n # 0
    BY <1>10
  <2>4. n - 1 \in Nat /\ (n - 1) + 1 = n
    BY <2>3
  <2>5. walk[n - 1] \in Nat
    BY <2>2, <2>4
  <2> QED BY <1>2, <1>10, <2>4, <2>5
<1>12. walk \in [Nat -> Nat]
  BY <1>9, <1>11
<1> QED BY <1>4, <1>10, <1>11, <1>12 DEF walk

(* A sum of the first numbers is the sum before it and one number more.    *)
LEMMA SumSteps ==
  ASSUME NEW k \in Nat, NEW numbers \in [1..k -> Int]
  PROVE  /\ PartialSums(numbers)[0] = 0
         /\ \A n \in 0..k : PartialSums(numbers)[n] \in Int
         /\ \A n \in 0..k - 1 :
              PartialSums(numbers)[n + 1] = PartialSums(numbers)[n] + numbers[n + 1]
<1> DEFINE step == [n \in Nat |-> [total \in Int |->
                      IF n \notin DOMAIN numbers THEN 0 ELSE total + numbers[n]]]
           sum == PartialSums(numbers)
<1>1. sum = CHOOSE s : s = [n \in Nat |->
                              IF n \notin DOMAIN numbers THEN 0 ELSE s[n - 1] + numbers[n]]
  BY DEF PartialSums
<1>2. DOMAIN numbers = 1..k /\ \A n \in 1..k : numbers[n] \in Int
  OBVIOUS
<1> HIDE DEF sum
<1>3. step \in [Nat -> [Int -> Int]]
  BY <1>2
<1>4. PICK f \in [Nat -> Int] : Follows(f, 0, step)
  <2> HIDE DEF step
  <2>1. 0 \in Int
    OBVIOUS
  <2> QED BY <1>3, <2>1, RecursiveFunction
<1>5. /\ f[0] = 0
      /\ \A n \in Nat : f[n + 1] = IF n + 1 \notin DOMAIN numbers THEN 0
                                    ELSE f[n] + numbers[n + 1]
  <2>1. \A n \in Nat : \A total \in Int :
          step[n][total] = IF n \notin DOMAIN numbers THEN 0 ELSE total + numbers[n]
    OBVIOUS
  <2> HIDE DEF step
  <2>2. ASSUME NEW n \in Nat
        PROVE  f[n + 1] = IF n + 1 \notin DOMAIN numbers THEN 0 ELSE f[n] + numbers[n + 1]
    <3>1. n + 1 \in Nat /\ f[n] \in Int
      BY <1>4
    <3> QED BY <1>4, <2>1, <3>1 DEF Follows
  <2> QED BY <1>4, <2>2 DEF Follows
<1>6. f = [n \in Nat |-> IF n \notin DOMAIN numbers THEN 0 ELSE f[n - 1] + numbers[n]]
  <2>1. ASSUME NEW n \in Nat
        PROVE  f[n] = IF n \notin DOMAIN numbers THEN 0 ELSE f[n - 1] + numbers[n]
    <3>1. CASE n = 0
      BY <1>2, <1>5, <3>1
    <3>2. CASE n # 0
      <4>1. n - 1 \in Nat /\ (n - 1) + 1 = n
        BY <3>2
      <4> QED BY <1>5, <4>1
    <3> QED BY <3>1, <3>2
  <2> QED BY <2>1
<1>7. sum = [n \in Nat |-> IF n \notin DOMAIN numbers THEN 0 ELSE sum[n - 1] + numbers[n]]
  BY <1>1, <1>6, Zenon
<1>8. \A n \in Nat : sum[n] = IF n \notin DOMAIN numbers THEN 0 ELSE sum[n - 1] + numbers[n]
  BY <1>7
<1>9. sum[0] = 0
  BY <1>2, <1>8
<1>10. ASSUME NEW n \in 0..k - 1 PROVE sum[n + 1] = sum[n] + numbers[n + 1]
  <2>1. n + 1 \in Nat /\ n + 1 \in 1..k /\ (n + 1) - 1 = n
    OBVIOUS
  <2> QED BY <1>2, <1>8, <2>1
<1>11. \A n \in 0..k : sum[n] \in Int
  <2> DEFINE Outside == {n \in 0..k : sum[n] \notin Int}
  <2>1. SUFFICES ASSUME Outside # {} PROVE FALSE
    OBVIOUS
  <2>2. PICK n \in Outside : \A m \in Outside : n <= m
    <3>1. Outside \subseteq Nat
      OBVIOUS
    <3> HIDE DEF Outside
    <3> QED BY <2>1, <3>1, LeastNatural
  <2>3. n \in 0..k /\ n # 0
    BY <1>9
  <2>4. n - 1 \in 0..k - 1 /\ n - 1 \in 0..k /\ (n - 1) + 1 = n /\ n \in 1..k /\ ~(n <= n - 1)
    BY <2>3
  <2>5. sum[n - 1] \in Int
    BY <2>2, <2>4
  <2>6. sum[n] = sum[n - 1] + numbers[n]
    BY <1>10, <2>4
  <2> QED BY <1>2, <2>4, <2>5, <2>6
<1> QED BY <1>9, <1>10, <1>11 DEF sum

(* Sums of lists that agree at first agree as far.                         *)
LEMMA SumsAgree ==
  ASSUME NEW k \in Nat, NEW l \in Nat, k <= l,
         NEW a \in [1..k -> Int], NEW b \in [1..l -> Int],
         NEW m \in 0..k, \A i \in 1..m : a[i] = b[i]
  PROVE  \A n \in 0..m : PartialSums(a)[n] = PartialSums(b)[n]
<1> DEFINE Differ == {n \in 0..m : PartialSums(a)[n] # PartialSums(b)[n]}
<1>1. SUFFICES ASSUME Differ # {} PROVE FALSE
  OBVIOUS
<1>2. PICK n \in Differ : \A i \in Differ : n <= i
  <2>1. Differ \subseteq Nat
    OBVIOUS
  <2> HIDE DEF Differ
  <2> QED BY <1>1, <2>1, LeastNatural
<1>3. n # 0
  BY SumSteps
<1>4. n - 1 \in 0..m /\ n - 1 \in 0..k - 1 /\ n - 1 \in 0..l - 1 /\ (n - 1) + 1 = n /\ n \in 1..m
      /\ ~(n <= n - 1)
  BY <1>3
<1>5. PartialSums(a)[n - 1] = PartialSums(b)[n - 1]
  BY <1>2, <1>4
<1>6. PartialSums(a)[n] = PartialSums(a)[n - 1] + a[n]
  BY <1>4, SumSteps
<1>7. PartialSums(b)[n] = PartialSums(b)[n - 1] + b[n]
  BY <1>4, SumSteps
<1> QED BY <1>4, <1>5, <1>6, <1>7

-----------------------------------------------------------------------------
(* The lines of the instructions.                                          *)
Counts(runs) == [i \in DOMAIN runs |-> runs[i].count]
Total(runs) == PartialSums(Counts(runs))

(* A run counts at least one instruction.                                  *)
LEMMA CountsAreNumbers ==
  ASSUME NEW runs \in Seq(LineCounts)
  PROVE  /\ Len(runs) \in Nat /\ Counts(runs) \in [1..Len(runs) -> Int]
         /\ \A i \in 1..Len(runs) : Counts(runs)[i] = runs[i].count /\ runs[i].count > 0
<1>1. /\ Len(runs) \in Nat /\ DOMAIN runs = 1..Len(runs)
      /\ \A i \in 1..Len(runs) : runs[i] \in LineCounts
  BY LenProperties, ElementOfSeq
<1>2. \A i \in 1..Len(runs) : runs[i].count \in Nat /\ runs[i].count > 0
  BY <1>1 DEF LineCounts
<1> QED BY <1>1, <1>2 DEF Counts

(* No run takes back what the runs before it have counted.                 *)
LEMMA TotalsIncrease ==
  ASSUME NEW runs \in Seq(LineCounts), NEW m \in 0..Len(runs)
  PROVE  \A n \in m..Len(runs) : Total(runs)[m] <= Total(runs)[n]
<1> DEFINE Below == {n \in m..Len(runs) : ~(Total(runs)[m] <= Total(runs)[n])}
<1>1. SUFFICES ASSUME Below # {} PROVE FALSE
  OBVIOUS
<1>2. /\ Len(runs) \in Nat /\ Counts(runs) \in [1..Len(runs) -> Int]
      /\ \A i \in 1..Len(runs) : Counts(runs)[i] > 0
  BY CountsAreNumbers
<1>3. PICK n \in Below : \A i \in Below : n <= i
  <2>1. Below \subseteq Nat
    BY <1>2
  <2> HIDE DEF Below
  <2> QED BY <1>1, <2>1, LeastNatural
<1>4. /\ \A i \in 0..Len(runs) : Total(runs)[i] \in Int
      /\ \A i \in 0..Len(runs) - 1 : Total(runs)[i + 1] = Total(runs)[i] + Counts(runs)[i + 1]
  <2>1. Total(runs) = PartialSums(Counts(runs))
    BY DEF Total
  <2> QED BY <1>2, <2>1, SumSteps
<1>5. n # m
  BY <1>2, <1>4
<1>6. n - 1 \in m..Len(runs) /\ n - 1 \in 0..Len(runs) - 1 /\ n - 1 \in 0..Len(runs)
      /\ (n - 1) + 1 = n /\ n \in 1..Len(runs) /\ ~(n <= n - 1)
  BY <1>2, <1>5
<1>7. Total(runs)[m] <= Total(runs)[n - 1]
  BY <1>3, <1>6
<1>8. Total(runs)[n] = Total(runs)[n - 1] + Counts(runs)[n]
  BY <1>4, <1>6
<1>9. ~(Total(runs)[m] <= Total(runs)[n])
  OBVIOUS
<1>10. Total(runs)[n - 1] \in Int /\ Total(runs)[m] \in Int /\ Counts(runs)[n] \in Int
       /\ Counts(runs)[n] > 0
  BY <1>2, <1>4, <1>6
<1> QED BY <1>7, <1>8, <1>9, <1>10

(* Min is the least element, where there is one.                           *)
LEMMA MinIsLeast ==
  ASSUME NEW T, T \subseteq Int, NEW x \in T, \A y \in T : x <= y
  PROVE  Min(T) = x
<1>1. Min(T) \in T /\ \A y \in T : Min(T) <= y
  BY DEF Min
<1>2. Min(T) \in Int /\ x \in Int /\ Min(T) <= x /\ x <= Min(T)
  BY <1>1
<1> QED BY <1>2

(* The run of an instruction is the first with which more instructions than*)
(* precede it have been counted.                                           *)
IsRun(runs, r, index) ==
  /\ r \in 1..Len(runs)
  /\ Total(runs)[r] > index
  /\ \A i \in 1..r - 1 : Total(runs)[i] <= index

(* chunk_get_instruction_line finds the line of that run.                  *)
LEMMA LineOfRun ==
  ASSUME NEW runs \in Seq(LineCounts), NEW index \in Int, NEW r, IsRun(runs, r, index)
  PROVE  chunk_get_instruction_line(runs, index) = runs[r].line
<1> DEFINE Beyond == {i \in DOMAIN runs : Total(runs)[i] > index}
<1>1. /\ Len(runs) \in Nat /\ DOMAIN runs = 1..Len(runs)
      /\ \A i \in 1..Len(runs) : Total(runs)[i] \in Int
  <2>1. Len(runs) \in Nat /\ Counts(runs) \in [1..Len(runs) -> Int]
    BY CountsAreNumbers
  <2>2. \A i \in 0..Len(runs) : Total(runs)[i] \in Int
    BY <2>1, SumSteps DEF Total
  <2> QED BY <2>1, <2>2, LenProperties
<1>2. r \in Beyond /\ Beyond \subseteq Int
  BY <1>1 DEF IsRun
<1>3. ASSUME NEW i \in Beyond PROVE r <= i
  <2>1. SUFFICES ASSUME i < r PROVE FALSE
    BY <1>1 DEF IsRun
  <2>2. i \in 1..r - 1 /\ Total(runs)[i] \in Int /\ Total(runs)[i] > index
    BY <1>1, <2>1 DEF IsRun
  <2> QED BY <2>2 DEF IsRun
<1>4. chunk_get_instruction_line(runs, index) = runs[Min(Beyond)].line
  BY DEF chunk_get_instruction_line, Total, Counts
<1> HIDE DEF Beyond
<1>5. Min(Beyond) = r
  BY <1>2, <1>3, MinIsLeast
<1> QED BY <1>4, <1>5

(* Every instruction that the runs have counted is in one of them.         *)
LEMMA RunOfInstruction ==
  ASSUME NEW runs \in Seq(LineCounts), NEW index \in Nat, Total(runs)[Len(runs)] > index
  PROVE  \E r : IsRun(runs, r, index)
<1> DEFINE Beyond == {i \in 0..Len(runs) : Total(runs)[i] > index}
<1>1. /\ Len(runs) \in Nat /\ Total(runs)[0] = 0
      /\ \A i \in 0..Len(runs) : Total(runs)[i] \in Int
  BY CountsAreNumbers, SumSteps DEF Total
<1>2. Beyond \subseteq Nat /\ Len(runs) \in Beyond
  BY <1>1
<1>3. PICK r \in Beyond : \A i \in Beyond : r <= i
  <2> HIDE DEF Beyond
  <2> QED BY <1>2, LeastNatural
<1>4. r # 0
  BY <1>1
<1>5. r \in 1..Len(runs) /\ Total(runs)[r] > index
  BY <1>1, <1>4
<1>6. ASSUME NEW i \in 1..r - 1 PROVE Total(runs)[i] <= index
  <2>1. i \in 0..Len(runs) /\ ~(r <= i)
    BY <1>1, <1>5
  <2>2. Total(runs)[i] \in Int /\ ~(Total(runs)[i] > index)
    BY <1>1, <1>3, <2>1
  <2> QED BY <2>2
<1>7. IsRun(runs, r, index)
  BY <1>5, <1>6 DEF IsRun
<1> QED BY <1>7

(* When all runs but the last are as they were and the last counts one more*)
(* instruction, every other instruction keeps its line.                    *)
LEMMA LastRunCounts ==
  ASSUME NEW runs \in Seq(LineCounts), NEW more \in Seq(LineCounts), NEW line, NEW n \in Nat,
         Total(runs)[Len(runs)] = n, Total(more)[Len(more)] = n + 1,
         Len(more) >= 1, Len(more) \in {Len(runs), Len(runs) + 1},
         \A i \in 1..Len(more) - 1 : Total(more)[i] = Total(runs)[i],
         \A i \in 1..Len(runs) : more[i].line = runs[i].line,
         more[Len(more)].line = line
  PROVE  /\ \A index \in 0..n - 1 :
              chunk_get_instruction_line(more, index) = chunk_get_instruction_line(runs, index)
         /\ chunk_get_instruction_line(more, n) = line
<1>1. /\ Len(runs) \in Nat /\ Len(more) \in Nat
      /\ \A i \in 0..Len(runs) : Total(runs)[i] \in Int
      /\ \A i \in 0..Len(more) : Total(more)[i] \in Int
  <2>1. /\ Len(runs) \in Nat /\ Counts(runs) \in [1..Len(runs) -> Int]
        /\ Len(more) \in Nat /\ Counts(more) \in [1..Len(more) -> Int]
    BY CountsAreNumbers
  <2> QED BY <2>1, SumSteps DEF Total
<1>2. ASSUME NEW index \in 0..n - 1
      PROVE  chunk_get_instruction_line(more, index) = chunk_get_instruction_line(runs, index)
  <2>1. index \in Nat /\ index < n /\ index \in Int
    OBVIOUS
  <2>2. PICK r : IsRun(runs, r, index)
    BY <2>1, RunOfInstruction
  <2>3. chunk_get_instruction_line(runs, index) = runs[r].line
    BY <2>1, <2>2, LineOfRun
  <2>4. r \in 1..Len(runs) /\ r \in 1..Len(more) /\ Total(runs)[r] > index
    BY <1>1, <2>2 DEF IsRun
  <2>5. Total(more)[r] > index
    <3>1. CASE r = Len(more)
      BY <2>1, <3>1
    <3>2. CASE r # Len(more)
      <4>1. r \in 1..Len(more) - 1
        BY <1>1, <2>4, <3>2
      <4>2. Total(more)[r] = Total(runs)[r]
        BY <4>1
      <4> QED BY <2>4, <4>2
    <3> QED BY <3>1, <3>2
  <2>6. ASSUME NEW i \in 1..r - 1 PROVE Total(more)[i] <= index
    <3>1. i \in 1..Len(more) - 1
      BY <1>1, <2>4
    <3>2. Total(more)[i] = Total(runs)[i]
      BY <3>1
    <3> QED BY <2>2, <3>2 DEF IsRun
  <2>7. IsRun(more, r, index)
    BY <2>4, <2>5, <2>6 DEF IsRun
  <2>8. chunk_get_instruction_line(more, index) = more[r].line
    BY <2>1, <2>7, LineOfRun
  <2> QED BY <2>3, <2>4, <2>8
<1>3. chunk_get_instruction_line(more, n) = line
  <2>1. ASSUME NEW i \in 1..Len(more) - 1 PROVE Total(more)[i] <= n
    <3>1. i \in 0..Len(runs) /\ Len(runs) \in i..Len(runs)
      BY <1>1
    <3>2. Total(runs)[i] <= Total(runs)[Len(runs)]
      BY <3>1, TotalsIncrease
    <3>3. Total(more)[i] = Total(runs)[i]
      OBVIOUS
    <3> QED BY <3>2, <3>3
  <2>2. IsRun(more, Len(more), n)
    <3>1. Len(more) \in 1..Len(more) /\ n + 1 > n
      BY <1>1
    <3> QED BY <2>1, <3>1 DEF IsRun
  <2> QED BY <2>2, LineOfRun
<1> QED BY <1>2, <1>3

(* chunk_append_instruction counts the instruction in the last run or in a *)
(* new one.                                                                *)
LEMMA Attributed ==
  ASSUME lines \in Arrays(LineCounts), Fits(lines), NEW line \in Lines, NEW n \in Nat,
         Total(lines.items)[Len(lines.items)] = n
  PROVE  LET more == Attribute(line).items
         IN  /\ Total(more)[Len(more)] = n + 1
             /\ \A index \in 0..n - 1 : chunk_get_instruction_line(more, index)
                                          = chunk_get_instruction_line(lines.items, index)
             /\ chunk_get_instruction_line(more, n) = line
<1> DEFINE runs == lines.items
           more == Attribute(line).items
           last == Len(runs)
           new == [line |-> line, count |-> 1]
<1>1. /\ runs \in Seq(LineCounts) /\ last \in Nat /\ Counts(runs) \in [1..last -> Int]
      /\ \A i \in 1..last : runs[i] \in LineCounts /\ Counts(runs)[i] = runs[i].count
      /\ DOMAIN runs = 1..last
  <2>1. runs \in Seq(LineCounts)
    BY DEF Arrays
  <2> HIDE DEF runs
  <2> QED BY <2>1, CountsAreNumbers, ElementOfSeq, LenProperties DEF last
<1>2. more \in Seq(LineCounts)
  BY AttributeFits DEF Arrays
<1>3. /\ Total(runs)[0] = 0 /\ Total(runs)[last] = n
      /\ \A i \in 0..last - 1 : Total(runs)[i + 1] = Total(runs)[i] + Counts(runs)[i + 1]
      /\ \A i \in 0..last : Total(runs)[i] \in Int
  <2> HIDE DEF runs, last
  <2>1. /\ PartialSums(Counts(runs))[0] = 0
        /\ \A i \in 0..last - 1 : PartialSums(Counts(runs))[i + 1]
             = PartialSums(Counts(runs))[i] + Counts(runs)[i + 1]
        /\ \A i \in 0..last : PartialSums(Counts(runs))[i] \in Int
    BY <1>1, SumSteps
  <2> QED BY <2>1 DEF Total, runs, last
<1>4. CASE Count(lines) = 0 \/ line # lines.items[Count(lines)].line
  <2>1. more = Append(runs, new)
    <3>1. Attribute(line) = Push(lines, new)
      BY <1>4 DEF Attribute
    <3>2. Push(lines, new).items = Append(lines.items, new)
      BY DEF Push, Grow, Arrays
    <3> QED BY <3>1, <3>2
  <2>2. new \in LineCounts /\ new.line = line /\ new.count = 1
    BY DEF LineCounts
  <2> HIDE DEF more, runs, new
  <2>3. /\ Len(more) = last + 1 /\ more[last + 1] = new
        /\ \A i \in 1..last : more[i] = runs[i]
    BY <1>1, <2>1, <2>2, AppendProperties DEF last
  <2>4. /\ Counts(more) \in [1..last + 1 -> Int] /\ last + 1 \in Nat
        /\ \A i \in 1..last + 1 : Counts(more)[i] = more[i].count
    BY <1>1, <1>2, <2>3, CountsAreNumbers
  <2>5. \A i \in 1..last : Counts(runs)[i] = Counts(more)[i]
    <3>1. ASSUME NEW i \in 1..last PROVE Counts(runs)[i] = Counts(more)[i]
      <4>1. i \in 1..last + 1
        BY <1>1
      <4> QED BY <1>1, <2>3, <2>4, <4>1
    <3> QED BY <3>1
  <2>6. \A i \in 0..last : Total(runs)[i] = Total(more)[i]
    <3> HIDE DEF last
    <3>1. last \in 0..last /\ last <= last + 1
      BY <1>1
    <3>2. \A i \in 0..last : PartialSums(Counts(runs))[i] = PartialSums(Counts(more))[i]
      BY <1>1, <2>4, <2>5, <3>1, SumsAgree
    <3> QED BY <3>2 DEF Total
  <2>7. Total(more)[last + 1] = n + 1
    <3> HIDE DEF last
    <3>1. last \in 0..(last + 1) - 1 /\ last + 1 \in 1..last + 1 /\ last \in 0..last
      BY <1>1
    <3>2. PartialSums(Counts(more))[last + 1]
            = PartialSums(Counts(more))[last] + Counts(more)[last + 1]
      BY <2>4, <3>1, SumSteps
    <3>3. Counts(more)[last + 1] = 1
      BY <2>2, <2>3, <2>4, <3>1
    <3>4. PartialSums(Counts(more))[last] = n
      BY <1>3, <2>6, <3>1 DEF Total
    <3> QED BY <3>2, <3>3, <3>4 DEF Total
  <2>8. /\ Len(more) >= 1 /\ Len(more) \in {last, last + 1}
        /\ \A i \in 1..Len(more) - 1 : Total(more)[i] = Total(runs)[i]
        /\ \A i \in 1..last : more[i].line = runs[i].line
        /\ more[Len(more)].line = line
    BY <1>1, <2>2, <2>3, <2>6
  <2>9. Total(more)[Len(more)] = n + 1
    BY <2>3, <2>7
  <2>10. /\ \A index \in 0..n - 1 :
              chunk_get_instruction_line(more, index) = chunk_get_instruction_line(runs, index)
         /\ chunk_get_instruction_line(more, n) = line
    BY <1>1, <1>2, <1>3, <2>8, <2>9, LastRunCounts
  <2> QED BY <2>9, <2>10 DEF more, runs
<1>5. CASE ~(Count(lines) = 0 \/ line # lines.items[Count(lines)].line)
  <2> DEFINE counted == [runs[last] EXCEPT !.count = @ + 1]
  <2>1. last \in 1..last /\ runs[last].line = line /\ runs[last] \in LineCounts
    BY <1>1, <1>5 DEF Count
  <2>2. more = [runs EXCEPT ![last] = counted]
    BY <1>1, <1>5, <2>1 DEF Attribute, Count, Arrays
  <2>3. counted \in LineCounts /\ counted.line = line /\ counted.count = runs[last].count + 1
    BY <2>1 DEF LineCounts
  <2> HIDE DEF more, runs, counted
  <2>4. /\ Len(more) = last /\ more[last] = counted
        /\ \A i \in 1..last : i # last => more[i] = runs[i]
    BY <1>1, <2>1, <2>2, <2>3, ExceptSeq DEF last
  <2>5. /\ Counts(more) \in [1..last -> Int]
        /\ \A i \in 1..last : Counts(more)[i] = more[i].count
    BY <1>2, <2>4, CountsAreNumbers
  <2> HIDE DEF last
  <2>6. \A i \in 0..last - 1 : Total(runs)[i] = Total(more)[i]
    <3>1. last - 1 \in 0..last /\ last <= last
      BY <1>1, <2>1
    <3>2. \A i \in 1..last - 1 : Counts(runs)[i] = Counts(more)[i]
      <4>1. ASSUME NEW i \in 1..last - 1 PROVE Counts(runs)[i] = Counts(more)[i]
        <5>1. i \in 1..last /\ i # last
          BY <1>1
        <5> QED BY <1>1, <2>4, <2>5, <5>1
      <4> QED BY <4>1
    <3>3. \A i \in 0..last - 1 : PartialSums(Counts(runs))[i] = PartialSums(Counts(more))[i]
      BY <1>1, <2>5, <3>1, <3>2, SumsAgree
    <3> QED BY <3>3 DEF Total
  <2>7. Total(more)[last] = n + 1
    <3>1. last - 1 \in 0..last - 1 /\ (last - 1) + 1 = last /\ last - 1 \in 0..last
      BY <1>1, <2>1
    <3>2. PartialSums(Counts(more))[last]
            = PartialSums(Counts(more))[last - 1] + Counts(more)[last]
      BY <1>1, <2>5, <3>1, SumSteps
    <3>3. Counts(more)[last] = Counts(runs)[last] + 1
      BY <1>1, <2>1, <2>3, <2>4, <2>5
    <3>4. Total(more)[last] = Total(runs)[last - 1] + (Counts(runs)[last] + 1)
      BY <2>6, <3>1, <3>2, <3>3 DEF Total
    <3>5. n = Total(runs)[last - 1] + Counts(runs)[last]
      BY <1>3, <3>1
    <3>6. Total(runs)[last - 1] \in Int /\ Counts(runs)[last] \in Int
      BY <1>1, <1>3, <2>1, <3>1
    <3> QED BY <3>4, <3>5, <3>6
  <2>8. /\ Len(more) >= 1 /\ Len(more) \in {last, last + 1}
        /\ \A i \in 1..Len(more) - 1 : Total(more)[i] = Total(runs)[i]
        /\ more[Len(more)].line = line
    BY <1>1, <2>1, <2>3, <2>4, <2>6
  <2>9. \A i \in 1..last : more[i].line = runs[i].line
    BY <2>1, <2>3, <2>4
  <2>10. Total(more)[Len(more)] = n + 1
    BY <2>4, <2>7
  <2>11. /\ \A index \in 0..n - 1 :
              chunk_get_instruction_line(more, index) = chunk_get_instruction_line(runs, index)
         /\ chunk_get_instruction_line(more, n) = line
    BY <1>1, <1>2, <1>3, <2>8, <2>9, <2>10, LastRunCounts DEF last
  <2> QED BY <2>10, <2>11 DEF more, runs
<1> QED BY <1>4, <1>5

-----------------------------------------------------------------------------
(* The bytes of the instructions.                                          *)
LEMMA SizesArePositive == \A op : Size(op) \in Nat /\ Size(op) > 0
BY DEF Size

(* An instruction takes at least one byte.                                 *)
LEMMA WalkIncreases ==
  ASSUME NEW bytes, NEW m \in Nat
  PROVE  \A n \in Nat : m <= n => Walk(bytes)[m] + (n - m) <= Walk(bytes)[n]
<1> DEFINE Below == {n \in Nat : m <= n /\ ~(Walk(bytes)[m] + (n - m) <= Walk(bytes)[n])}
<1>1. SUFFICES ASSUME Below # {} PROVE FALSE
  OBVIOUS
<1>2. PICK n \in Below : \A i \in Below : n <= i
  <2>1. Below \subseteq Nat
    OBVIOUS
  <2> HIDE DEF Below
  <2> QED BY <1>1, <2>1, LeastNatural
<1>3. \A i \in Nat : Walk(bytes)[i] \in Nat
  BY WalkSteps
<1>4. n # m
  BY <1>3
<1>5. n - 1 \in Nat /\ m <= n - 1 /\ (n - 1) + 1 = n /\ ~(n <= n - 1)
  BY <1>4
<1>6. Walk(bytes)[m] + ((n - 1) - m) <= Walk(bytes)[n - 1]
  BY <1>2, <1>5
<1>7. Walk(bytes)[n] = Walk(bytes)[n - 1] + Size(OpcodeAt(bytes, Walk(bytes)[n - 1]))
  BY <1>5, WalkSteps
<1> DEFINE size == Size(OpcodeAt(bytes, Walk(bytes)[n - 1]))
<1>8. size \in Nat /\ size > 0
  BY SizesArePositive
<1>9. Walk(bytes)[n] = Walk(bytes)[n - 1] + size
  BY <1>7
<1>10. n \in Nat /\ ~(Walk(bytes)[m] + (n - m) <= Walk(bytes)[n])
  OBVIOUS
<1> HIDE DEF size, Below
<1>11. Walk(bytes)[m] \in Nat /\ Walk(bytes)[n - 1] \in Nat
  BY <1>3, <1>5
<1> QED BY <1>5, <1>6, <1>8, <1>9, <1>10, <1>11

(* A walk that ends at the end of the bytes has counted the instructions.  *)
LEMMA CountOfInstructions ==
  ASSUME NEW bytes \in Seq(Bytes), NEW n \in Nat, Walk(bytes)[n] = Len(bytes)
  PROVE  InstructionCount(bytes) = n
<1> DEFINE IsCount(m) == /\ Walk(bytes)[m] >= Len(bytes)
                         /\ m > 0 => Walk(bytes)[m - 1] < Len(bytes)
<1>1. Len(bytes) \in Nat /\ Walk(bytes)[0] = 0 /\ \A i \in Nat : Walk(bytes)[i] \in Nat
  BY LenProperties, WalkSteps
<1>2. n \in 0..Len(bytes)
  <2>1. 0 \in Nat /\ 0 <= n
    OBVIOUS
  <2>2. Walk(bytes)[0] + (n - 0) <= Walk(bytes)[n]
    BY <2>1, WalkIncreases
  <2> QED BY <1>1, <2>2
<1>3. IsCount(n)
  <2>1. CASE n = 0
    BY <1>1, <2>1
  <2>2. CASE n # 0
    <3>1. n - 1 \in Nat /\ n - 1 <= n
      BY <2>2
    <3>2. Walk(bytes)[n - 1] + (n - (n - 1)) <= Walk(bytes)[n]
      BY <3>1, WalkIncreases
    <3> QED BY <1>1, <3>1, <3>2
  <2> QED BY <2>1, <2>2
<1>4. ASSUME NEW m \in 0..Len(bytes), IsCount(m) PROVE m = n
  <2>1. m \in Nat
    OBVIOUS
  <2>2. CASE m < n
    <3>1. Walk(bytes)[m] + (n - m) <= Walk(bytes)[n]
      BY <2>1, <2>2, WalkIncreases
    <3> QED BY <1>1, <1>4, <2>1, <2>2, <3>1
  <2>3. CASE n < m
    <3>1. m - 1 \in Nat /\ n <= m - 1 /\ m > 0
      BY <2>1, <2>3
    <3>2. Walk(bytes)[n] + ((m - 1) - n) <= Walk(bytes)[m - 1]
      BY <3>1, WalkIncreases
    <3> QED BY <1>1, <1>4, <3>1, <3>2
  <2> QED BY <2>1, <2>2, <2>3
<1>5. InstructionCount(bytes) = CHOOSE m \in 0..Len(bytes) : IsCount(m)
  BY DEF InstructionCount
<1> HIDE DEF IsCount
<1> QED BY <1>2, <1>3, <1>4, <1>5

(* What follows the instructions changes none of them.                     *)
LEMMA SameInstructions ==
  ASSUME NEW bytes \in Seq(Bytes), NEW more \in Seq(Bytes), NEW n \in Nat,
         Walk(bytes)[n] = Len(bytes)
  PROVE  /\ \A m \in 0..n : Walk(bytes \o more)[m] = Walk(bytes)[m]
         /\ \A m \in 0..n - 1 :
              /\ OpcodeAt(bytes \o more, Walk(bytes)[m]) = OpcodeAt(bytes, Walk(bytes)[m])
              /\ OperandAt(bytes \o more, Walk(bytes)[m]) = OperandAt(bytes, Walk(bytes)[m])
<1> DEFINE whole == bytes \o more
           walk == Walk(bytes)
<1>1. /\ Len(bytes) \in Nat /\ Len(more) \in Nat
      /\ \A i \in 1..Len(bytes) : whole[i] = bytes[i]
  <2>1. Len(bytes) \in Nat /\ Len(more) \in Nat
    BY LenProperties
  <2>2. \A i \in 1..Len(bytes) + Len(more) :
          whole[i] = IF i <= Len(bytes) THEN bytes[i] ELSE more[i - Len(bytes)]
    BY ConcatProperties
  <2> HIDE DEF whole
  <2> QED BY <2>1, <2>2
<1>2. /\ walk[0] = 0 /\ \A m \in Nat : walk[m] \in Nat
      /\ \A m \in Nat : walk[m + 1] = walk[m] + Size(OpcodeAt(bytes, walk[m]))
  BY WalkSteps
<1>3. /\ Walk(whole)[0] = 0
      /\ \A m \in Nat : Walk(whole)[m + 1] = Walk(whole)[m] + Size(OpcodeAt(whole, Walk(whole)[m]))
  BY WalkSteps
<1> HIDE DEF whole
<1>4. ASSUME NEW m \in 0..n - 1
      PROVE  walk[m] \in Nat /\ walk[m] + Size(OpcodeAt(bytes, walk[m])) <= Len(bytes)
  <2>1. m \in Nat /\ m + 1 \in Nat /\ m + 1 <= n
    OBVIOUS
  <2>2. walk[m + 1] + (n - (m + 1)) <= walk[n]
    BY <2>1, WalkIncreases
  <2>3. walk[m + 1] <= Len(bytes)
    <3>1. walk[m + 1] \in Nat /\ n - (m + 1) \in Nat /\ walk[n] = Len(bytes)
      BY <1>2, <2>1
    <3> HIDE DEF walk
    <3> QED BY <1>1, <2>2, <3>1
  <2>4. walk[m + 1] = walk[m] + Size(OpcodeAt(bytes, walk[m]))
    BY <1>2, <2>1
  <2> QED BY <1>2, <2>1, <2>3, <2>4
<1> HIDE DEF walk
<1>5. ASSUME NEW m \in 0..n - 1
      PROVE  /\ OpcodeAt(whole, walk[m]) = OpcodeAt(bytes, walk[m])
             /\ OperandAt(whole, walk[m]) = OperandAt(bytes, walk[m])
  <2> DEFINE op == OpcodeAt(bytes, walk[m])
  <2>1. walk[m] \in Nat /\ walk[m] + Size(op) <= Len(bytes) /\ Size(op) \in Nat /\ Size(op) > 0
    BY <1>4, SizesArePositive
  <2>2. walk[m] + 1 \in 1..Len(bytes)
    BY <1>1, <2>1
  <2>3. OpcodeAt(whole, walk[m]) = op
    BY <1>1, <2>2 DEF OpcodeAt
  <2> HIDE DEF op
  <2>4. CASE op = "CONSTANT"
    <3>1. Size(op) = 2
      BY <2>4 DEF Size
    <3>2. walk[m] + 2 \in 1..Len(bytes)
      BY <1>1, <2>1, <3>1
    <3>3. whole[walk[m] + 2] = bytes[walk[m] + 2]
      BY <1>1, <3>2
    <3>4. OpcodeAt(whole, walk[m]) = "CONSTANT" /\ OpcodeAt(bytes, walk[m]) = "CONSTANT"
      BY <2>3, <2>4 DEF op
    <3> QED BY <3>3, <3>4 DEF OperandAt
  <2>5. CASE op = "CONSTANT_2B"
    <3>1. Size(op) = 3
      BY <2>5 DEF Size
    <3>2. walk[m] + 2 \in 1..Len(bytes) /\ walk[m] + 3 \in 1..Len(bytes)
      BY <1>1, <2>1, <3>1
    <3>3. whole[walk[m] + 2] = bytes[walk[m] + 2] /\ whole[walk[m] + 3] = bytes[walk[m] + 3]
      BY <1>1, <3>2
    <3>4. OpcodeAt(whole, walk[m]) = "CONSTANT_2B" /\ OpcodeAt(bytes, walk[m]) = "CONSTANT_2B"
      BY <2>3, <2>5 DEF op
    <3> QED BY <3>3, <3>4 DEF OperandAt
  <2>6. CASE op # "CONSTANT" /\ op # "CONSTANT_2B"
    <3>1. OperandAt(whole, walk[m]) = 0
      BY <2>3, <2>6 DEF OperandAt
    <3>2. OperandAt(bytes, walk[m]) = 0
      BY <2>6 DEF OperandAt, op
    <3> QED BY <2>3, <3>1, <3>2 DEF op
  <2> QED BY <2>3, <2>4, <2>5, <2>6 DEF op
<1>6. \A m \in 0..n : Walk(whole)[m] = walk[m]
  <2> DEFINE Differ == {m \in 0..n : Walk(whole)[m] # walk[m]}
  <2>1. SUFFICES ASSUME Differ # {} PROVE FALSE
    OBVIOUS
  <2>2. PICK m \in Differ : \A i \in Differ : m <= i
    <3>1. Differ \subseteq Nat
      OBVIOUS
    <3> HIDE DEF Differ
    <3> QED BY <2>1, <3>1, LeastNatural
  <2>3. m # 0
    BY <1>2, <1>3
  <2>4. m - 1 \in Nat /\ m - 1 \in 0..n - 1 /\ m - 1 \in 0..n /\ (m - 1) + 1 = m
        /\ ~(m <= m - 1)
    BY <2>3
  <2>5. Walk(whole)[m - 1] = walk[m - 1]
    BY <2>2, <2>4
  <2>6. Walk(whole)[m] = Walk(whole)[m - 1] + Size(OpcodeAt(whole, Walk(whole)[m - 1]))
    BY <1>3, <2>4
  <2>7. walk[m] = walk[m - 1] + Size(OpcodeAt(bytes, walk[m - 1]))
    BY <1>2, <2>4
  <2>8. OpcodeAt(whole, walk[m - 1]) = OpcodeAt(bytes, walk[m - 1])
    BY <1>5, <2>4
  <2> QED BY <2>5, <2>6, <2>7, <2>8
<1> QED BY <1>5, <1>6 DEF whole, walk

(* A function of 1..n is a sequence of n elements.                         *)
LEMMA LengthOfList ==
  ASSUME NEW n \in Nat, NEW list, list = [i \in 1..n |-> list[i]]
  PROVE  Len(list) = n
<1> DEFINE T == {list[i] : i \in 1..n}
<1>1. \A i \in 1..n : list[i] \in T
  OBVIOUS
<1> HIDE DEF T
<1>2. list \in [1..n -> T]
  BY <1>1
<1> QED BY <1>2

IsLonger(longer, list, n, e) ==
  /\ list = [i \in 1..n |-> list[i]]
  /\ longer = [i \in 1..n + 1 |-> longer[i]]
  /\ \A i \in 1..n : longer[i] = list[i]
  /\ longer[n + 1] = e

(* A list that is one element longer is the shorter one appended to.       *)
LEMMA AppendedList ==
  ASSUME NEW n \in Nat, NEW list, NEW longer, NEW e, IsLonger(longer, list, n, e)
  PROVE  longer = Append(list, e)
<1>0. /\ list = [i \in 1..n |-> list[i]] /\ longer = [i \in 1..n + 1 |-> longer[i]]
      /\ \A i \in 1..n : longer[i] = list[i]
      /\ longer[n + 1] = e
  BY DEF IsLonger
<1> DEFINE T == {longer[i] : i \in 1..n + 1}
<1>1. \A i \in 1..n + 1 : longer[i] \in T
  OBVIOUS
<1>2. \A i \in 1..n : list[i] \in T
  <2>1. ASSUME NEW i \in 1..n PROVE list[i] \in T
    <3>1. i \in 1..n + 1
      OBVIOUS
    <3> QED BY <1>0, <1>1, <3>1
  <2> QED BY <2>1
<1>3. e \in T
  <2>1. n + 1 \in 1..n + 1
    OBVIOUS
  <2> QED BY <1>0, <1>1, <2>1
<1> HIDE DEF T
<1>4. list \in [1..n -> T] /\ longer \in [1..n + 1 -> T]
  BY <1>0, <1>1, <1>2
<1>5. list \in Seq(T) /\ Len(list) = n
  BY <1>4
<1>6. longer \in Seq(T) /\ Len(longer) = n + 1
  BY <1>4
<1>7. /\ Append(list, e) \in Seq(T) /\ Len(Append(list, e)) = n + 1
      /\ \A i \in 1..n : Append(list, e)[i] = list[i]
      /\ Append(list, e)[n + 1] = e
  BY <1>3, <1>5, AppendProperties
<1>8. \A i \in 1..n + 1 : longer[i] = Append(list, e)[i]
  <2>1. \A i \in 1..n : longer[i] = list[i]
    BY <1>0
  <2>2. longer[n + 1] = e
    BY <1>0
  <2>3. \A i \in 1..n + 1 : i \in 1..n \/ i = n + 1
    OBVIOUS
  <2> QED BY <1>7, <2>1, <2>2, <2>3
<1> QED BY <1>6, <1>7, <1>8, SeqEqual

(* The first n instructions have the same lines by either list of runs.    *)
SameLines(counted, runs, n) ==
  \A index \in 0..n - 1 :
    chunk_get_instruction_line(counted, index) = chunk_get_instruction_line(runs, index)

(* What is read back after an instruction was appended: what was read back *)
(* before it, and the instruction.                                         *)
LEMMA DecodesAppended ==
  ASSUME NEW bytes \in Seq(Bytes), NEW more \in Seq(Bytes), NEW n \in Nat,
         Walk(bytes)[n] = Len(bytes),
         NEW op, NEW arg, OpcodeAt(bytes \o more, Len(bytes)) = op,
         OperandAt(bytes \o more, Len(bytes)) = arg, Len(more) = Size(op),
         NEW runs, NEW counted, NEW line,
         SameLines(counted, runs, n), chunk_get_instruction_line(counted, n) = line
  PROVE  /\ Walk(bytes \o more)[n + 1] = Len(bytes \o more)
         /\ Decoded(bytes \o more, counted) = Emit(Decoded(bytes, runs), op, arg, line)
<1> DEFINE whole == bytes \o more
           walk == Walk(bytes)
           list == Decoded(bytes, runs)
           longer == Decoded(whole, counted)
           effects == Effects(bytes)
           longerEffects == Effects(whole)
           height == PartialSums(effects)
           longerHeight == PartialSums(longerEffects)
<1>1. /\ whole \in Seq(Bytes) /\ Len(whole) = Len(bytes) + Len(more)
      /\ Len(bytes) \in Nat /\ Len(more) \in Nat
  BY ConcatProperties, LenProperties
<1>2. \A m \in 0..n : Walk(whole)[m] = walk[m]
  BY SameInstructions
<1>3. \A m \in 0..n - 1 : /\ OpcodeAt(whole, walk[m]) = OpcodeAt(bytes, walk[m])
                          /\ OperandAt(whole, walk[m]) = OperandAt(bytes, walk[m])
  BY SameInstructions
<1>4. Walk(whole)[n] = Len(bytes)
  BY <1>2
<1>5. Walk(whole)[n + 1] = Len(whole)
  <2>1. Walk(whole)[n + 1] = Walk(whole)[n] + Size(OpcodeAt(whole, Walk(whole)[n]))
    BY WalkSteps
  <2>2. OpcodeAt(whole, Walk(whole)[n]) = op
    BY <1>4
  <2> HIDE DEF whole
  <2> QED BY <1>1, <1>4, <2>1, <2>2
<1>6. InstructionCount(bytes) = n
  BY CountOfInstructions
<1>7. InstructionCount(whole) = n + 1
  <2> HIDE DEF whole
  <2>1. n + 1 \in Nat
    OBVIOUS
  <2> QED BY <1>1, <1>5, <2>1, CountOfInstructions
<1>8. effects = [m \in 1..n |-> Effect(OpcodeAt(bytes, walk[m - 1]))]
  BY <1>6 DEF Effects
<1>9. longerEffects = [m \in 1..n + 1 |-> Effect(OpcodeAt(whole, Walk(whole)[m - 1]))]
  BY <1>7 DEF Effects
<1>10. list = [m \in 1..n |->
                 [op |-> OpcodeAt(bytes, walk[m - 1]), arg |-> OperandAt(bytes, walk[m - 1]),
                  pos |-> chunk_get_instruction_line(runs, m - 1), height |-> height[m - 1]]]
  BY <1>6 DEF Decoded
<1>11. longer = [m \in 1..n + 1 |->
                   [op |-> OpcodeAt(whole, Walk(whole)[m - 1]),
                    arg |-> OperandAt(whole, Walk(whole)[m - 1]),
                    pos |-> chunk_get_instruction_line(counted, m - 1),
                    height |-> longerHeight[m - 1]]]
  BY <1>7 DEF Decoded
<1>12. OpcodeAt(whole, Walk(whole)[n]) = op /\ OperandAt(whole, Walk(whole)[n]) = arg
  BY <1>4
<1> HIDE DEF whole, walk, effects, longerEffects, list, longer
<1>13. \A o : Effect(o) \in Int
  BY DEF Effect, Pushes, Pops
<1>14. effects \in [1..n -> Int] /\ longerEffects \in [1..n + 1 -> Int]
  BY <1>8, <1>9, <1>13
<1>15. \A m \in 1..n : m - 1 \in 0..n - 1 /\ m - 1 \in 0..n
  OBVIOUS
<1>16. \A m \in 1..n : effects[m] = longerEffects[m]
  <2>1. ASSUME NEW m \in 1..n PROVE effects[m] = longerEffects[m]
    <3>1. m \in 1..n + 1
      OBVIOUS
    <3>2. OpcodeAt(whole, Walk(whole)[m - 1]) = OpcodeAt(bytes, walk[m - 1])
      BY <1>2, <1>3, <1>15
    <3> QED BY <1>8, <1>9, <3>1, <3>2
  <2> QED BY <2>1
<1>17. \A m \in 0..n : height[m] = longerHeight[m]
  <2>1. n \in 0..n /\ n <= n + 1 /\ n + 1 \in Nat
    OBVIOUS
  <2> QED BY <1>14, <1>16, <2>1, SumsAgree
<1>18. HeightAfter(list) = height[n]
  <2>1. CASE n = 0
    <3>1. list = <<>>
      BY <1>10, <2>1
    <3>2. height[0] = 0
      BY <1>14, SumSteps
    <3> QED BY <2>1, <3>1, <3>2 DEF HeightAfter
  <2>2. CASE n # 0
    <3>1. n - 1 \in 0..n - 1 /\ (n - 1) + 1 = n /\ n \in 1..n /\ n - 1 \in 0..n
      BY <2>2
    <3>2. height[n] = height[n - 1] + effects[n]
      BY <1>14, <3>1, SumSteps
    <3> DEFINE last == OpcodeAt(bytes, walk[n - 1])
    <3>3. effects[n] = Pushes(last) - Pops(last)
      BY <1>8, <3>1 DEF Effect
    <3>4. list[n].op = last /\ list[n].height = height[n - 1]
      BY <1>10, <3>1
    <3>5. list # <<>> /\ Len(list) = n
      <4>1. list = [m \in 1..n |-> list[m]]
        BY <1>10
      <4>2. Len(list) = n
        BY <4>1, LengthOfList
      <4>3. Len(<<>>) = 0
        OBVIOUS
      <4> QED BY <2>2, <4>2, <4>3
    <3>6. HeightAfter(list) = height[n - 1] - Pops(last) + Pushes(last)
      BY <3>4, <3>5 DEF HeightAfter
    <3>7. height[n - 1] \in Int
      BY <1>14, <3>1, SumSteps
    <3>8. Pops(last) \in Int /\ Pushes(last) \in Int
      BY DEF Pops, Pushes
    <3> HIDE DEF height, last
    <3> QED BY <3>2, <3>3, <3>6, <3>7, <3>8
  <2> QED BY <2>1, <2>2
<1>19. ASSUME NEW m \in 1..n PROVE longer[m] = list[m]
  <2>1. m \in 1..n + 1 /\ m - 1 \in 0..n - 1 /\ m - 1 \in 0..n
    BY <1>15
  <2>2. Walk(whole)[m - 1] = walk[m - 1]
    BY <1>2, <2>1
  <2>3. /\ OpcodeAt(whole, Walk(whole)[m - 1]) = OpcodeAt(bytes, walk[m - 1])
        /\ OperandAt(whole, Walk(whole)[m - 1]) = OperandAt(bytes, walk[m - 1])
    BY <1>3, <2>1, <2>2
  <2>4. chunk_get_instruction_line(counted, m - 1) = chunk_get_instruction_line(runs, m - 1)
    BY <2>1 DEF SameLines
  <2>5. longerHeight[m - 1] = height[m - 1]
    BY <1>17, <2>1
  <2> HIDE DEF height, longerHeight
  <2> QED BY <1>10, <1>11, <2>1, <2>3, <2>4, <2>5
<1> DEFINE new == [op |-> op, arg |-> arg, pos |-> line, height |-> HeightAfter(list)]
<1>20. longer[n + 1] = new
  <2>1. n + 1 \in 1..n + 1 /\ (n + 1) - 1 = n /\ n \in 0..n
    OBVIOUS
  <2>2. longerHeight[n] = HeightAfter(list)
    BY <1>17, <1>18, <2>1
  <2> HIDE DEF height, longerHeight
  <2> QED BY <1>11, <1>12, <2>1, <2>2
<1>21. list = [m \in 1..n |-> list[m]] /\ longer = [m \in 1..n + 1 |-> longer[m]]
  BY <1>10, <1>11
<1> HIDE DEF new
<1>22. longer = Append(list, new)
  <2>1. \A m \in 1..n : longer[m] = list[m]
    BY <1>19
  <2>2. IsLonger(longer, list, n, new)
    BY <1>20, <1>21, <2>1 DEF IsLonger
  <2> HIDE DEF height, longerHeight
  <2> QED BY <2>2, AppendedList
<1>23. longer = Emit(list, op, arg, line)
  BY <1>22 DEF Emit, new
<1> QED BY <1>5, <1>23 DEF whole, list, longer

-----------------------------------------------------------------------------
(* What the appends leave, and what is read back of it.                    *)
LEMMA PushedItems ==
  ASSUME NEW Items, NEW array \in Arrays(Items), NEW item \in Items
  PROVE  Push(array, item).items = array.items \o <<item>>
<1>1. array.items \in Seq(Items) /\ Grow(array).items = array.items
  BY DEF Arrays, Grow
<1>2. Append(array.items, item) = array.items \o <<item>>
  BY <1>1, AppendIsConcat
<1>3. Push(array, item).items = Append(array.items, item)
  BY DEF Push, Grow, Arrays
<1> QED BY <1>2, <1>3

(* chunk_append_multibyte_operand leaves the bytes and the two new ones.   *)
LEMMA TwoBytesItems ==
  ASSUME NEW Items, NEW array \in Arrays(Items), NEW first \in Items, NEW second \in Items
  PROVE  AppendTwoBytes(array, first, second).items = array.items \o <<first, second>>
<1> DEFINE grown == IF Count(array) + 2 > array.capacity THEN Grow(array) ELSE array
<1>1. "items" \in DOMAIN grown /\ grown.items = array.items
  BY DEF Arrays, Grow
<1>2. AppendTwoBytes(array, first, second)
        = [grown EXCEPT !.items = grown.items \o <<first, second>>]
  BY DEF AppendTwoBytes
<1> HIDE DEF grown
<1>3. \A new : "items" \in DOMAIN grown => [grown EXCEPT !.items = new].items = new
  OBVIOUS
<1> QED BY <1>1, <1>2, <1>3, Zenon

(* The byte of an opcode that is appended is read as that opcode.          *)
LEMMA OpcodeReadsBack ==
  ASSUME NEW op \in SimpleOps \cup ConstantOps
  PROVE  OpcodeTable[OpcodeByte(op) + 1] = op
<1> DEFINE place == CHOOSE i \in 1..Len(OpcodeTable) : OpcodeTable[i] = op
<1>1. \E i \in 1..Len(OpcodeTable) : OpcodeTable[i] = op
  BY ChunkAssumption
<1>2. place \in 1..Len(OpcodeTable) /\ OpcodeTable[place] = op
  BY <1>1
<1>3. OpcodeByte(op) = place - 1
  BY DEF OpcodeByte
<1> HIDE DEF place
<1>4. place \in Int
  BY <1>2
<1>5. OpcodeByte(op) + 1 = place
  BY <1>3, <1>4
<1> QED BY <1>2, <1>5

(* The two bytes of an index that a pool may hold are read as that index.  *)
LEMMA IndexReadsBack ==
  ASSUME NEW index \in Nat, index <= ByteStates * ByteStates - 1
  PROVE  GetByte(index, 0) + GetByte(index, 1) * ByteStates = index
<1> DEFINE low == index % ByteStates
           high == index \div ByteStates
<1>1. ByteStates \in Nat /\ ByteStates > 0
  BY ChunkAssumption
<1>2. low \in 0..ByteStates - 1 /\ high \in Nat /\ index = ByteStates * high + low
  BY <1>1
<1>3. high % ByteStates = high
  <2>1. high < ByteStates
    <3>1. SUFFICES ASSUME high >= ByteStates PROVE FALSE
      BY <1>1, <1>2
    <3> HIDE DEF low, high
    <3>2. PICK extra \in Nat : high = ByteStates + extra
      <4>1. high - ByteStates \in Nat /\ high = ByteStates + (high - ByteStates)
        BY <1>1, <1>2, <3>1
      <4> QED BY <4>1
    <3>3. ByteStates * high = ByteStates * ByteStates + ByteStates * extra
      BY <1>1, <3>2
    <3>4. ByteStates * extra \in Nat /\ ByteStates * ByteStates \in Nat
      BY <1>1
    <3> QED BY <1>1, <1>2, <3>3, <3>4
  <2> HIDE DEF low, high
  <2> QED BY <1>1, <1>2, <2>1
<1>4. GetByte(index, 0) = low /\ GetByte(index, 1) = high % ByteStates
  BY DEF GetByte
<1> HIDE DEF low, high
<1>5. high * ByteStates = ByteStates * high
  BY <1>1, <1>2
<1> QED BY <1>1, <1>2, <1>3, <1>4, <1>5

(* The bytes of one instruction, after those of the others.                *)
LEMMA InstructionReadsBack ==
  ASSUME NEW bytes \in Seq(Bytes), NEW op \in SimpleOps \cup ConstantOps, NEW more \in Seq(Bytes),
         more # <<>>, more[1] = OpcodeByte(op)
  PROVE  /\ OpcodeAt(bytes \o more, Len(bytes)) = op
         /\ \A i \in 1..Len(more) : (bytes \o more)[Len(bytes) + i] = more[i]
<1>1. Len(bytes) \in Nat /\ Len(more) \in Nat /\ Len(more) > 0
  BY LenProperties, EmptySeq
<1>2. \A i \in 1..Len(bytes) + Len(more) : (bytes \o more)[i] =
        IF i <= Len(bytes) THEN bytes[i] ELSE more[i - Len(bytes)]
  BY ConcatProperties
<1>3. ASSUME NEW i \in 1..Len(more) PROVE (bytes \o more)[Len(bytes) + i] = more[i]
  <2>1. /\ Len(bytes) + i \in 1..Len(bytes) + Len(more) /\ ~(Len(bytes) + i <= Len(bytes))
        /\ (Len(bytes) + i) - Len(bytes) = i
    BY <1>1
  <2> QED BY <1>2, <2>1
<1>4. (bytes \o more)[Len(bytes) + 1] = more[1]
  BY <1>1, <1>3
<1> QED BY <1>3, <1>4, OpcodeReadsBack DEF OpcodeAt

-----------------------------------------------------------------------------
(* The bytes are those of whole instructions, and the runs count each.     *)
DecodingInv ==
  \E n \in Nat : /\ Walk(code.items)[n] = Len(code.items)
                 /\ Total(lines.items)[Len(lines.items)] = n

(* Nothing is read back from an empty chunk.                               *)
LEMMA EmptyDecodes ==
  /\ Walk(<<>>)[0] = Len(<<>>) /\ Total(<<>>)[Len(<<>>)] = 0
  /\ Decoded(<<>>, <<>>) = <<>>
<1> DEFINE bytes == <<>>
           runs == <<>>
<1>1. bytes \in Seq(Bytes) /\ Len(bytes) = 0 /\ runs \in Seq(LineCounts) /\ Len(runs) = 0
  BY EmptySeq
<1> HIDE DEF bytes, runs
<1>2. Walk(bytes)[0] = Len(bytes)
  BY <1>1, WalkSteps
<1>3. Total(runs)[Len(runs)] = 0
  BY <1>1, CountsAreNumbers, SumSteps DEF Total
<1>4. InstructionCount(bytes) = 0
  BY <1>1, <1>2, CountOfInstructions
<1>5. Decoded(bytes, runs) = <<>>
  BY <1>4 DEF Decoded
<1> QED BY <1>2, <1>3, <1>5 DEF bytes, runs

(* Bytes appended in two parts are those of the parts joined.              *)
IsJoined(v, t, u) ==
  /\ Len(v) = Len(t) + Len(u)
  /\ \A i \in 1..Len(v) : v[i] = IF i <= Len(t) THEN t[i] ELSE u[i - Len(t)]

LEMMA ConcatTwice ==
  ASSUME NEW S, NEW s \in Seq(S), NEW t \in Seq(S), NEW u \in Seq(S), NEW v \in Seq(S),
         IsJoined(v, t, u)
  PROVE  (s \o t) \o u = s \o v
<1>1. /\ Len(s) \in Nat /\ Len(t) \in Nat /\ Len(u) \in Nat /\ Len(v) \in Nat
  BY LenProperties
<1> DEFINE begun == s \o t
<1>2. /\ begun \in Seq(S) /\ Len(begun) = Len(s) + Len(t)
      /\ \A i \in 1..Len(s) + Len(t) : begun[i] = IF i <= Len(s) THEN s[i] ELSE t[i - Len(s)]
  BY ConcatProperties
<1> HIDE DEF begun
<1> DEFINE left == begun \o u
           right == s \o v
<1>3. /\ left \in Seq(S) /\ Len(left) = Len(begun) + Len(u)
      /\ \A i \in 1..Len(begun) + Len(u) :
           left[i] = IF i <= Len(begun) THEN begun[i] ELSE u[i - Len(begun)]
  <2>1. begun \in Seq(S)
    BY <1>2
  <2> QED BY <2>1, ConcatProperties
<1>4. /\ right \in Seq(S) /\ Len(right) = Len(s) + Len(v)
      /\ \A i \in 1..Len(s) + Len(v) : right[i] = IF i <= Len(s) THEN s[i] ELSE v[i - Len(s)]
  BY ConcatProperties
<1> HIDE DEF left, right
<1>0. /\ Len(v) = Len(t) + Len(u)
      /\ \A i \in 1..Len(v) : v[i] = IF i <= Len(t) THEN t[i] ELSE u[i - Len(t)]
  BY DEF IsJoined
<1>5. ASSUME NEW i \in 1..Len(left) PROVE left[i] = right[i]
  <2>1. i \in 1..Len(begun) + Len(u) /\ i \in 1..Len(s) + Len(v) /\ i \in Int
    BY <1>0, <1>1, <1>2, <1>3
  <2>2. CASE i <= Len(s)
    <3>1. i \in 1..Len(s) + Len(t) /\ i <= Len(begun)
      BY <1>1, <1>2, <2>1, <2>2
    <3> QED BY <1>2, <1>3, <1>4, <2>1, <2>2, <3>1
  <2>3. CASE ~(i <= Len(s))
    <3>1. i - Len(s) \in 1..Len(v)
      BY <1>0, <1>1, <2>1, <2>3
    <3>2. right[i] = v[i - Len(s)]
      BY <1>4, <2>1, <2>3
    <3>3. CASE i - Len(s) <= Len(t)
      <4>1. i \in 1..Len(s) + Len(t) /\ i <= Len(begun)
        BY <1>1, <1>2, <2>1, <3>3
      <4>2. left[i] = t[i - Len(s)]
        BY <1>2, <1>3, <2>1, <2>3, <4>1
      <4> QED BY <1>0, <3>1, <3>2, <3>3, <4>2
    <3>4. CASE ~(i - Len(s) <= Len(t))
      <4>1. ~(i <= Len(begun)) /\ i - Len(begun) = (i - Len(s)) - Len(t)
        BY <1>1, <1>2, <2>1, <3>4
      <4>2. left[i] = u[(i - Len(s)) - Len(t)]
        BY <1>3, <2>1, <4>1
      <4> QED BY <1>0, <3>1, <3>2, <3>4, <4>2
    <3> QED BY <3>3, <3>4
  <2> QED BY <2>2, <2>3
<1>6. Len(left) = Len(right)
  BY <1>0, <1>1, <1>2, <1>3, <1>4
<1>7. left = right
  BY <1>3, <1>4, <1>5, <1>6, SeqEqual
<1> QED BY <1>7 DEF left, right, begun

(* An instruction of which `more' are the bytes was appended to the chunk. *)
Appended(op, arg, line, more) ==
  /\ more \in Seq(Bytes) /\ Len(more) = Size(op)
  /\ more # <<>> /\ more[1] = OpcodeByte(op)
  /\ OperandAt(code.items \o more, Len(code.items)) = arg
  /\ code'.items = code.items \o more
  /\ lines' = Attribute(line)

(* Its bytes are read back as that instruction, after the others.          *)
LEMMA AppendedDecodes ==
  ASSUME IInv, DecodingInv, NEW op \in SimpleOps \cup ConstantOps, NEW arg, NEW line \in Lines,
         NEW more, Appended(op, arg, line, more)
  PROVE  /\ DecodingInv'
         /\ Decoded(code'.items, lines'.items)
              = Emit(Decoded(code.items, lines.items), op, arg, line)
<1> DEFINE bytes == code.items
           runs == lines.items
           counted == Attribute(line).items
<1>1. /\ bytes \in Seq(Bytes) /\ lines \in Arrays(LineCounts) /\ Fits(lines)
      /\ more \in Seq(Bytes) /\ Len(more) = Size(op) /\ more # <<>> /\ more[1] = OpcodeByte(op)
      /\ OperandAt(bytes \o more, Len(bytes)) = arg
      /\ code'.items = bytes \o more /\ lines'.items = counted
  BY DEF IInv, ChunkInv, Arrays, Appended
<1>2. PICK n \in Nat : Walk(bytes)[n] = Len(bytes) /\ Total(runs)[Len(runs)] = n
  BY DEF DecodingInv
<1>3. /\ Total(counted)[Len(counted)] = n + 1
      /\ \A index \in 0..n - 1 :
           chunk_get_instruction_line(counted, index) = chunk_get_instruction_line(runs, index)
      /\ chunk_get_instruction_line(counted, n) = line
  BY <1>1, <1>2, Attributed
<1> HIDE DEF bytes, runs, counted
<1>4. OpcodeAt(bytes \o more, Len(bytes)) = op
  BY <1>1, InstructionReadsBack
<1>5. /\ Walk(bytes \o more)[n + 1] = Len(bytes \o more)
      /\ Decoded(bytes \o more, counted) = Emit(Decoded(bytes, runs), op, arg, line)
  <2>1. SameLines(counted, runs, n) /\ chunk_get_instruction_line(counted, n) = line
    BY <1>3 DEF SameLines
  <2>2. Walk(bytes)[n] = Len(bytes) /\ Len(more) = Size(op)
        /\ bytes \in Seq(Bytes) /\ more \in Seq(Bytes)
        /\ OperandAt(bytes \o more, Len(bytes)) = arg
    BY <1>1, <1>2
  <2> QED BY <1>4, <2>1, <2>2, DecodesAppended
<1>6. n + 1 \in Nat
  OBVIOUS
<1>7. DecodingInv'
  BY <1>1, <1>3, <1>5, <1>6 DEF DecodingInv
<1> QED BY <1>1, <1>5, <1>7 DEF bytes, runs

(* chunk_append_instruction appends the one byte of an instruction.        *)
LEMMA SimpleAppended ==
  ASSUME IInv, NEW op \in SimpleOps, NEW line \in Lines, chunk_append_instruction(op, line)
  PROVE  Appended(op, 0, line, <<OpcodeByte(op)>>)
<1>1. op # "CONSTANT" /\ op # "CONSTANT_2B"
  BY ChunkAssumption DEF ConstantOps
<1>2. OpcodeByte(op) \in Bytes /\ code \in Arrays(Bytes) /\ code.items \in Seq(Bytes)
  BY OpcodeIsByte DEF IInv, ChunkInv, Arrays
<1> DEFINE more == <<OpcodeByte(op)>>
<1>3. more \in Seq(Bytes) /\ Len(more) = 1 /\ more # <<>> /\ more[1] = OpcodeByte(op)
  BY <1>2
<1>4. Size(op) = 1
  BY <1>1 DEF Size
<1>5. code'.items = code.items \o more
  BY <1>2, PushedItems DEF chunk_append_instruction
<1> HIDE DEF more
<1>6. OpcodeAt(code.items \o more, Len(code.items)) = op
  BY <1>2, <1>3, InstructionReadsBack
<1>7. OperandAt(code.items \o more, Len(code.items)) = 0
  BY <1>1, <1>6 DEF OperandAt
<1> QED BY <1>3, <1>4, <1>5, <1>7 DEF Appended, more, chunk_append_instruction

(* chunk_append_constant_instruction with an index of one byte.            *)
LEMMA ConstantAppended ==
  ASSUME IInv, NEW value \in Values, NEW line \in Lines,
         chunk_append_constant_instruction(value, line),
         Count(constants) <= ByteStates - 1, lines' = Attribute(line),
         code' = Push(Push(code, OpcodeByte("CONSTANT")), Count(constants))
  PROVE  \E more : Appended("CONSTANT", Count(constants), line, more)
<1> DEFINE index == Count(constants)
           opened == Push(code, OpcodeByte("CONSTANT"))
           more == <<OpcodeByte("CONSTANT"), index>>
<1>1. "CONSTANT" \in SimpleOps \cup ConstantOps
  BY DEF ConstantOps
<1>2. /\ OpcodeByte("CONSTANT") \in Bytes /\ code \in Arrays(Bytes) /\ Fits(code)
      /\ code.items \in Seq(Bytes) /\ index \in Nat
  BY <1>1, OpcodeIsByte DEF IInv, ChunkInv, Arrays, Count
<1>3. index \in Bytes
  BY <1>2, ChunkAssumption DEF Bytes
<1>4. more \in Seq(Bytes) /\ Len(more) = 2 /\ more # <<>>
      /\ more[1] = OpcodeByte("CONSTANT") /\ more[2] = index
  BY <1>2, <1>3
<1>5. opened \in Arrays(Bytes) /\ opened.items = code.items \o <<OpcodeByte("CONSTANT")>>
  BY <1>2, PushFits, PushedItems
<1>6. code'.items = (code.items \o <<OpcodeByte("CONSTANT")>>) \o <<index>>
  <2>1. code' = Push(opened, index)
    OBVIOUS
  <2> HIDE DEF opened, index
  <2> QED BY <1>3, <1>5, <2>1, PushedItems
<1>7. code'.items = code.items \o more
  <2> DEFINE first == <<OpcodeByte("CONSTANT")>>
             rest == <<index>>
  <2>1. /\ first \in Seq(Bytes) /\ Len(first) = 1 /\ rest \in Seq(Bytes) /\ Len(rest) = 1
        /\ \A i \in 1..2 : more[i] = IF i <= 1 THEN first[i] ELSE rest[i - 1]
    BY <1>2, <1>3
  <2>2. code'.items = (code.items \o first) \o rest
    BY <1>6
  <2>3. code.items \in Seq(Bytes) /\ more \in Seq(Bytes) /\ Len(more) = 1 + 1
    BY <1>2, <1>4
  <2>5. IsJoined(more, first, rest)
    BY <2>1, <2>3 DEF IsJoined
  <2> HIDE DEF first, rest, more
  <2>4. (code.items \o first) \o rest = code.items \o more
    BY <2>1, <2>3, <2>5, ConcatTwice
  <2> QED BY <2>2, <2>4
<1> HIDE DEF more, index
<1>8. /\ OpcodeAt(code.items \o more, Len(code.items)) = "CONSTANT"
      /\ (code.items \o more)[Len(code.items) + 2] = index
  <2>1. 2 \in 1..Len(more)
    BY <1>4
  <2>2. /\ OpcodeAt(code.items \o more, Len(code.items)) = "CONSTANT"
        /\ \A i \in 1..Len(more) : (code.items \o more)[Len(code.items) + i] = more[i]
    BY <1>1, <1>2, <1>4, InstructionReadsBack
  <2> QED BY <1>4, <2>1, <2>2
<1>9. OperandAt(code.items \o more, Len(code.items)) = index
  BY <1>8 DEF OperandAt
<1>10. Size("CONSTANT") = 2
  BY DEF Size
<1>11. Appended("CONSTANT", index, line, more)
  BY <1>4, <1>7, <1>9, <1>10 DEF Appended
<1> QED BY <1>11 DEF index

(* chunk_append_constant_instruction with an index of two bytes.           *)
LEMMA LongConstantAppended ==
  ASSUME IInv, NEW value \in Values, NEW line \in Lines,
         chunk_append_constant_instruction(value, line),
         Count(constants) <= ByteStates * ByteStates - 1, lines' = Attribute(line),
         code' = AppendTwoBytes(Push(code, OpcodeByte("CONSTANT_2B")),
                                GetByte(Count(constants), 0), GetByte(Count(constants), 1))
  PROVE  \E more : Appended("CONSTANT_2B", Count(constants), line, more)
<1> DEFINE index == Count(constants)
           opcode == OpcodeByte("CONSTANT_2B")
           low == GetByte(index, 0)
           high == GetByte(index, 1)
           opened == Push(code, opcode)
           more == <<opcode, low, high>>
<1>1. "CONSTANT_2B" \in SimpleOps \cup ConstantOps
  BY DEF ConstantOps
<1>2. /\ opcode \in Bytes /\ code \in Arrays(Bytes) /\ Fits(code)
      /\ code.items \in Seq(Bytes) /\ index \in Nat
  BY <1>1, OpcodeIsByte DEF IInv, ChunkInv, Arrays, Count
<1>3. low \in Bytes /\ high \in Bytes /\ low + high * ByteStates = index
  <2>1. index <= ByteStates * ByteStates - 1
    OBVIOUS
  <2> HIDE DEF index
  <2> QED BY <1>2, <2>1, ByteOfIndex, IndexReadsBack
<1>4. code' = AppendTwoBytes(opened, low, high)
  OBVIOUS
<1> HIDE DEF index, opcode, low, high
<1>5. /\ more \in Seq(Bytes) /\ Len(more) = 3 /\ more # <<>>
      /\ more[1] = opcode /\ more[2] = low /\ more[3] = high
  BY <1>2, <1>3
<1>6. opened \in Arrays(Bytes) /\ opened.items = code.items \o <<opcode>>
  BY <1>2, PushFits, PushedItems
<1>7. code'.items = (code.items \o <<opcode>>) \o <<low, high>>
  <2> HIDE DEF opened
  <2> QED BY <1>3, <1>4, <1>6, TwoBytesItems
<1>8. code'.items = code.items \o more
  <2> DEFINE first == <<opcode>>
             rest == <<low, high>>
  <2>1. /\ first \in Seq(Bytes) /\ Len(first) = 1 /\ rest \in Seq(Bytes) /\ Len(rest) = 2
        /\ \A i \in 1..3 : more[i] = IF i <= 1 THEN first[i] ELSE rest[i - 1]
    BY <1>2, <1>3
  <2>2. code'.items = (code.items \o first) \o rest
    BY <1>7
  <2>3. code.items \in Seq(Bytes) /\ more \in Seq(Bytes) /\ Len(more) = 1 + 2
    BY <1>2, <1>5
  <2>5. IsJoined(more, first, rest)
    BY <2>1, <2>3 DEF IsJoined
  <2> HIDE DEF first, rest, more
  <2>4. (code.items \o first) \o rest = code.items \o more
    BY <2>1, <2>3, <2>5, ConcatTwice
  <2> QED BY <2>2, <2>4
<1> HIDE DEF more
<1>9. /\ OpcodeAt(code.items \o more, Len(code.items)) = "CONSTANT_2B"
      /\ (code.items \o more)[Len(code.items) + 2] = low
      /\ (code.items \o more)[Len(code.items) + 3] = high
  <2>1. 2 \in 1..Len(more) /\ 3 \in 1..Len(more)
    BY <1>5
  <2>2. /\ OpcodeAt(code.items \o more, Len(code.items)) = "CONSTANT_2B"
        /\ \A i \in 1..Len(more) : (code.items \o more)[Len(code.items) + i] = more[i]
    BY <1>1, <1>2, <1>5, InstructionReadsBack DEF opcode
  <2> QED BY <1>5, <2>1, <2>2
<1>10. OperandAt(code.items \o more, Len(code.items)) = index
  BY <1>3, <1>9 DEF OperandAt
<1>11. Size("CONSTANT_2B") = 3
  BY DEF Size
<1>12. Appended("CONSTANT_2B", index, line, more)
  BY <1>5, <1>8, <1>10, <1>11 DEF Appended, opcode
<1> QED BY <1>12 DEF index

-----------------------------------------------------------------------------
(* What the chunk holds, as its users see it.                              *)
LEMMA SameEmit ==
  \A list, op, arg, line : List!Emit(list, op, arg, line) = Emit(list, op, arg, line)
BY DEF List!Emit, Emit, List!HeightAfter, HeightAfter, List!Pops, Pops, List!Pushes, Pushes,
       List!BinaryOps, BinaryOps, List!UnaryOps, UnaryOps, List!DiscardOps, DiscardOps

LEMMA InitialPromise == ChunkInit => List!PromiseInit /\ DecodingInv
<1> SUFFICES ASSUME ChunkInit PROVE List!PromiseInit /\ DecodingInv
  OBVIOUS
<1>1. /\ code.items = <<>> /\ lines.items = <<>> /\ constants.items = <<>> /\ exited = FALSE
  BY DEF ChunkInit, EmptyArray
<1>2. Decoded(code.items, lines.items) = <<>>
  BY <1>1, EmptyDecodes
<1>3. DecodingInv
  BY <1>1, EmptyDecodes DEF DecodingInv
<1> QED BY <1>1, <1>2, <1>3 DEF List!PromiseInit, List!EmptyChunk

(* Each append and the reset is the one that the users rely on.            *)
LEMMA InstructionStep ==
  ASSUME IInv, DecodingInv, NEW op \in SimpleOps, NEW line \in Lines,
         chunk_append_instruction(op, line)
  PROVE  DecodingInv' /\ List!AppendInstruction(op, line)
<1>1. Appended(op, 0, line, <<OpcodeByte(op)>>)
  BY SimpleAppended
<1>2. /\ DecodingInv'
      /\ Decoded(code'.items, lines'.items) = Emit(Decoded(code.items, lines.items), op, 0, line)
  BY <1>1, AppendedDecodes
<1>3. ~exited /\ exited' = exited /\ constants' = constants
  BY DEF chunk_append_instruction
<1> QED BY <1>2, <1>3, SameEmit DEF List!AppendInstruction

LEMMA ConstantStep ==
  ASSUME IInv, DecodingInv, NEW value \in Values, NEW line \in Lines,
         chunk_append_constant_instruction(value, line)
  PROVE  DecodingInv' /\ List!AppendConstantInstruction(value, line)
<1> DEFINE index == Count(constants)
           list == Decoded(code.items, lines.items)
<1>1. /\ ~exited /\ constants'.items = Append(constants.items, value)
      /\ index = Len(constants.items) /\ index \in Nat
  <2>1. constants \in Arrays(Values)
    BY DEF IInv, ChunkInv
  <2>2. Push(constants, value).items = Append(constants.items, value)
    BY <2>1 DEF Push, Grow, Arrays
  <2> QED BY <2>1, <2>2 DEF chunk_append_constant_instruction, Arrays, Count
<1>2. ByteStates \in Nat /\ ByteStates > 0 /\ ByteStates * ByteStates \in Nat
      /\ ByteStates <= ByteStates * ByteStates
  <2>1. PICK more \in Nat : ByteStates = more + 1
    <3>1. ByteStates - 1 \in Nat /\ ByteStates = (ByteStates - 1) + 1
      BY ChunkAssumption
    <3> QED BY <3>1
  <2>2. ByteStates * ByteStates = ByteStates * more + ByteStates /\ ByteStates * more \in Nat
    BY <2>1
  <2> QED BY <2>1, <2>2
<1>3. "CONSTANT" \in SimpleOps \cup ConstantOps /\ "CONSTANT_2B" \in SimpleOps \cup ConstantOps
  BY DEF ConstantOps
<1>4. CASE /\ index > ByteStates * ByteStates - 1
           /\ exited' = TRUE /\ UNCHANGED <<code, lines>>
  <2>1. DecodingInv'
    BY <1>4 DEF DecodingInv
  <2>2. index >= List!PoolLimit /\ Decoded(code'.items, lines'.items) = list
    BY <1>1, <1>2, <1>4 DEF List!PoolLimit
  <2> HIDE DEF index, list
  <2> QED BY <1>1, <1>4, <2>1, <2>2
          DEF List!AppendConstantInstruction, List!AppendConstant, list
<1>5. ASSUME NEW op \in {"CONSTANT", "CONSTANT_2B"}, NEW more, Appended(op, index, line, more),
             index <= ByteStates * ByteStates - 1, List!ConstantOp(index) = op, exited' = exited
      PROVE  DecodingInv' /\ List!AppendConstantInstruction(value, line)
  <2>1. op \in SimpleOps \cup ConstantOps
    BY <1>3
  <2>2. DecodingInv' /\ Decoded(code'.items, lines'.items) = Emit(list, op, index, line)
    BY <1>5, <2>1, AppendedDecodes
  <2>3. ~(index >= List!PoolLimit)
    BY <1>1, <1>2, <1>5 DEF List!PoolLimit
  <2> HIDE DEF index, list
  <2>4. List!AppendConstant(value, line)
          = [code |-> Emit(list, op, index, line), constants |-> Append(constants.items, value)]
    BY <1>1, <1>5, <2>3, SameEmit DEF List!AppendConstant, list
  <2> QED BY <1>1, <1>5, <2>2, <2>3, <2>4 DEF List!AppendConstantInstruction, IInv, ChunkInv
<1>6. CASE /\ index <= ByteStates * ByteStates - 1 /\ index > ByteStates - 1
           /\ code' = AppendTwoBytes(Push(code, OpcodeByte("CONSTANT_2B")),
                                     GetByte(index, 0), GetByte(index, 1))
           /\ lines' = Attribute(line) /\ UNCHANGED exited
  <2>1. PICK more : Appended("CONSTANT_2B", index, line, more)
    BY <1>6, LongConstantAppended
  <2>2. List!ConstantOp(index) = "CONSTANT_2B"
    BY <1>1, <1>2, <1>6 DEF List!ConstantOp
  <2> HIDE DEF index
  <2> QED BY <1>5, <1>6, <2>1, <2>2
<1>7. CASE /\ index <= ByteStates - 1
           /\ code' = Push(Push(code, OpcodeByte("CONSTANT")), index)
           /\ lines' = Attribute(line) /\ UNCHANGED exited
  <2>1. PICK more : Appended("CONSTANT", index, line, more)
    BY <1>7, ConstantAppended
  <2>2. List!ConstantOp(index) = "CONSTANT" /\ index <= ByteStates * ByteStates - 1
    BY <1>1, <1>2, <1>7 DEF List!ConstantOp
  <2> HIDE DEF index
  <2> QED BY <1>5, <1>7, <2>1, <2>2
<1> QED BY <1>4, <1>6, <1>7 DEF chunk_append_constant_instruction

LEMMA ResetStep ==
  ASSUME IInv, DecodingInv, chunk_reset
  PROVE  DecodingInv' /\ List!Reset
<1>1. /\ ~exited /\ exited' = exited
      /\ code'.items = <<>> /\ lines'.items = <<>> /\ constants'.items = <<>>
  BY DEF chunk_reset, EmptyArray
<1>2. Decoded(code'.items, lines'.items) = <<>>
  BY <1>1, EmptyDecodes
<1>3. DecodingInv'
  BY <1>1, EmptyDecodes DEF DecodingInv
<1> QED BY <1>1, <1>2, <1>3 DEF List!Reset, List!EmptyChunk

LEMMA EachCallAppends ==
  ASSUME IInv, DecodingInv
  PROVE  CallsAppend
BY InstructionStep, ConstantStep, ResetStep DEF CallsAppend

LEMMA PromiseStep ==
  ASSUME IInv, DecodingInv, [ChunkNext]_chunkVars
  PROVE  DecodingInv' /\ [List!PromiseNext]_List!promiseVars
<1>1. ASSUME NEW op \in SimpleOps, NEW line \in Lines, chunk_append_instruction(op, line)
      PROVE  DecodingInv' /\ List!PromiseNext
  BY <1>1, InstructionStep DEF List!PromiseNext
<1>2. ASSUME NEW value \in Values, NEW line \in Lines,
             chunk_append_constant_instruction(value, line)
      PROVE  DecodingInv' /\ List!PromiseNext
  BY <1>2, ConstantStep DEF List!PromiseNext
<1>3. ASSUME chunk_reset PROVE DecodingInv' /\ List!PromiseNext
  BY <1>3, ResetStep DEF List!PromiseNext
<1>4. CASE UNCHANGED chunkVars
  <2>1. code' = code /\ lines' = lines /\ constants' = constants /\ exited' = exited
    BY <1>4 DEF chunkVars
  <2> QED BY <2>1 DEF DecodingInv, List!promiseVars
<1> QED BY <1>1, <1>2, <1>3, <1>4 DEF ChunkNext

(* What is read back from the bytes, the pool and the line counts is what  *)
(* the calls were given, in order: each call appends one instruction with  *)
(* its own opcode or constant and its own line and leaves those before it  *)
(* as they were (chunk.c:60-188), for every size of a byte, every table of *)
(* opcodes and however often the arrays have grown.                        *)
THEOREM ChunkKeepsInstructions == ChunkSpec => KeepsInstructions
<1>1. ChunkInit => IInv /\ DecodingInv /\ List!PromiseInit
  BY InitialPromise, EmptyFits DEF ChunkInit, IInv, ChunkInv
<1>2. IInv /\ DecodingInv /\ [ChunkNext]_chunkVars => IInv' /\ DecodingInv'
  BY ChunkStep, PromiseStep
<1>3. IInv /\ DecodingInv /\ [ChunkNext]_chunkVars => [List!PromiseNext]_List!promiseVars
  BY PromiseStep
<1>4. IInv /\ DecodingInv => [CallsAppend]_chunkVars
  BY EachCallAppends
<1> QED BY <1>1, <1>2, <1>3, <1>4, PTL DEF ChunkSpec, KeepsInstructions, List!PromiseSpec
=============================================================================
