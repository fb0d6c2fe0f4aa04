------------------------------- MODULE Objects -------------------------------
(***************************************************************************)
(* CLA values and the garbage-collected objects behind them                *)
(* (src/backend/object.c, gc.c, value.c).                                  *)
(*                                                                         *)
(* `gcObjects' is vm.gc_objects, the list every made object is linked into,*)
(* oldest first; an object is named by its index.  A text is a sequence of *)
(* opaque atoms, so that two texts are equal when memcmp says so and the   *)
(* empty text is the empty sequence.  `heap' is the set of content blocks  *)
(* that gc_allocate returned and nobody has freed; a block bears the name  *)
(* of the object made to refer to it.  `origin' of an object is where its  *)
(* content lives: 0 for a static text or a heap block, n for the source    *)
(* buffer of the n-th call of interpreter_interpret, which the caller may  *)
(* overwrite or free when that call returns.                               *)
(***************************************************************************)
EXTENDS Integers, Sequences

CONSTANTS Number,            \* the double values a number may have
          Atoms              \* what texts are made of

VARIABLES gcObjects, heap

Texts == Seq(Atoms)
ObjectSet == [text : Texts, owner : BOOLEAN, origin : Nat]

NilValue == [kind |-> "nil"]
BoolValue(b) == [kind |-> "bool", boolean |-> b]
NumberValue(n) == [kind |-> "number", number |-> n]
ObjectValue(o) == [kind |-> "object", object |-> o]
NumberValues == [kind : {"number"}, number : Number]
ObjectValues(n) == [kind : {"object"}, object : 1..n]

(* object_make_non_owning_string: link a new string object whose content   *)
(* is not freed with it.  Its name is Len(gcObjects'), read after the call.*)
NonOwningString(objects, text, origin) ==
  Append(objects, [text |-> text, owner |-> FALSE, origin |-> origin])

(* gc_deallocate_vm_gc_objects: every object is freed, and with it the     *)
(* content block it owns.                                                  *)
BlocksFreedWithObjects == {o \in heap : gcObjects[o].owner}
=============================================================================
