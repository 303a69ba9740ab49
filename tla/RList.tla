------------------------------- MODULE RList -------------------------------
(***************************************************************************)
(* R's list assignment l[[i]] <- v, which several functions of the package *)
(* use to collect results.  Assigning NULL does not store NULL: it removes *)
(* element i and shifts the later elements down.  Assigning past the end   *)
(* pads the list with NULL.  The language is external to the package; the  *)
(* module models what its call sites rely on.                              *)
(***************************************************************************)
EXTENDS Naturals, Sequences

CONSTANT NULL   \* R's NULL, and the value of the slots of vector("list", n)

\* vector("list", n)
EmptyList(n) == [k \in 1..n |-> NULL]

\* l[[i]] <- NULL
DeleteElement(l, i) ==
  IF i \in 1..Len(l)
  THEN [k \in 1..(Len(l) - 1) |-> IF k < i THEN l[k] ELSE l[k + 1]]
  ELSE l

\* l[[i]] <- v for a v that is not NULL
StoreElement(l, i, v) ==
  [k \in 1..(IF i > Len(l) THEN i ELSE Len(l)) |->
     IF k = i THEN v ELSE IF k <= Len(l) THEN l[k] ELSE NULL]

\* l[[i]] <- v
ListAssign(l, i, v) ==
  IF v = NULL THEN DeleteElement(l, i) ELSE StoreElement(l, i, v)

\* l[[i]] is readable: R signals "subscript out of bounds" otherwise
InBounds(l, i) == i \in 1..Len(l)
=============================================================================
