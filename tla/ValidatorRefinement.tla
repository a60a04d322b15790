------------------------ MODULE ValidatorRefinement ------------------------
(***************************************************************************)
(* ValidatorRegistry implements DtoValidator under the identity mapping: a *)
(* registration takes effect when the schema is stored, and a validation   *)
(* when it returns, since nobody replaces its schema before that.          *)
(***************************************************************************)
EXTENDS ValidatorRegistry

Promised == INSTANCE DtoValidator

(* The calls of the registry are atomic: a panic in the middle of register *)
(* leaves no trace that a caller can see, and a verdict is the one of a    *)
(* single schema with all its regexes, however the calls interleave.       *)
ImplementsDtoValidator == Promised!Spec
============================================================================
