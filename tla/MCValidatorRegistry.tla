------------------------ MODULE MCValidatorRegistry ------------------------
(***************************************************************************)
(* A small instance of ValidatorRegistry for TLC.                          *)
(***************************************************************************)
EXTENDS ValidatorRefinement, TLC

CONSTANTS name, age, word, broken, email, t1, t2

Field(rules, nullable, default) ==
  [rules |-> rules, is_nullable |-> nullable, has_default |-> default # Absent,
   default_value |-> default]

Num(n) == [kind |-> "number", num |-> n]
Str(chars, bytes, regexes) ==
  [kind |-> "string", chars |-> chars, bytes |-> bytes, matches |-> regexes]
Regex(p) == [type |-> "Regex", pattern |-> p]

(* Doubles of three bits, ties to even: exact up to 8, then every second   *)
(* number.                                                                 *)
AllNumbers == 6 .. 12
ThreeBits == [n \in AllNumbers |->
                IF n <= 8 \/ n % 2 = 0 THEN n ELSE IF n % 4 = 1 THEN n - 1 ELSE n + 1]

(* One schema has the length rules and a default that breaks its own rules *)
(* (a string for a number); one uses the pattern "email", a field that may *)
(* be null and a good default; and one shares a pattern with the first and *)
(* has another that does not compile.                                      *)
Person ==
  (name :> Field({[type |-> "Required"], Regex(word),
                  [type |-> "MinLength", len |-> 2],
                  [type |-> "MaxLength", len |-> 2]}, FALSE, Absent)
   @@ age :> Field({[type |-> "Numeric"], [type |-> "Min", val |-> 7],
                    [type |-> "Max", val |-> 8]}, FALSE, Str(1, 1, {})))
Contact ==
  (name :> Field({[type |-> "Email"], Regex(email)}, TRUE, Absent)
   @@ age :> Field({[type |-> "MinLength", len |-> 2]}, FALSE, Str(2, 2, {})))
Faulty ==
  name :> Field({Regex(word), Regex(broken)}, FALSE, Absent)

AllSchemas == {Person, Contact, Faulty}

Input(n, a) == name :> n @@ age :> a

(* A single character of two bytes, strings that match one regex or the    *)
(* other, and null; the second field is null, left out, a number at a      *)
(* limit, or one beyond it that is rounded to it.                          *)
AllInputs ==
  {Input(Str(1, 2, {word}), Num(9)), Input(Str(2, 2, {word}), Absent),
   Input(Str(2, 3, {EmailRegex}), Absent), Input(Null, Null),
   Input(Null, Num(8))}

(* The PHP threads differ in nothing but their names. *)
Symmetry == Permutations(PhpThreads)
============================================================================
