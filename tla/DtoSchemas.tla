---------------------------- MODULE DtoSchemas -----------------------------
(***************************************************************************)
(* What the validator works on: schemas, the rules of their fields, and    *)
(* the inputs that are validated against them (validator.rs 7-32).         *)
(*                                                                         *)
(* A JSON value keeps what the rules can tell apart: its kind, the value   *)
(* of a number (only its order and the double it is read as matter, so an  *)
(* integer), and of a string its length in characters and in bytes and the *)
(* regexes that match it.  A JSON number has any number of digits, a limit *)
(* of a schema is a double already.  The rules of a field are a set: their *)
(* order only orders messages.                                             *)
(***************************************************************************)
EXTENDS Integers

CONSTANTS
  Names,        \* names under which schemas are registered
  Fields,       \* names of fields
  Patterns,     \* texts of regular expressions
  BadPatterns,  \* those that do not compile
  Seed,         \* the text "email", the key of the pre-seeded regex
  EmailRegex,   \* the regex that is stored under it
  Numbers,      \* the numbers of the inputs and of the limits
  F64,          \* the double each of them is read as
  Schemas,      \* schemas that are registered
  Inputs,       \* JSON inputs that are validated
  Malformed,    \* a text that does not parse
  Absent,       \* no value for a field
  None

Regexes == (Patterns \ BadPatterns) \cup {EmailRegex}

Doubles == {F64[n] : n \in Numbers}

Values == [kind : {"null", "boolean", "other"}]
            \cup [kind : {"number"}, num : Numbers]
            \cup {v \in [kind : {"string"}, chars : Nat, bytes : Nat,
                         matches : SUBSET Regexes] : v.chars <= v.bytes}

Null == [kind |-> "null"]

Rules == [type : {"Required", "Email", "Numeric", "Boolean"}]
           \cup [type : {"Min", "Max"}, val : Doubles]
           \cup [type : {"MinLength", "MaxLength"}, len : Nat]
           \cup [type : {"Regex"}, pattern : Patterns]

FieldSchemas == [rules : SUBSET Rules, is_nullable : BOOLEAN,
                 has_default : BOOLEAN, default_value : Values \cup {Absent}]

ASSUME PatternAssumption == Seed \in Patterns \ BadPatterns
(* Rounding to the nearest double keeps doubles and the order of numbers.  *)
ASSUME F64Assumption ==
  /\ Numbers \subseteq Int /\ F64 \in [Numbers -> Numbers]
  /\ \A d \in Doubles : F64[d] = d
  /\ \A m, n \in Numbers : m <= n => F64[m] <= F64[n]
ASSUME SchemaAssumption  ==
  \A s \in Schemas : DOMAIN s \subseteq Fields /\ s \in [DOMAIN s -> FieldSchemas]
ASSUME InputAssumption   == Inputs \subseteq [Fields -> Values \cup {Absent}]
ASSUME SpecialAssumption == /\ Malformed \notin Schemas \cup Inputs
                            /\ None \notin Schemas \cup Patterns \cup Regexes
                            /\ Absent \notin Values
                            /\ EmailRegex \notin Patterns

(* The patterns register compiles for a schema. *)
PatternsOf(s) ==
  {r.pattern : r \in {q \in UNION {s[f].rules : f \in DOMAIN s} : q.type = "Regex"}}

(* The value that is checked for a field: the one given, null included, or *)
(* the default; input.get of a text that is no object finds none.          *)
Taken(field, given) ==
  IF given # Absent THEN given
  ELSE IF field.has_default THEN field.default_value ELSE Absent

(* Whether null, or no value at all, passes. *)
MayBeNull(field) == field.is_nullable \/ field.has_default

(* What reaches PHP for each field of a DTO that passed. *)
Data(s, input) ==
  [f \in DOMAIN s |-> LET v == Taken(s[f], input[f])
                      IN  IF v = Absent THEN Null ELSE v]

(* A call and what it returned; "panicked" is the -1 of catch_unwind. *)
Calls == [op : {"register"}, dto : Names, arg : Schemas \cup {Malformed}]
           \cup [op : {"validate"}, dto : Names, arg : Inputs \cup {Malformed}]

Results == [is : {"stored", "unparsable", "panicked", "unregistered", "malformed"}]
             \cup [is : {"invalid"}, fields : SUBSET Fields]
             \cup {[is |-> "valid", data |-> Data(s, i)] : s \in Schemas, i \in Inputs}

Replies == [call : Calls, under : Schemas \cup {None}, result : Results]
============================================================================
