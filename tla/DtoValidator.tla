--------------------------- MODULE DtoValidator ----------------------------
(***************************************************************************)
(* What the validator registry promises: register replaces a schema at one *)
(* instant or leaves no trace, which of the two is decided by the schema   *)
(* alone; validate judges its input by the schema that is registered at    *)
(* one instant, by every rule of it.  There are no regexes to be cached    *)
(* and no locks.                                                           *)
(***************************************************************************)
EXTENDS DtoSchemas

CONSTANTS Threads, PhpThreads

VARIABLES
  schemas,  \* the registered schema of each name
  reply     \* the last reply of each thread, None while a call is under way

vars == <<schemas, reply>>

(* The regex a pattern stands for: "email" is taken by the pre-seeded one. *)
Meaning(p) == IF p = Seed THEN EmailRegex ELSE p

Amount(v) == IF v.kind = "number" THEN F64[v.num] ELSE 0

Obeys(v, r) ==
  /\ r.type = "Numeric" => v.kind = "number"
  /\ r.type = "Boolean" => v.kind = "boolean"
  /\ r.type = "Min" => Amount(v) >= r.val
  /\ r.type = "Max" => Amount(v) <= r.val
  /\ v.kind = "string" =>
       /\ r.type = "MinLength" => v.bytes >= r.len
       /\ r.type = "MaxLength" => v.bytes <= r.len
       /\ r.type = "Email" => EmailRegex \in v.matches
       /\ r.type = "Regex" => Meaning(r.pattern) \in v.matches

Passes(field, v) ==
  IF v \in {Null, Absent} THEN MayBeNull(field)
                          ELSE \A r \in field.rules : Obeys(v, r)

Verdict(s, input) ==
  LET refused == {f \in DOMAIN s : ~Passes(s[f], Taken(s[f], input[f]))}
  IN  IF refused = {} THEN [is |-> "valid", data |-> Data(s, input)]
                      ELSE [is |-> "invalid", fields |-> refused]

Return(t, c, s, x) ==
  reply' = [reply EXCEPT ![t] = [call |-> c, under |-> s, result |-> x]]

Init == /\ schemas = [n \in Names |-> None]
        /\ reply   = [t \in Threads |-> None]

Begin(t) == /\ reply' = [reply EXCEPT ![t] = None]
            /\ UNCHANGED schemas

Register(t, n, s) ==
  /\ PatternsOf(s) \cap BadPatterns = {}
  /\ schemas' = [schemas EXCEPT ![n] = s]
  /\ Return(t, [op |-> "register", dto |-> n, arg |-> s], s, [is |-> "stored"])

RefuseSchema(t, n, s) ==
  /\ \/ s = Malformed /\ Return(t, [op |-> "register", dto |-> n, arg |-> s], None,
                                [is |-> "unparsable"])
     \/ /\ s # Malformed
        /\ PatternsOf(s) \cap BadPatterns # {}
        /\ Return(t, [op |-> "register", dto |-> n, arg |-> s], None,
                  [is |-> "panicked"])
  /\ UNCHANGED schemas

Validate(t, n, i) ==
  /\ Return(t, [op |-> "validate", dto |-> n, arg |-> i], schemas[n],
            IF schemas[n] = None THEN [is |-> "unregistered"]
            ELSE IF i = Malformed THEN [is |-> "malformed"]
            ELSE Verdict(schemas[n], i))
  /\ UNCHANGED schemas

Next == \E t \in Threads, n \in Names :
          \/ Begin(t)
          \/ /\ t \in PhpThreads
             /\ \/ \E s \in Schemas : Register(t, n, s)
                \/ \E s \in Schemas \cup {Malformed} : RefuseSchema(t, n, s)
          \/ \E i \in Inputs \cup {Malformed} : Validate(t, n, i)

Spec == Init /\ [][Next]_vars
============================================================================
