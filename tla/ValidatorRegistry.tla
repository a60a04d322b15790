------------------------- MODULE ValidatorRegistry -------------------------
(***************************************************************************)
(* The registry of DTO schemas (validator.rs): two concurrent maps, the    *)
(* schemas and the compiled regexes.                                       *)
(*                                                                         *)
(* PHP threads register and validate through the FFI; tokio workers        *)
(* validate request bodies.  register takes one entry of the regex cache   *)
(* after the other and compiles what it finds vacant while it holds that   *)
(* entry; a regex that does not compile panics, and catch_unwind turns the *)
(* panic into -1.  validate keeps the read lock of its schema from the     *)
(* lookup to its return, and the write of register waits for it.           *)
(***************************************************************************)
EXTENDS DtoSchemas

CONSTANTS
  Threads,    \* the threads that share the registry
  PhpThreads  \* those that may register

ASSUME ThreadAssumption == PhpThreads \subseteq Threads

VARIABLES
  schemas,    \* the map of schemas: name -> schema or None
  cache,      \* the map of regexes: pattern -> the regex stored under it
  call,       \* the call each thread is in, or None
  todo,       \* what its loop has not visited: patterns, or fields
  compiling,  \* the vacant entry a thread holds while it compiles
  errors,     \* fields its validation has found wrong so far
  reply,      \* what its last call returned
  compiled    \* how often each pattern was compiled (history)

vars == <<schemas, cache, call, todo, compiling, errors, reply, compiled>>

Busy == {t \in Threads : call[t] # None}
Registering == {t \in Busy : call[t].op = "register"}
Validating  == {t \in Busy : call[t].op = "validate"}

Init ==
  /\ schemas   = [n \in Names |-> None]
  /\ cache     = [p \in Patterns |-> IF p = Seed THEN EmailRegex ELSE None]
  /\ call      = [t \in Threads |-> None]
  /\ todo      = [t \in Threads |-> {}]
  /\ compiling = [t \in Threads |-> None]
  /\ errors    = [t \in Threads |-> {}]
  /\ reply     = [t \in Threads |-> None]
  /\ compiled  = [p \in Patterns |-> 0]

Enter(t, c, visits) ==
  /\ call'   = [call EXCEPT ![t] = c]
  /\ todo'   = [todo EXCEPT ![t] = visits]
  /\ errors' = [errors EXCEPT ![t] = {}]
  /\ reply'  = [reply EXCEPT ![t] = None]

Leave(t, c, s, x) ==
  /\ call'  = [call EXCEPT ![t] = None]
  /\ todo'  = [todo EXCEPT ![t] = {}]
  /\ reply' = [reply EXCEPT ![t] = [call |-> c, under |-> s, result |-> x]]
-----------------------------------------------------------------------------
(* register. *)

Register(t, n, s) ==
  LET c == [op |-> "register", dto |-> n, arg |-> s]
  IN  /\ t \notin Busy
      /\ IF s = Malformed
         THEN /\ Leave(t, c, None, [is |-> "unparsable"])
              /\ UNCHANGED errors
         ELSE Enter(t, c, PatternsOf(s))
      /\ UNCHANGED <<schemas, cache, compiling, compiled>>

(* Mutant: looking and inserting are two calls, nothing is locked. *)
EntryUnlocked(t, p) == t \in Registering /\ p \in todo[t] /\ compiling[t] = None

(* entry(p): the entry is locked while another thread compiles into it. *)
Entry(t, p) == /\ t \in Registering /\ p \in todo[t] /\ compiling[t] = None
               /\ \A u \in Threads : compiling[u] # p

FindCompiled(t, p) ==
  /\ Entry(t, p) /\ cache[p] # None
  /\ todo' = [todo EXCEPT ![t] = @ \ {p}]
  /\ UNCHANGED <<schemas, cache, call, compiling, errors, reply, compiled>>

StartCompile(t, p) ==
  /\ Entry(t, p) /\ cache[p] = None
  /\ compiling' = [compiling EXCEPT ![t] = p]
  /\ UNCHANGED <<schemas, cache, call, todo, errors, reply, compiled>>

(* Mutant: the result of the compilation is not looked at. *)
EndCompileUnchecked(t) ==
  LET p == compiling[t]
  IN  /\ p # None
      /\ compiling' = [compiling EXCEPT ![t] = None]
      /\ cache'     = [cache EXCEPT ![p] = p]
      /\ compiled'  = [compiled EXCEPT ![p] = @ + 1]
      /\ todo'      = [todo EXCEPT ![t] = @ \ {p}]
      /\ UNCHANGED <<schemas, call, errors, reply>>

(* or_insert_with stores the regex, or unwinds without storing any.  What  *)
(* was compiled before the panic stays.                                    *)
EndCompile(t) ==
  LET p == compiling[t]
  IN  /\ p # None
      /\ compiling' = [compiling EXCEPT ![t] = None]
      /\ IF p \in BadPatterns
         THEN /\ Leave(t, call[t], None, [is |-> "panicked"])
              /\ UNCHANGED <<cache, compiled>>
         ELSE /\ cache'    = [cache EXCEPT ![p] = p]
              /\ compiled' = [compiled EXCEPT ![p] = @ + 1]
              /\ todo'     = [todo EXCEPT ![t] = @ \ {p}]
              /\ UNCHANGED <<call, reply>>
      /\ UNCHANGED <<schemas, errors>>

(* Mutants: the schema is stored before its patterns are compiled; the     *)
(* write does not wait for validations.                                    *)
StoreEarly(t) ==
  /\ t \in Registering /\ compiling[t] = None
  /\ \A u \in Validating : call[u].dto # call[t].dto
  /\ schemas' = [schemas EXCEPT ![call[t].dto] = call[t].arg]
  /\ Leave(t, call[t], call[t].arg, [is |-> "stored"])
  /\ UNCHANGED <<cache, compiling, errors, compiled>>

StoreUnlocked(t) ==
  /\ t \in Registering /\ todo[t] = {}
  /\ schemas' = [schemas EXCEPT ![call[t].dto] = call[t].arg]
  /\ Leave(t, call[t], call[t].arg, [is |-> "stored"])
  /\ UNCHANGED <<cache, compiling, errors, compiled>>

Store(t) ==
  /\ t \in Registering /\ todo[t] = {}
  /\ \A u \in Validating : call[u].dto # call[t].dto
  /\ schemas' = [schemas EXCEPT ![call[t].dto] = call[t].arg]
  /\ Leave(t, call[t], call[t].arg, [is |-> "stored"])
  /\ UNCHANGED <<cache, compiling, errors, compiled>>
-----------------------------------------------------------------------------
(* validate. *)

Validate(t, n, i) ==
  LET c == [op |-> "validate", dto |-> n, arg |-> i]
  IN  /\ t \notin Busy
      /\ IF schemas[n] = None
         THEN Leave(t, c, None, [is |-> "unregistered"]) /\ UNCHANGED errors
         ELSE IF i = Malformed
              THEN Leave(t, c, schemas[n], [is |-> "malformed"]) /\ UNCHANGED errors
              ELSE Enter(t, c, DOMAIN schemas[n])
      /\ UNCHANGED <<schemas, cache, compiling, compiled>>

(* as_f64 rounds a number, and makes 0 of anything else.                   *)
AsF64(v) == IF v.kind = "number" THEN F64[v.num] ELSE 0

(* A pattern that is not cached accepts every string. *)
IsMatch(p, v) == cache[p] = None \/ cache[p] \in v.matches

(* Mutants: a limit is no longer within the range; a length is off by one. *)
CheckRuleOpen(v, r) ==
  CASE r.type = "Min" -> AsF64(v) > r.val
    [] r.type = "Max" -> AsF64(v) < r.val
    [] OTHER -> TRUE

CheckRuleStrict(v, r) ==
  CASE r.type = "MinLength" -> v.kind = "string" => v.bytes > r.len
    [] r.type = "Regex"     -> v.kind = "string" => IsMatch(r.pattern, v)
    [] OTHER -> TRUE

CheckRule(v, r) ==
  CASE r.type = "Required"  -> v # Null
    [] r.type = "Email"     -> v.kind = "string" => IsMatch(Seed, v)
    [] r.type = "Min"       -> AsF64(v) >= r.val
    [] r.type = "Max"       -> AsF64(v) <= r.val
    [] r.type = "MinLength" -> v.kind = "string" => v.bytes >= r.len
    [] r.type = "MaxLength" -> v.kind = "string" => v.bytes <= r.len
    [] r.type = "Regex"     -> v.kind = "string" => IsMatch(r.pattern, v)
    [] r.type = "Numeric"   -> v.kind = "number"
    [] r.type = "Boolean"   -> v.kind = "boolean"

(* Mutant: a field with a default is not checked. *)
FieldErrsUnlessDefault(field, v) ==
  IF v \in {Absent, Null} THEN ~MayBeNull(field)
  ELSE ~field.has_default /\ \E r \in field.rules : ~CheckRule(v, r)

FieldErrs(field, v) ==
  IF v \in {Absent, Null} THEN ~MayBeNull(field)
                          ELSE \E r \in field.rules : ~CheckRule(v, r)

CheckField(t, f) ==
  /\ t \in Validating /\ f \in todo[t]
  /\ todo' = [todo EXCEPT ![t] = @ \ {f}]
  /\ LET field == schemas[call[t].dto][f]
     IN  errors' = [errors EXCEPT ![t] =
                      IF FieldErrs(field, Taken(field, call[t].arg[f]))
                      THEN @ \cup {f} ELSE @]
  /\ UNCHANGED <<schemas, cache, call, compiling, reply, compiled>>

Conclude(t) ==
  /\ t \in Validating /\ todo[t] = {}
  /\ LET s == schemas[call[t].dto]
     IN  Leave(t, call[t], s,
               IF errors[t] = {}
               THEN [is |-> "valid", data |-> Data(s, call[t].arg)]
               ELSE [is |-> "invalid", fields |-> errors[t]])
  /\ UNCHANGED <<schemas, cache, compiling, errors, compiled>>
-----------------------------------------------------------------------------
Call(t, n) == \/ t \in PhpThreads
                 /\ \E s \in Schemas \cup {Malformed} : Register(t, n, s)
              \/ \E i \in Inputs \cup {Malformed} : Validate(t, n, i)

Next == \E t \in Threads :
          \/ \E n \in Names : Call(t, n)
          \/ \E p \in Patterns : FindCompiled(t, p) \/ StartCompile(t, p)
          \/ EndCompile(t) \/ Store(t)
          \/ \E f \in Fields : CheckField(t, f)
          \/ Conclude(t)

Spec == Init /\ [][Next]_vars
-----------------------------------------------------------------------------
(* Properties. *)

(* The types of the variables. *)
TypeOK ==
  /\ schemas   \in [Names -> Schemas \cup {None}]
  /\ cache     \in [Patterns -> Regexes \cup {None}]
  /\ call      \in [Threads -> Calls \cup {None}]
  /\ todo      \in [Threads -> SUBSET (Patterns \cup Fields)]
  /\ compiling \in [Threads -> Patterns \cup {None}]
  /\ errors    \in [Threads -> SUBSET Fields]
  /\ reply     \in [Threads -> Replies \cup {None}]
  /\ compiled  \in [Patterns -> Nat]

(* Every regex of a registered schema is compiled and cached, whatever     *)
(* registrations of other threads panicked half-way: check_rule, which     *)
(* lets a string pass when it does not find the regex, always finds it.    *)
StoredSchemasAreCompiled ==
  \A n \in Names : schemas[n] # None =>
    \A p \in PatternsOf(schemas[n]) : cache[p] # None

(* No regex is compiled twice, however many threads register schemas that  *)
(* share it: the race that PLAN.md calls RC-3 is closed.                   *)
CompiledOnce == \A p \in Patterns : compiled[p] <= 1

(* What a rule that let v pass has made sure of.  The rounding of as_f64   *)
(* lets a number beyond a limit pass only if it is rounded to that limit;  *)
(* Min and Max take what is no number for a 0.                             *)
Kept(r, v) ==
  /\ r.type = "Numeric" => v.kind = "number"
  /\ r.type = "Boolean" => v.kind = "boolean"
  /\ r.type = "Min" => IF v.kind = "number"
                       THEN v.num >= r.val \/ F64[v.num] = r.val ELSE 0 >= r.val
  /\ r.type = "Max" => IF v.kind = "number"
                       THEN v.num <= r.val \/ F64[v.num] = r.val ELSE 0 <= r.val
  /\ v.kind = "string" =>
       /\ r.type = "MinLength" => v.bytes >= r.len
       /\ r.type = "MaxLength" => v.bytes <= r.len
       /\ r.type = "Email" => EmailRegex \in v.matches
       /\ r.type = "Regex" =>
            (IF r.pattern = Seed THEN EmailRegex ELSE r.pattern) \in v.matches

(* What reaches PHP is complete and clean: each field of the schema has a  *)
(* value; it is the one that was given, or the default of a field that was *)
(* left out, and keeps every rule of the field, the default included; or   *)
(* it is null, for a field that may be null.                               *)
AcceptedDataIsClean ==
  \A t \in Threads : reply[t] # None /\ reply[t].result.is = "valid" =>
    LET s == reply[t].under
        input == reply[t].call.arg
        data  == reply[t].result.data
    IN  /\ DOMAIN data = DOMAIN s
        /\ \A f \in DOMAIN s :
             IF data[f] = Null
             THEN /\ s[f].is_nullable \/ s[f].has_default
                  /\ input[f] \in {Null, Absent}
             ELSE /\ \/ data[f] = input[f]
                     \/ input[f] = Absent /\ data[f] = s[f].default_value
                  /\ \A r \in s[f].rules : Kept(r, data[f])

(* The rounding of numbers errs in one direction too: no number within the *)
(* limits of its field is refused, neither one at a limit nor one that is  *)
(* no double.                                                              *)
NumbersInRangePass ==
  \A t \in Threads : reply[t] # None /\ reply[t].result.is = "invalid" =>
    LET s == reply[t].under
        given(f) == Taken(s[f], reply[t].call.arg[f])
        ranges(f) == {r \in s[f].rules : r.type \in {"Min", "Max"}}
    IN  \A f \in reply[t].result.fields :
          /\ given(f) \notin {Null, Absent} /\ given(f).kind = "number"
          /\ \A r \in s[f].rules \ ranges(f) : r.type # "Boolean"
          => \E r \in ranges(f) : IF r.type = "Min" THEN given(f).num < r.val
                                                    ELSE given(f).num > r.val

(* The lengths of the rules are bytes, those of their messages characters. *)
(* The two disagree in one direction only: no string with enough           *)
(* characters is refused as too short, and none with too many passes.      *)
LengthRulesErrOneWay ==
  \A t \in Threads : reply[t] # None =>
    LET s == reply[t].under
        x == reply[t].result
        given(f) == Taken(s[f], reply[t].call.arg[f])
    IN  /\ x.is = "invalid" => \A f \in x.fields :
             given(f) \notin {Null, Absent} /\ given(f).kind = "string"
               /\ (\A r \in s[f].rules : r.type = "MinLength")
             => \E r \in s[f].rules : given(f).chars < r.len
        /\ x.is = "valid" => \A f \in DOMAIN s :
             given(f) \notin {Null, Absent} /\ given(f).kind = "string"
             => \A r \in s[f].rules : r.type = "MaxLength" => given(f).chars <= r.len
============================================================================
