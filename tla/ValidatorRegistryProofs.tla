---------------------- MODULE ValidatorRegistryProofs -----------------------
(***************************************************************************)
(* Proofs about ValidatorRegistry for any schemas, inputs and threads, and *)
(* that it implements DtoValidator.                                        *)
(***************************************************************************)
EXTENDS ValidatorRefinement, TLAPS

-----------------------------------------------------------------------------
(* Schemas and rules. *)

LEMMA SchemaFacts ==
  ASSUME NEW s \in Schemas
  PROVE  /\ PatternsOf(s) \subseteq Patterns
         /\ DOMAIN s \subseteq Fields
         /\ \A f \in DOMAIN s : s[f] \in FieldSchemas
         /\ \A f \in DOMAIN s : \A r \in s[f].rules :
              r \in Rules /\ (r.type = "Regex" => r.pattern \in PatternsOf(s))
<1>1. DOMAIN s \subseteq Fields /\ \A f \in DOMAIN s : s[f] \in FieldSchemas
  BY SchemaAssumption
<1>2. \A f \in DOMAIN s : s[f].rules \subseteq Rules
  BY <1>1 DEF FieldSchemas
<1>3. \A r \in Rules : r.type = "Regex" => r.pattern \in Patterns
  BY DEF Rules
<1>4. \A f \in DOMAIN s : \A r \in s[f].rules :
        r.type = "Regex" => r.pattern \in PatternsOf(s)
  BY DEF PatternsOf
<1>5. PatternsOf(s) \subseteq Patterns
  BY <1>2, <1>3 DEF PatternsOf
<1> QED BY <1>1, <1>2, <1>4, <1>5

LEMMA MeaningFacts ==
  ASSUME NEW p \in Patterns \ BadPatterns
  PROVE  Promised!Meaning(p) \in Regexes /\ Promised!Meaning(p) # None
BY SpecialAssumption DEF Promised!Meaning, Regexes

(* The two specifications share the definitions of DtoSchemas. *)
LEMMA SameSchemas ==
  /\ Promised!Null = Null
  /\ \A field : Promised!MayBeNull(field) <=> MayBeNull(field)
  /\ \A field, given : Promised!Taken(field, given) = Taken(field, given)
  /\ \A s : Promised!PatternsOf(s) = PatternsOf(s)
  /\ \A s, input : Promised!Data(s, input) = Data(s, input)
BY DEF Promised!Null, Null, Promised!MayBeNull, MayBeNull, Promised!Taken, Taken,
   Promised!PatternsOf, PatternsOf, Promised!Data, Data

(* With its regex in the cache, a rule is checked as it is meant. *)
LEMMA RuleChecked ==
  ASSUME NEW v, NEW r \in Rules, v # Null, cache[Seed] = EmailRegex,
         r.type = "Regex" =>
           cache[r.pattern] = Promised!Meaning(r.pattern) /\ cache[r.pattern] # None
  PROVE  CheckRule(v, r) <=> Promised!Obeys(v, r)
<1>1. EmailRegex # None
  BY SpecialAssumption DEF Regexes
<1>2. IsMatch(Seed, v) <=> EmailRegex \in v.matches
  BY <1>1 DEF IsMatch
<1>3. r.type = "Regex" =>
        (IsMatch(r.pattern, v) <=> Promised!Meaning(r.pattern) \in v.matches)
  BY DEF IsMatch
<1>4. r.type \in {"Required", "Email", "Numeric", "Boolean", "Min", "Max",
                  "MinLength", "MaxLength", "Regex"}
  BY DEF Rules
<1>5. AsF64(v) = Promised!Amount(v)
  BY DEF AsF64, Promised!Amount
<1>6. CASE r.type \in {"Required", "Numeric", "Boolean"}
  BY <1>6 DEF CheckRule, Promised!Obeys
<1>7. CASE r.type = "Email"
  BY <1>2, <1>7 DEF CheckRule, Promised!Obeys
<1>8. CASE r.type \in {"Min", "Max"}
  BY <1>5, <1>8 DEF CheckRule, Promised!Obeys
<1>9. CASE r.type \in {"MinLength", "MaxLength"}
  BY <1>9 DEF CheckRule, Promised!Obeys
<1>10. CASE r.type = "Regex"
  BY <1>3, <1>10 DEF CheckRule, Promised!Obeys
<1> QED BY <1>4, <1>6, <1>7, <1>8, <1>9, <1>10

(* What the caches hold: regexes under the patterns they were compiled     *)
(* from, and none for a pattern that does not compile.                     *)
CacheInv ==
  /\ cache[Seed] = EmailRegex
  /\ \A p \in Patterns : cache[p] # None =>
       p \notin BadPatterns /\ cache[p] = Promised!Meaning(p)

LEMMA FieldChecked ==
  ASSUME CacheInv, NEW s \in Schemas, \A p \in PatternsOf(s) : cache[p] # None,
         NEW f \in DOMAIN s, NEW v
  PROVE  FieldErrs(s[f], v) <=> ~Promised!Passes(s[f], v)
<1>1. CASE v \in {Absent, Null}
  BY <1>1, SameSchemas DEF FieldErrs, Promised!Passes
<1>2. CASE v \notin {Absent, Null}
  <2>1. ASSUME NEW r \in s[f].rules
        PROVE  CheckRule(v, r) <=> Promised!Obeys(v, r)
    <3>1. r \in Rules /\ (r.type = "Regex" => r.pattern \in PatternsOf(s))
      BY SchemaFacts
    <3>2. PatternsOf(s) \subseteq Patterns
      BY SchemaFacts
    <3> QED BY <1>2, <3>1, <3>2, RuleChecked DEF CacheInv
  <2> QED BY <1>2, <2>1, SameSchemas DEF FieldErrs, Promised!Passes
<1> QED BY <1>1, <1>2

-----------------------------------------------------------------------------
(* The invariant. *)

(* What a thread in the middle of register has dealt with is cached. *)
RegisterOK(t) ==
  /\ t \in PhpThreads
  /\ call[t].arg \in Schemas
  /\ todo[t] \subseteq PatternsOf(call[t].arg)
  /\ \A p \in PatternsOf(call[t].arg) \ todo[t] : cache[p] # None

RegisterInv == \A t \in Registering : RegisterOK(t)

(* One thread at a time holds a vacant entry, for a pattern of its schema. *)
CompileInv ==
  \A t \in Threads : compiling[t] # None =>
    /\ t \in Registering
    /\ compiling[t] \in todo[t]
    /\ cache[compiling[t]] = None
    /\ \A u \in Threads : compiling[u] = compiling[t] => u = t

CountInv ==
  \A p \in Patterns : compiled[p] <= (IF cache[p] = None THEN 0 ELSE 1)

Wrong(s, input, fields) ==
  {f \in fields : ~Promised!Passes(s[f], Taken(s[f], input[f]))}

(* A validation has found what is wrong in the fields it has visited, by   *)
(* the schema that is still there.                                         *)
ValidateOK(t) ==
  LET s == schemas[call[t].dto]
  IN  /\ call[t].arg \in Inputs
      /\ s \in Schemas
      /\ todo[t] \subseteq DOMAIN s
      /\ errors[t] = Wrong(s, call[t].arg, DOMAIN s \ todo[t])

ValidateInv == \A t \in Validating : ValidateOK(t)

(* A verdict is the one the schema promises. *)
ReplyInv ==
  \A t \in Threads :
    reply[t] # None /\ reply[t].result.is \in {"valid", "invalid"} =>
      /\ reply[t].under \in Schemas
      /\ reply[t].call.arg \in Inputs
      /\ reply[t].result = Promised!Verdict(reply[t].under, reply[t].call.arg)

IInv == /\ TypeOK
        /\ StoredSchemasAreCompiled
        /\ CacheInv
        /\ RegisterInv
        /\ CompileInv
        /\ CountInv
        /\ ValidateInv
        /\ ReplyInv

LEMMA InitIInv == Init => IInv
<1> SUFFICES ASSUME Init PROVE IInv
  OBVIOUS
<1>1. Busy = {}
  BY DEF Init, Busy
<1>2. EmailRegex \in Regexes /\ Seed \in Patterns \ BadPatterns
      /\ Promised!Meaning(Seed) = EmailRegex
  BY PatternAssumption DEF Regexes, Promised!Meaning
<1>3. TypeOK
  BY <1>2 DEF Init, TypeOK
<1>4. CacheInv /\ CountInv
  BY <1>2 DEF Init, CacheInv, CountInv
<1>5. StoredSchemasAreCompiled
  BY DEF Init, StoredSchemasAreCompiled
<1>6. RegisterInv /\ ValidateInv
  BY <1>1 DEF RegisterInv, ValidateInv, Registering, Validating
<1>7. CompileInv /\ ReplyInv
  BY DEF Init, CompileInv, ReplyInv
<1> QED BY <1>3, <1>4, <1>5, <1>6, <1>7 DEF IInv

-----------------------------------------------------------------------------
(* What a step of one thread leaves alone. *)

LEMMA OthersRegister ==
  ASSUME RegisterInv, NEW t \in Threads,
         \A u \in Threads \ {t} : call'[u] = call[u] /\ todo'[u] = todo[u],
         \A p : cache[p] # None => cache'[p] = cache[p],
         t \in Registering' => RegisterOK(t)'
  PROVE  RegisterInv'
<1>1. ASSUME NEW u \in Registering', u # t
      PROVE  RegisterOK(u)'
  <2>1. u \in Registering /\ call'[u] = call[u] /\ todo'[u] = todo[u]
    BY <1>1 DEF Registering, Busy
  <2> QED BY <2>1 DEF RegisterInv, RegisterOK
<1> QED BY <1>1 DEF RegisterInv

LEMMA OthersValidate ==
  ASSUME ValidateInv, NEW t \in Threads,
         \A u \in Threads \ {t} :
           call'[u] = call[u] /\ todo'[u] = todo[u] /\ errors'[u] = errors[u],
         \A u \in Validating \ {t} : schemas'[call[u].dto] = schemas[call[u].dto],
         t \in Validating' => ValidateOK(t)'
  PROVE  ValidateInv'
<1>1. ASSUME NEW u \in Validating', u # t
      PROVE  ValidateOK(u)'
  <2>1. /\ u \in Validating /\ call'[u] = call[u] /\ todo'[u] = todo[u]
        /\ errors'[u] = errors[u] /\ schemas'[call[u].dto] = schemas[call[u].dto]
    BY <1>1 DEF Validating, Busy
  <2> QED BY <2>1 DEF ValidateInv, ValidateOK, Wrong
<1> QED BY <1>1 DEF ValidateInv

LEMMA OthersCompile ==
  ASSUME CompileInv, NEW t \in Threads, compiling[t] = None,
         UNCHANGED <<compiling, cache>>,
         \A u \in Threads \ {t} : call'[u] = call[u] /\ todo'[u] = todo[u]
  PROVE  CompileInv'
<1>1. ASSUME NEW u \in Threads, compiling[u] # None
      PROVE  /\ u \in Registering' /\ compiling[u] \in todo'[u]
             /\ cache[compiling[u]] = None
             /\ \A z \in Threads : compiling[z] = compiling[u] => z = u
  <2>1. u # t /\ u \in Registering
    BY <1>1 DEF CompileInv
  <2> QED BY <1>1, <2>1 DEF CompileInv, Registering, Busy
<1> QED BY <1>1 DEF CompileInv

LEMMA LeaveTyped ==
  ASSUME TypeOK, NEW t \in Threads, NEW c \in Calls, NEW s \in Schemas \cup {None},
         NEW x \in Results, Leave(t, c, s, x)
  PROVE  /\ call'  \in [Threads -> Calls \cup {None}]
         /\ todo'  \in [Threads -> SUBSET (Patterns \cup Fields)]
         /\ reply' \in [Threads -> Replies \cup {None}]
         /\ call'[t] = None /\ t \notin Registering' /\ t \notin Validating'
         /\ \A u \in Threads \ {t} : call'[u] = call[u] /\ todo'[u] = todo[u]
<1>1. [call |-> c, under |-> s, result |-> x] \in Replies
  BY DEF Replies
<1>2. call' = [call EXCEPT ![t] = None] /\ todo' = [todo EXCEPT ![t] = {}]
      /\ reply' = [reply EXCEPT ![t] = [call |-> c, under |-> s, result |-> x]]
  BY DEF Leave
<1>3. call'[t] = None
  BY <1>2 DEF TypeOK
<1> QED BY <1>1, <1>2, <1>3 DEF TypeOK, Registering, Validating, Busy

LEMMA LeaveVerdict ==
  ASSUME TypeOK, ReplyInv, NEW t \in Threads, NEW c, NEW s, NEW x, Leave(t, c, s, x),
         x.is \in {"valid", "invalid"} =>
           s \in Schemas /\ c.arg \in Inputs /\ x = Promised!Verdict(s, c.arg)
  PROVE  ReplyInv'
<1>1. ASSUME NEW u \in Threads, reply'[u] # None,
             reply'[u].result.is \in {"valid", "invalid"}
      PROVE  /\ reply'[u].under \in Schemas
             /\ reply'[u].call.arg \in Inputs
             /\ reply'[u].result = Promised!Verdict(reply'[u].under, reply'[u].call.arg)
  <2>1. CASE u = t
    <3>1. reply'[t] = [call |-> c, under |-> s, result |-> x]
      BY DEF Leave, TypeOK
    <3> QED BY <1>1, <2>1, <3>1
  <2>2. CASE u # t
    <3>1. reply'[u] = reply[u]
      BY <2>2 DEF Leave, TypeOK
    <3> QED BY <1>1, <3>1 DEF ReplyInv
  <2> QED BY <2>1, <2>2
<1> QED BY <1>1 DEF ReplyInv

-----------------------------------------------------------------------------
(* The steps of register. *)

LEMMA EnterTyped ==
  ASSUME TypeOK, NEW t \in Threads, NEW c \in Calls,
         NEW visits \in SUBSET (Patterns \cup Fields), Enter(t, c, visits)
  PROVE  /\ call'   \in [Threads -> Calls \cup {None}]
         /\ todo'   \in [Threads -> SUBSET (Patterns \cup Fields)]
         /\ reply'  \in [Threads -> Replies \cup {None}]
         /\ errors' \in [Threads -> SUBSET Fields]
         /\ call'[t] = c /\ todo'[t] = visits /\ errors'[t] = {}
         /\ \A u \in Threads \ {t} :
              call'[u] = call[u] /\ todo'[u] = todo[u] /\ errors'[u] = errors[u]
BY DEF Enter, TypeOK

LEMMA EnterVerdict ==
  ASSUME TypeOK, ReplyInv, NEW t \in Threads, NEW c, NEW visits, Enter(t, c, visits)
  PROVE  ReplyInv'
BY DEF Enter, TypeOK, ReplyInv

LEMMA IdleCompilesNothing ==
  ASSUME CompileInv, NEW t \in Threads,
         t \notin Registering \/ todo[t] = {}
  PROVE  compiling[t] = None
BY DEF CompileInv

LEMMA RegisterStep ==
  ASSUME IInv, NEW t \in PhpThreads, NEW n \in Names, NEW s \in Schemas \cup {Malformed},
         Register(t, n, s)
  PROVE  IInv'
<1> DEFINE c == [op |-> "register", dto |-> n, arg |-> s]
<1>1. c \in Calls /\ c.op = "register" /\ c.arg = s /\ t \in Threads
  BY ThreadAssumption DEF Calls
<1>2. t \notin Busy /\ UNCHANGED <<schemas, cache, compiling, compiled>>
  BY DEF Register
<1>3. compiling[t] = None
  BY <1>1, <1>2, IdleCompilesNothing DEF IInv, Registering
<1>4. CacheInv' /\ CountInv' /\ StoredSchemasAreCompiled'
  BY <1>2 DEF IInv, CacheInv, CountInv, StoredSchemasAreCompiled
<1>5. CASE s = Malformed
  <2>1. Leave(t, c, None, [is |-> "unparsable"]) /\ UNCHANGED errors
    BY <1>5 DEF Register
  <2>2. [is |-> "unparsable"] \in Results
    BY DEF Results
  <2> HIDE DEF c
  <2>3. /\ TypeOK'
        /\ t \notin Registering' /\ t \notin Validating'
        /\ \A u \in Threads \ {t} :
             call'[u] = call[u] /\ todo'[u] = todo[u] /\ errors'[u] = errors[u]
    BY <1>1, <1>2, <2>1, <2>2, LeaveTyped DEF IInv, TypeOK
  <2>4. RegisterInv' /\ ValidateInv' /\ CompileInv'
    BY <1>1, <1>2, <1>3, <2>3, OthersRegister, OthersValidate, OthersCompile DEF IInv
  <2>5. ReplyInv'
    BY <1>1, <2>1, LeaveVerdict DEF IInv
  <2> QED BY <1>4, <2>3, <2>4, <2>5 DEF IInv
<1>6. CASE s # Malformed
  <2>1. Enter(t, c, PatternsOf(s))
    BY <1>6 DEF Register
  <2>2. s \in Schemas /\ PatternsOf(s) \subseteq Patterns
    BY <1>6, SchemaFacts
  <2> HIDE DEF c
  <2>3. /\ TypeOK'
        /\ call'[t] = c /\ todo'[t] = PatternsOf(s)
        /\ \A u \in Threads \ {t} :
             call'[u] = call[u] /\ todo'[u] = todo[u] /\ errors'[u] = errors[u]
    BY <1>1, <1>2, <2>1, <2>2, EnterTyped DEF IInv, TypeOK
  <2>4. RegisterOK(t)'
    BY <1>1, <2>2, <2>3 DEF RegisterOK
  <2>5. t \notin Validating'
    BY <1>1, <2>3 DEF Validating
  <2>6. RegisterInv' /\ ValidateInv' /\ CompileInv'
    BY <1>1, <1>2, <1>3, <2>3, <2>4, <2>5, OthersRegister, OthersValidate, OthersCompile
       DEF IInv
  <2>7. ReplyInv'
    BY <1>1, <2>1, EnterVerdict DEF IInv
  <2> QED BY <1>4, <2>3, <2>6, <2>7 DEF IInv
<1> QED BY <1>5, <1>6

LEMMA FindCompiledStep ==
  ASSUME IInv, NEW t \in Threads, NEW p \in Patterns, FindCompiled(t, p)
  PROVE  IInv'
<1>1. /\ t \in Registering /\ compiling[t] = None /\ cache[p] # None
      /\ todo' = [todo EXCEPT ![t] = @ \ {p}]
      /\ UNCHANGED <<schemas, cache, call, compiling, errors, reply, compiled>>
  BY DEF FindCompiled, Entry
<1>2. /\ TypeOK' /\ todo'[t] = todo[t] \ {p}
      /\ \A u \in Threads \ {t} : todo'[u] = todo[u]
  BY <1>1 DEF IInv, TypeOK
<1>3. RegisterOK(t)'
  BY <1>1, <1>2 DEF IInv, RegisterInv, RegisterOK
<1>4. t \notin Validating'
  BY <1>1 DEF Registering, Validating, Busy
<1>5. RegisterInv' /\ ValidateInv' /\ CompileInv'
  BY <1>1, <1>2, <1>3, <1>4, OthersRegister, OthersValidate, OthersCompile DEF IInv
<1>6. CacheInv' /\ CountInv' /\ StoredSchemasAreCompiled' /\ ReplyInv'
  BY <1>1 DEF IInv, CacheInv, CountInv, StoredSchemasAreCompiled, ReplyInv
<1> QED BY <1>2, <1>5, <1>6 DEF IInv

LEMMA StartCompileStep ==
  ASSUME IInv, NEW t \in Threads, NEW p \in Patterns, StartCompile(t, p)
  PROVE  IInv'
<1>1. /\ t \in Registering /\ p \in todo[t] /\ cache[p] = None
      /\ \A u \in Threads : compiling[u] # p
      /\ compiling' = [compiling EXCEPT ![t] = p]
      /\ UNCHANGED <<schemas, cache, call, todo, errors, reply, compiled>>
  BY DEF StartCompile, Entry
<1>2. TypeOK'
  BY <1>1 DEF IInv, TypeOK
<1>3. CompileInv'
  <2>1. \A u \in Threads : compiling'[u] = (IF u = t THEN p ELSE compiling[u])
    BY <1>1 DEF IInv, TypeOK
  <2>2. Registering' = Registering
    BY <1>1 DEF Registering, Busy
  <2> QED BY <1>1, <2>1, <2>2 DEF IInv, CompileInv
<1>4. RegisterInv' /\ ValidateInv'
  BY <1>1 DEF IInv, RegisterInv, RegisterOK, ValidateInv, ValidateOK, Registering,
     Validating, Busy, Wrong
<1>5. CacheInv' /\ CountInv' /\ StoredSchemasAreCompiled' /\ ReplyInv'
  BY <1>1 DEF IInv, CacheInv, CountInv, StoredSchemasAreCompiled, ReplyInv
<1> QED BY <1>2, <1>3, <1>4, <1>5 DEF IInv

LEMMA EndCompileStep ==
  ASSUME IInv, NEW t \in Threads, EndCompile(t)
  PROVE  IInv'
<1> DEFINE p == compiling[t]
<1>1. /\ p # None /\ p \in Patterns
      /\ t \in Registering /\ p \in todo[t] /\ cache[p] = None
      /\ \A u \in Threads : compiling[u] = p => u = t
      /\ compiling' = [compiling EXCEPT ![t] = None]
      /\ UNCHANGED <<schemas, errors>>
  BY DEF EndCompile, IInv, CompileInv, TypeOK
<1>2. /\ compiling' \in [Threads -> Patterns \cup {None}]
      /\ \A u \in Threads : compiling'[u] = (IF u = t THEN None ELSE compiling[u])
  BY <1>1 DEF IInv, TypeOK
<1>3. t \notin Validating
  BY <1>1 DEF Registering, Validating, Busy
<1>4. CASE p \in BadPatterns
  <2>1. /\ Leave(t, call[t], None, [is |-> "panicked"])
        /\ UNCHANGED <<cache, compiled>>
    BY <1>4 DEF EndCompile
  <2>2. [is |-> "panicked"] \in Results /\ call[t] \in Calls
    BY <1>1 DEF Results, Registering, Busy, IInv, TypeOK
  <2>3. /\ TypeOK'
        /\ t \notin Registering' /\ t \notin Validating'
        /\ \A u \in Threads \ {t} : call'[u] = call[u] /\ todo'[u] = todo[u]
    BY <1>1, <1>2, <2>1, <2>2, LeaveTyped DEF IInv, TypeOK
  <2>4. RegisterInv' /\ ValidateInv'
    BY <1>1, <2>1, <2>3, OthersRegister, OthersValidate DEF IInv
  <2>5. ReplyInv'
    BY <2>1, LeaveVerdict DEF IInv
  <2>6. CompileInv'
    <3>1. ASSUME NEW u \in Threads \ {t}, u \in Registering
          PROVE  u \in Registering'
      BY <2>3, <3>1 DEF Registering, Busy
    <3> QED BY <1>2, <2>1, <2>3, <3>1 DEF IInv, CompileInv
  <2>7. CacheInv' /\ CountInv' /\ StoredSchemasAreCompiled'
    BY <1>1, <2>1 DEF IInv, CacheInv, CountInv, StoredSchemasAreCompiled
  <2> QED BY <2>3, <2>4, <2>5, <2>6, <2>7 DEF IInv
<1>5. CASE p \notin BadPatterns
  <2>1. /\ cache'    = [cache EXCEPT ![p] = p]
        /\ compiled' = [compiled EXCEPT ![p] = compiled[p] + 1]
        /\ todo'     = [todo EXCEPT ![t] = todo[t] \ {p}]
        /\ UNCHANGED <<call, reply>>
    BY <1>5 DEF EndCompile
  <2>2. p \in Regexes /\ p # None /\ p # Seed
    <3>1. EmailRegex # None
      BY SpecialAssumption DEF Regexes
    <3> QED BY <1>1, <1>5, <3>1 DEF Regexes, IInv, CacheInv
  <2> HIDE DEF p
  <2>3. TypeOK'
    BY <1>1, <1>2, <2>1, <2>2 DEF IInv, TypeOK
  <2>4. \A q \in Patterns : cache'[q] = (IF q = p THEN p ELSE cache[q])
    BY <1>1, <2>1 DEF IInv, TypeOK
  <2>5. CacheInv'
    BY <1>5, <2>2, <2>4, PatternAssumption DEF IInv, CacheInv, Promised!Meaning
  <2>6. CountInv'
    BY <1>1, <2>1, <2>2, <2>4 DEF IInv, CountInv, TypeOK
  <2>7. StoredSchemasAreCompiled'
    <3>1. ASSUME NEW n \in Names, schemas[n] # None, NEW q \in PatternsOf(schemas[n])
          PROVE  cache'[q] # None
      <4>1. schemas[n] \in Schemas
        BY <3>1 DEF IInv, TypeOK
      <4>2. q \in Patterns
        BY <4>1, SchemaFacts
      <4> QED BY <2>2, <2>4, <3>1, <4>2 DEF IInv, StoredSchemasAreCompiled
    <3> QED BY <1>1, <3>1 DEF StoredSchemasAreCompiled
  <2>8. \A u \in Threads : todo'[u] = (IF u = t THEN todo[t] \ {p} ELSE todo[u])
    BY <2>1 DEF IInv, TypeOK
  <2>9. ASSUME NEW u \in Registering
        PROVE  RegisterOK(u)'
    <3>1. u \in Threads /\ RegisterOK(u)
      BY DEF IInv, RegisterInv, Registering, Busy
    <3>2. PatternsOf(call[u].arg) \subseteq Patterns
      BY <3>1, SchemaFacts DEF RegisterOK
    <3> QED BY <2>1, <2>2, <2>4, <2>8, <3>1, <3>2 DEF RegisterOK
  <2>10. Registering' = Registering /\ Validating' = Validating
    BY <2>1 DEF Registering, Validating, Busy
  <2>11. RegisterInv'
    BY <2>9, <2>10 DEF RegisterInv
  <2>12. ValidateInv'
    BY <1>1, <1>3, <2>1, <2>8, OthersValidate, <2>10 DEF IInv
  <2>13. CompileInv'
    <3>1. ASSUME NEW u \in Threads, compiling'[u] # None
          PROVE  /\ u \in Registering' /\ compiling'[u] \in todo'[u]
                 /\ cache'[compiling'[u]] = None
                 /\ \A z \in Threads : compiling'[z] = compiling'[u] => z = u
      <4>1. u # t /\ compiling'[u] = compiling[u] /\ compiling[u] # p
        BY <1>1, <1>2, <3>1
      <4>2. /\ u \in Registering /\ compiling[u] \in todo[u]
            /\ cache[compiling[u]] = None /\ compiling[u] \in Patterns
            /\ \A z \in Threads : compiling[z] = compiling[u] => z = u
        BY <3>1, <4>1 DEF IInv, CompileInv, TypeOK
      <4> QED BY <1>2, <2>4, <2>8, <2>10, <3>1, <4>1, <4>2
    <3> QED BY <3>1 DEF CompileInv
  <2>14. ReplyInv'
    BY <2>1 DEF IInv, ReplyInv
  <2> QED BY <2>3, <2>5, <2>6, <2>7, <2>11, <2>12, <2>13, <2>14 DEF IInv
<1> QED BY <1>4, <1>5

LEMMA StoreStep ==
  ASSUME IInv, NEW t \in Threads, Store(t)
  PROVE  IInv'
<1> DEFINE n == call[t].dto
           s == call[t].arg
<1>1. /\ t \in Registering /\ todo[t] = {}
      /\ \A u \in Validating : call[u].dto # n
      /\ schemas' = [schemas EXCEPT ![n] = s]
      /\ Leave(t, call[t], s, [is |-> "stored"])
      /\ UNCHANGED <<cache, compiling, errors, compiled>>
  BY DEF Store
<1>2. call[t] \in Calls /\ n \in Names
  BY <1>1 DEF Registering, Busy, IInv, TypeOK, Calls
<1>3. s \in Schemas /\ \A p \in PatternsOf(s) : cache[p] # None
  BY <1>1 DEF IInv, RegisterInv, RegisterOK
<1>4. [is |-> "stored"] \in Results
  BY DEF Results
<1> HIDE DEF n, s
<1>5. \A m \in Names : schemas'[m] = (IF m = n THEN s ELSE schemas[m])
  BY <1>1 DEF IInv, TypeOK
<1>6. /\ TypeOK'
      /\ t \notin Registering' /\ t \notin Validating'
      /\ \A u \in Threads \ {t} : call'[u] = call[u] /\ todo'[u] = todo[u]
  BY <1>1, <1>2, <1>3, <1>4, LeaveTyped DEF IInv, TypeOK
<1>7. StoredSchemasAreCompiled'
  BY <1>1, <1>3, <1>5 DEF IInv, StoredSchemasAreCompiled
<1>8. compiling[t] = None
  BY <1>1, IdleCompilesNothing DEF IInv
<1>9. \A u \in Validating \ {t} : schemas'[call[u].dto] = schemas[call[u].dto]
  <2>1. ASSUME NEW u \in Validating
        PROVE  call[u].dto \in Names
    BY DEF Validating, Busy, IInv, TypeOK, Calls
  <2> QED BY <1>1, <1>5, <2>1
<1>10. RegisterInv' /\ ValidateInv' /\ CompileInv'
  BY <1>1, <1>6, <1>8, <1>9, OthersRegister, OthersValidate, OthersCompile DEF IInv
<1>11. ReplyInv'
  BY <1>1, LeaveVerdict DEF IInv
<1>12. CacheInv' /\ CountInv'
  BY <1>1 DEF IInv, CacheInv, CountInv
<1> QED BY <1>6, <1>7, <1>10, <1>11, <1>12 DEF IInv
-----------------------------------------------------------------------------
(* The steps of validate. *)

LEMMA ValidateStep ==
  ASSUME IInv, NEW t \in Threads, NEW n \in Names, NEW i \in Inputs \cup {Malformed},
         Validate(t, n, i)
  PROVE  IInv'
<1> DEFINE c == [op |-> "validate", dto |-> n, arg |-> i]
           s == schemas[n]
<1>1. c \in Calls /\ c.op = "validate" /\ c.dto = n /\ c.arg = i
  BY DEF Calls
<1>2. t \notin Busy /\ UNCHANGED <<schemas, cache, compiling, compiled>>
  BY DEF Validate
<1>3. compiling[t] = None
  BY <1>2, IdleCompilesNothing DEF IInv, Registering
<1>4. CacheInv' /\ CountInv' /\ StoredSchemasAreCompiled'
  BY <1>2 DEF IInv, CacheInv, CountInv, StoredSchemasAreCompiled
<1>5. s \in Schemas \cup {None}
  BY DEF IInv, TypeOK
<1>6. CASE s = None \/ i = Malformed
  <2>1. PICK x \in {[is |-> "unregistered"], [is |-> "malformed"]} :
          Leave(t, c, s, x) /\ UNCHANGED errors
    BY <1>6 DEF Validate
  <2>2. x \in Results /\ x.is \notin {"valid", "invalid"}
    BY DEF Results
  <2> HIDE DEF c, s
  <2>3. /\ TypeOK'
        /\ t \notin Registering' /\ t \notin Validating'
        /\ \A u \in Threads \ {t} :
             call'[u] = call[u] /\ todo'[u] = todo[u] /\ errors'[u] = errors[u]
    BY <1>1, <1>2, <1>5, <2>1, <2>2, LeaveTyped DEF IInv, TypeOK
  <2>4. RegisterInv' /\ ValidateInv' /\ CompileInv'
    BY <1>2, <1>3, <2>3, OthersRegister, OthersValidate, OthersCompile DEF IInv
  <2>5. ReplyInv'
    BY <2>1, <2>2, LeaveVerdict DEF IInv
  <2> QED BY <1>4, <2>3, <2>4, <2>5 DEF IInv
<1>7. CASE s # None /\ i # Malformed
  <2>1. Enter(t, c, DOMAIN s)
    BY <1>7 DEF Validate
  <2>2. s \in Schemas /\ i \in Inputs /\ DOMAIN s \subseteq Fields
    BY <1>5, <1>7, SchemaFacts
  <2> HIDE DEF c, s
  <2>3. /\ TypeOK'
        /\ call'[t] = c /\ todo'[t] = DOMAIN s /\ errors'[t] = {}
        /\ \A u \in Threads \ {t} :
             call'[u] = call[u] /\ todo'[u] = todo[u] /\ errors'[u] = errors[u]
    BY <1>1, <1>2, <2>1, <2>2, EnterTyped DEF IInv, TypeOK
  <2>4. schemas'[call'[t].dto] = s
    BY <1>1, <1>2, <2>3 DEF s
  <2>5. ValidateOK(t)'
    BY <1>1, <2>2, <2>3, <2>4 DEF ValidateOK, Wrong
  <2>6. t \notin Registering'
    BY <1>1, <2>3 DEF Registering
  <2>7. RegisterInv' /\ ValidateInv' /\ CompileInv'
    BY <1>2, <1>3, <2>3, <2>5, <2>6, OthersRegister, OthersValidate, OthersCompile
       DEF IInv
  <2>8. ReplyInv'
    BY <2>1, EnterVerdict DEF IInv
  <2> QED BY <1>4, <2>3, <2>7, <2>8 DEF IInv
<1> QED BY <1>6, <1>7

LEMMA CheckFieldStep ==
  ASSUME IInv, NEW t \in Threads, NEW f \in Fields, CheckField(t, f)
  PROVE  IInv'
<1> DEFINE s == schemas[call[t].dto]
           input == call[t].arg
<1>1. /\ t \in Validating /\ f \in todo[t]
      /\ todo' = [todo EXCEPT ![t] = todo[t] \ {f}]
      /\ errors' = [errors EXCEPT ![t] =
                       IF FieldErrs(s[f], Taken(s[f], input[f]))
                       THEN errors[t] \cup {f} ELSE errors[t]]
      /\ UNCHANGED <<schemas, cache, call, compiling, reply, compiled>>
  BY DEF CheckField
<1>2. /\ input \in Inputs /\ s \in Schemas /\ todo[t] \subseteq DOMAIN s
      /\ errors[t] = Wrong(s, input, DOMAIN s \ todo[t])
  BY <1>1 DEF IInv, ValidateInv, ValidateOK
<1>3. s # None /\ call[t].dto \in Names
  BY <1>1, <1>2, SpecialAssumption DEF Validating, Busy, IInv, TypeOK, Calls
<1>4. \A p \in PatternsOf(s) : cache[p] # None
  BY <1>3 DEF IInv, StoredSchemasAreCompiled
<1>5. FieldErrs(s[f], Taken(s[f], input[f]))
        <=> ~Promised!Passes(s[f], Taken(s[f], input[f]))
  BY <1>1, <1>2, <1>4, FieldChecked DEF IInv
<1>6. TypeOK'
  BY <1>1 DEF IInv, TypeOK
<1>7. /\ todo'[t] = todo[t] \ {f}
      /\ errors'[t] = errors[t] \cup
                        (IF Promised!Passes(s[f], Taken(s[f], input[f])) THEN {} ELSE {f})
      /\ \A u \in Threads \ {t} : todo'[u] = todo[u] /\ errors'[u] = errors[u]
  BY <1>1, <1>5 DEF IInv, TypeOK
<1>8. Wrong(s, input, DOMAIN s \ todo'[t]) =
        Wrong(s, input, DOMAIN s \ todo[t]) \cup
          (IF Promised!Passes(s[f], Taken(s[f], input[f])) THEN {} ELSE {f})
  <2> HIDE DEF s, input
  <2>1. DOMAIN s \ todo'[t] = (DOMAIN s \ todo[t]) \cup {f}
    BY <1>1, <1>2, <1>7
  <2> QED BY <2>1 DEF Wrong
<1>9. ValidateOK(t)'
  BY <1>1, <1>2, <1>7, <1>8 DEF ValidateOK, Wrong
<1>10. t \notin Registering /\ t \notin Registering'
  BY <1>1 DEF Registering, Validating, Busy
<1>11. compiling[t] = None
  BY <1>10, IdleCompilesNothing DEF IInv
<1>12. RegisterInv' /\ ValidateInv' /\ CompileInv'
  BY <1>1, <1>7, <1>9, <1>10, <1>11, OthersRegister, OthersValidate, OthersCompile
     DEF IInv
<1>13. CacheInv' /\ CountInv' /\ StoredSchemasAreCompiled' /\ ReplyInv'
  BY <1>1 DEF IInv, CacheInv, CountInv, StoredSchemasAreCompiled, ReplyInv
<1> QED BY <1>6, <1>12, <1>13 DEF IInv

(* What a validation that has visited all fields returns. *)
Result(t) ==
  IF errors[t] = {} THEN [is |-> "valid", data |-> Data(schemas[call[t].dto], call[t].arg)]
                    ELSE [is |-> "invalid", fields |-> errors[t]]

LEMMA ResultIsVerdict ==
  ASSUME IInv, NEW t \in Validating, todo[t] = {}
  PROVE  /\ call[t] \in Calls /\ call[t].arg \in Inputs /\ call[t].op = "validate"
         /\ call[t].dto \in Names /\ schemas[call[t].dto] \in Schemas
         /\ Result(t) \in Results
         /\ Result(t) = Promised!Verdict(schemas[call[t].dto], call[t].arg)
<1> DEFINE s == schemas[call[t].dto]
           input == call[t].arg
<1>1. /\ call[t] \in Calls /\ call[t].op = "validate" /\ call[t].dto \in Names
      /\ errors[t] \in SUBSET Fields
  BY DEF Validating, Busy, IInv, TypeOK, Calls
<1>2. input \in Inputs /\ s \in Schemas /\ errors[t] = Wrong(s, input, DOMAIN s)
  BY DEF IInv, ValidateInv, ValidateOK
<1>3. Result(t) \in Results
  BY <1>1, <1>2 DEF Result, Results
<1> HIDE DEF s, input
<1>4. Wrong(s, input, DOMAIN s) =
        {f \in DOMAIN s : ~Promised!Passes(s[f], Promised!Taken(s[f], input[f]))}
  BY SameSchemas DEF Wrong
<1>5. Result(t) = Promised!Verdict(s, input)
  BY <1>2, <1>4, SameSchemas DEF Result, Promised!Verdict, s, input
<1> QED BY <1>1, <1>2, <1>3, <1>5 DEF s, input

LEMMA ConcludeStep ==
  ASSUME IInv, NEW t \in Threads, Conclude(t)
  PROVE  IInv'
<1> DEFINE s == schemas[call[t].dto]
<1>1. /\ t \in Validating /\ todo[t] = {}
      /\ Leave(t, call[t], s, Result(t))
      /\ UNCHANGED <<schemas, cache, compiling, errors, compiled>>
  BY DEF Conclude, Result
<1>2. /\ call[t] \in Calls /\ call[t].arg \in Inputs /\ s \in Schemas
      /\ Result(t) \in Results /\ Result(t) = Promised!Verdict(s, call[t].arg)
  BY <1>1, ResultIsVerdict
<1> HIDE DEF s
<1>3. /\ TypeOK'
      /\ t \notin Registering' /\ t \notin Validating'
      /\ \A u \in Threads \ {t} : call'[u] = call[u] /\ todo'[u] = todo[u]
  BY <1>1, <1>2, LeaveTyped DEF IInv, TypeOK
<1>4. compiling[t] = None
  BY <1>1, IdleCompilesNothing DEF IInv
<1>5. RegisterInv' /\ ValidateInv' /\ CompileInv'
  BY <1>1, <1>3, <1>4, OthersRegister, OthersValidate, OthersCompile DEF IInv
<1>6. ReplyInv'
  BY <1>1, <1>2, LeaveVerdict DEF IInv
<1>7. CacheInv' /\ CountInv' /\ StoredSchemasAreCompiled'
  BY <1>1 DEF IInv, CacheInv, CountInv, StoredSchemasAreCompiled
<1> QED BY <1>3, <1>5, <1>6, <1>7 DEF IInv

LEMMA NextIInv == IInv /\ [Next]_vars => IInv'
<1> SUFFICES ASSUME IInv, [Next]_vars PROVE IInv'
  OBVIOUS
<1>1. CASE Next
  <2> SUFFICES ASSUME NEW t \in Threads,
                      \/ \E n \in Names : Call(t, n)
                      \/ \E p \in Patterns : FindCompiled(t, p) \/ StartCompile(t, p)
                      \/ EndCompile(t) \/ Store(t)
                      \/ \E f \in Fields : CheckField(t, f)
                      \/ Conclude(t)
               PROVE  IInv'
    BY <1>1 DEF Next
  <2>1. CASE \E n \in Names : Call(t, n)
    BY <2>1, RegisterStep, ValidateStep DEF Call
  <2> QED BY <2>1, FindCompiledStep, StartCompileStep, EndCompileStep, StoreStep,
             CheckFieldStep, ConcludeStep
<1>2. CASE UNCHANGED vars
  <2>1. UNCHANGED <<schemas, cache, call, todo, compiling, errors, reply, compiled>>
    BY <1>2 DEF vars
  <2>2. TypeOK' /\ StoredSchemasAreCompiled' /\ CacheInv' /\ CountInv' /\ ReplyInv'
    BY <2>1 DEF IInv, TypeOK, StoredSchemasAreCompiled, CacheInv, CountInv, ReplyInv
  <2>3. Registering' = Registering /\ Validating' = Validating
    BY <2>1 DEF Registering, Validating, Busy
  <2>4. RegisterInv' /\ CompileInv'
    BY <2>1, <2>3 DEF IInv, RegisterInv, RegisterOK, CompileInv
  <2>5. ValidateInv'
    BY <2>1, <2>3 DEF IInv, ValidateInv, ValidateOK, Wrong
  <2> QED BY <2>2, <2>4, <2>5 DEF IInv
<1> QED BY <1>1, <1>2

LEMMA Invariant == Spec => []IInv
BY InitIInv, NextIInv, PTL DEF Spec
-----------------------------------------------------------------------------
(* The results. *)

(* The types of the variables.                                             *)
THEOREM TypeCorrect == Spec => []TypeOK
<1>1. IInv => TypeOK
  BY DEF IInv
<1> QED BY <1>1, Invariant, PTL

(* Whatever registrations panic, and wherever, check_rule finds the regex  *)
(* of every rule of a registered schema.                                   *)
THEOREM StoredCompiled == Spec => []StoredSchemasAreCompiled
<1>1. IInv => StoredSchemasAreCompiled
  BY DEF IInv
<1> QED BY <1>1, Invariant, PTL

(* Threads that register at the same time compile no regex twice.          *)
THEOREM CompiledAtMostOnce == Spec => []CompiledOnce
<1>1. ASSUME IInv PROVE CompiledOnce
  BY <1>1 DEF IInv, TypeOK, CountInv, CompiledOnce
<1> QED BY <1>1, Invariant, PTL

(* A value that passed and is not null obeys all rules of its field.       *)
LEMMA Accepted ==
  ASSUME IInv, NEW t \in Threads, reply[t] # None, reply[t].result.is = "valid"
  PROVE  LET s == reply[t].under
             input == reply[t].call.arg
         IN  /\ s \in Schemas /\ input \in Inputs
             /\ reply[t].result.data = Data(s, input)
             /\ \A f \in DOMAIN s : Promised!Passes(s[f], Taken(s[f], input[f]))
<1> DEFINE s == reply[t].under
           input == reply[t].call.arg
<1>1. /\ s \in Schemas /\ input \in Inputs
      /\ reply[t].result = Promised!Verdict(s, input)
  BY DEF IInv, ReplyInv
<1> DEFINE refused == {f \in DOMAIN s : ~Promised!Passes(s[f], Promised!Taken(s[f], input[f]))}
<1>2. reply[t].result = IF refused = {} THEN [is |-> "valid", data |-> Promised!Data(s, input)]
                        ELSE [is |-> "invalid", fields |-> refused]
  BY <1>1 DEF Promised!Verdict
<1>3. refused = {} /\ reply[t].result.data = Promised!Data(s, input)
  <2> HIDE DEF refused, s, input
  <2> QED BY <1>2
<1> QED BY <1>1, <1>3, SameSchemas

LEMMA Refused ==
  ASSUME IInv, NEW t \in Threads, reply[t] # None, reply[t].result.is = "invalid"
  PROVE  LET s == reply[t].under
             input == reply[t].call.arg
         IN  /\ s \in Schemas /\ input \in Inputs
             /\ \A f \in reply[t].result.fields :
                  f \in DOMAIN s /\ ~Promised!Passes(s[f], Taken(s[f], input[f]))
<1> DEFINE s == reply[t].under
           input == reply[t].call.arg
<1>1. /\ s \in Schemas /\ input \in Inputs
      /\ reply[t].result = Promised!Verdict(s, input)
  BY DEF IInv, ReplyInv
<1> DEFINE refused == {f \in DOMAIN s : ~Promised!Passes(s[f], Promised!Taken(s[f], input[f]))}
<1>2. reply[t].result = IF refused = {} THEN [is |-> "valid", data |-> Promised!Data(s, input)]
                        ELSE [is |-> "invalid", fields |-> refused]
  BY <1>1 DEF Promised!Verdict
<1>3. reply[t].result.fields = refused
  <2> HIDE DEF refused, s, input
  <2> QED BY <1>2
<1> QED BY <1>1, <1>3, SameSchemas

LEMMA TakenIsValue ==
  ASSUME NEW s \in Schemas, NEW input \in Inputs, NEW f \in DOMAIN s,
         Taken(s[f], input[f]) # Absent
  PROVE  Taken(s[f], input[f]) \in Values
<1>1. f \in Fields /\ s[f] \in FieldSchemas
  BY SchemaFacts
<1>2. input[f] \in Values \cup {Absent}
  BY <1>1, InputAssumption
<1>3. s[f].default_value \in Values \cup {Absent}
  BY <1>1 DEF FieldSchemas
<1> QED BY <1>2, <1>3 DEF Taken

(* Rounding never takes a number across a limit, which is a double.        *)
LEMMA RoundedWithin ==
  ASSUME NEW n \in Numbers, NEW d \in Doubles
  PROVE  /\ n \in Int /\ d \in Int /\ F64[n] \in Int
         /\ n <= d => F64[n] <= d
         /\ n >= d => F64[n] >= d
<1>1. d \in Numbers /\ F64[d] = d /\ F64[n] \in Numbers /\ Numbers \subseteq Int
  BY F64Assumption DEF Doubles
<1>2. /\ n <= d => F64[n] <= F64[d]
      /\ d <= n => F64[d] <= F64[n]
  BY <1>1, F64Assumption
<1>3. n >= d => d <= n
  BY <1>1
<1> QED BY <1>1, <1>2, <1>3

LEMMA ObeyedIsKept ==
  ASSUME NEW v \in Values, NEW r \in Rules, Promised!Obeys(v, r)
  PROVE  Kept(r, v)
<1>1. ASSUME r.type \in {"Min", "Max"}, v.kind = "number"
      PROVE  Kept(r, v)
  <2>1. r.val \in Doubles /\ v.num \in Numbers
    BY <1>1 DEF Rules, Values
  <2>2. /\ v.num \in Int /\ r.val \in Int /\ F64[v.num] \in Int
        /\ v.num <= r.val => F64[v.num] <= r.val
        /\ v.num >= r.val => F64[v.num] >= r.val
    BY <2>1, RoundedWithin
  <2>3. /\ r.type = "Min" => F64[v.num] >= r.val
        /\ r.type = "Max" => F64[v.num] <= r.val
    BY <1>1 DEF Promised!Obeys, Promised!Amount
  <2>4. /\ r.type = "Min" => v.num >= r.val \/ F64[v.num] = r.val
        /\ r.type = "Max" => v.num <= r.val \/ F64[v.num] = r.val
    BY <2>2, <2>3
  <2> QED BY <1>1, <2>4 DEF Kept
<1>2. ASSUME r.type \in {"Min", "Max"}, v.kind # "number"
      PROVE  Kept(r, v)
  BY <1>2 DEF Kept, Promised!Obeys, Promised!Amount
<1>3. ASSUME r.type \notin {"Min", "Max"}
      PROVE  Kept(r, v)
  BY <1>3 DEF Kept, Promised!Obeys, Promised!Meaning
<1> QED BY <1>1, <1>2, <1>3

(* PHP gets complete data that keeps every rule of its schema, for any     *)
(* schemas and inputs, defaults that break their own rules included.       *)
THEOREM AcceptedClean == Spec => []AcceptedDataIsClean
<1>1. ASSUME IInv,
             NEW t \in Threads, reply[t] # None, reply[t].result.is = "valid",
             NEW f \in DOMAIN reply[t].under
      PROVE  LET s == reply[t].under
                 input == reply[t].call.arg
                 data  == reply[t].result.data
             IN  /\ DOMAIN data = DOMAIN s
                 /\ IF data[f] = Null
                    THEN /\ s[f].is_nullable \/ s[f].has_default
                         /\ input[f] \in {Null, Absent}
                    ELSE /\ \/ data[f] = input[f]
                            \/ input[f] = Absent /\ data[f] = s[f].default_value
                         /\ \A r \in s[f].rules : Promised!Obeys(data[f], r)
  <2> DEFINE s == reply[t].under
             input == reply[t].call.arg
             data  == reply[t].result.data
             v == Taken(s[f], input[f])
  <2>1. /\ s \in Schemas /\ input \in Inputs /\ data = Data(s, input)
        /\ Promised!Passes(s[f], v)
    BY <1>1, Accepted
  <2>2. DOMAIN data = DOMAIN s /\ data[f] = IF v = Absent THEN Null ELSE v
    BY <1>1, <2>1 DEF Data
  <2>3. v = input[f] \/ (input[f] = Absent /\ v = s[f].default_value)
    BY DEF Taken
  <2>4. v = Absent => input[f] = Absent
    BY DEF Taken
  <2>5. IF v \in {Null, Absent} THEN MayBeNull(s[f])
                                ELSE \A r \in s[f].rules : Promised!Obeys(v, r)
    BY <2>1, SameSchemas DEF Promised!Passes
  <2> HIDE DEF s, input, data, v
  <2>6. CASE data[f] = Null
    <3>1. v \in {Null, Absent}
      BY <2>2, <2>6
    <3>2. s[f].is_nullable \/ s[f].has_default
      BY <2>5, <3>1 DEF MayBeNull
    <3>3. input[f] \in {Null, Absent}
      BY <2>3, <2>4, <3>1
    <3> QED BY <2>2, <2>6, <3>2, <3>3 DEF s, input, data
  <2>7. CASE data[f] # Null
    <3>1. data[f] = v /\ v \notin {Null, Absent}
      BY <2>2, <2>7
    <3>2. \A r \in s[f].rules : Promised!Obeys(data[f], r)
      BY <2>5, <3>1
    <3>3. data[f] = input[f] \/ (input[f] = Absent /\ data[f] = s[f].default_value)
      BY <2>3, <3>1
    <3> QED BY <2>2, <2>7, <3>2, <3>3 DEF s, input, data
  <2> QED BY <2>6, <2>7
<1>2. ASSUME IInv, NEW t \in Threads, reply[t] # None, reply[t].result.is = "valid",
             NEW f \in DOMAIN reply[t].under,
             reply[t].result.data[f] # Null,
             NEW r \in reply[t].under[f].rules,
             Promised!Obeys(reply[t].result.data[f], r)
      PROVE  Kept(r, reply[t].result.data[f])
  <2> DEFINE s == reply[t].under
             v == Taken(s[f], reply[t].call.arg[f])
  <2>1. s \in Schemas /\ reply[t].call.arg \in Inputs /\ r \in Rules
    BY <1>2, Accepted, SchemaFacts
  <2>2. reply[t].result.data[f] = v /\ v \notin {Null, Absent}
    BY <1>2, Accepted DEF Data
  <2>3. v \in Values
    BY <2>1, <2>2, TakenIsValue
  <2> HIDE DEF s, v
  <2> QED BY <1>2, <2>1, <2>2, <2>3, ObeyedIsKept
<1>3. ASSUME IInv,
             NEW t \in Threads, reply[t] # None, reply[t].result.is = "valid"
      PROVE  DOMAIN reply[t].result.data = DOMAIN reply[t].under
  BY <1>3, Accepted DEF Data
<1>4. IInv => AcceptedDataIsClean
  BY <1>1, <1>2, <1>3 DEF AcceptedDataIsClean
<1> QED BY <1>4, Invariant, PTL

(* No number within its limits is refused, however doubles round.          *)
THEOREM RangesPass == Spec => []NumbersInRangePass
<1>1. ASSUME IInv, NEW t \in Threads, reply[t] # None,
             reply[t].result.is = "invalid", NEW f \in reply[t].result.fields
      PROVE  LET s == reply[t].under
                 given == Taken(s[f], reply[t].call.arg[f])
                 ranges == {r \in s[f].rules : r.type \in {"Min", "Max"}}
             IN  /\ given \notin {Null, Absent} /\ given.kind = "number"
                 /\ \A r \in s[f].rules \ ranges : r.type # "Boolean"
                 => \E r \in ranges : IF r.type = "Min" THEN given.num < r.val
                                                        ELSE given.num > r.val
  <2> DEFINE s == reply[t].under
             input == reply[t].call.arg
             v == Taken(s[f], input[f])
  <2> SUFFICES ASSUME v \notin {Null, Absent}, v.kind = "number",
                      \A r \in s[f].rules : r.type # "Boolean"
               PROVE  \E r \in s[f].rules :
                        \/ r.type = "Min" /\ v.num < r.val
                        \/ r.type = "Max" /\ v.num > r.val
    OBVIOUS
  <2>1. /\ s \in Schemas /\ input \in Inputs /\ f \in DOMAIN s
        /\ ~Promised!Passes(s[f], v)
    BY <1>1, Refused
  <2>2. v \in Values /\ v.num \in Numbers
    BY <2>1, TakenIsValue DEF Values
  <2>3. \A r \in s[f].rules : r \in Rules
    BY <2>1, SchemaFacts
  <2> HIDE DEF s, input, v
  <2>4. PICK r \in s[f].rules : ~Promised!Obeys(v, r)
    BY <2>1, SameSchemas DEF Promised!Passes
  <2>5. \/ r.type = "Min" /\ ~(F64[v.num] >= r.val)
        \/ r.type = "Max" /\ ~(F64[v.num] <= r.val)
    BY <2>4 DEF Promised!Obeys, Promised!Amount
  <2>6. r.val \in Doubles
    BY <2>3, <2>5 DEF Rules
  <2>7. /\ v.num \in Int /\ r.val \in Int /\ F64[v.num] \in Int
        /\ v.num <= r.val => F64[v.num] <= r.val
        /\ v.num >= r.val => F64[v.num] >= r.val
    BY <2>2, <2>6, RoundedWithin
  <2>8. \/ r.type = "Min" /\ v.num < r.val
        \/ r.type = "Max" /\ v.num > r.val
    BY <2>5, <2>7
  <2> QED BY <2>8
<1>2. IInv => NumbersInRangePass
  BY <1>1 DEF NumbersInRangePass
<1> QED BY <1>2, Invariant, PTL

(* A string of any characters that keeps the limits of the messages is     *)
(* never refused for being too short, and none beyond them passes.         *)
THEOREM LengthsErrOneWay == Spec => []LengthRulesErrOneWay
<1>1. ASSUME NEW s \in Schemas, NEW input \in Inputs, NEW f \in DOMAIN s,
             Taken(s[f], input[f]) \notin {Null, Absent},
             Taken(s[f], input[f]).kind = "string"
      PROVE  LET v == Taken(s[f], input[f])
             IN  v.chars \in Nat /\ v.bytes \in Nat /\ v.chars <= v.bytes
  <2>1. Taken(s[f], input[f]) \in Values
    BY <1>1, TakenIsValue
  <2> QED BY <1>1, <2>1 DEF Values
<1>2. ASSUME NEW s \in Schemas, NEW f \in DOMAIN s, NEW r \in s[f].rules,
             r.type \in {"MinLength", "MaxLength"}
      PROVE  r.len \in Nat
  <2>1. r \in Rules
    BY SchemaFacts
  <2> QED BY <1>2, <2>1 DEF Rules
<1>3. ASSUME IInv, NEW t \in Threads, reply[t] # None
      PROVE  LET s == reply[t].under
                 x == reply[t].result
                 given(f) == Taken(s[f], reply[t].call.arg[f])
             IN  /\ x.is = "invalid" => \A f \in x.fields :
                      given(f) \notin {Null, Absent} /\ given(f).kind = "string"
                        /\ (\A r \in s[f].rules : r.type = "MinLength")
                      => \E r \in s[f].rules : given(f).chars < r.len
                 /\ x.is = "valid" => \A f \in DOMAIN s :
                      given(f) \notin {Null, Absent} /\ given(f).kind = "string"
                      => \A r \in s[f].rules : r.type = "MaxLength" =>
                           given(f).chars <= r.len
  <2> DEFINE s == reply[t].under
             input == reply[t].call.arg
  <2>1. ASSUME reply[t].result.is = "invalid", NEW f \in reply[t].result.fields,
               Taken(s[f], input[f]) \notin {Null, Absent},
               Taken(s[f], input[f]).kind = "string",
               \A r \in s[f].rules : r.type = "MinLength"
        PROVE  \E r \in s[f].rules : Taken(s[f], input[f]).chars < r.len
    <3> DEFINE v == Taken(s[f], input[f])
    <3>1. /\ s \in Schemas /\ input \in Inputs /\ f \in DOMAIN s
          /\ ~Promised!Passes(s[f], v)
      BY <1>3, <2>1, Refused
    <3>2. v.chars \in Nat /\ v.bytes \in Nat /\ v.chars <= v.bytes
      BY <1>1, <2>1, <3>1
    <3> HIDE DEF s, input, v
    <3>3. PICK r \in s[f].rules : ~Promised!Obeys(v, r)
      BY <2>1, <3>1, SameSchemas DEF Promised!Passes, v
    <3>4. r.type = "MinLength" /\ r.len \in Nat
      BY <1>2, <2>1, <3>1
    <3>5. ~(v.bytes >= r.len)
      BY <3>3, <3>4 DEF Promised!Obeys
    <3>6. v.chars < r.len
      BY <3>2, <3>4, <3>5
    <3> QED BY <3>6 DEF v
  <2>2. ASSUME reply[t].result.is = "valid", NEW f \in DOMAIN s,
               Taken(s[f], input[f]) \notin {Null, Absent},
               Taken(s[f], input[f]).kind = "string",
               NEW r \in s[f].rules, r.type = "MaxLength"
        PROVE  Taken(s[f], input[f]).chars <= r.len
    <3> DEFINE v == Taken(s[f], input[f])
    <3>1. /\ s \in Schemas /\ input \in Inputs
          /\ Promised!Passes(s[f], v)
      BY <1>3, <2>2, Accepted
    <3>2. v.chars \in Nat /\ v.bytes \in Nat /\ v.chars <= v.bytes
      BY <1>1, <2>2, <3>1
    <3>3. r.len \in Nat
      BY <1>2, <2>2, <3>1
    <3> HIDE DEF s, input, v
    <3>4. Promised!Obeys(v, r)
      BY <2>2, <3>1, SameSchemas DEF Promised!Passes, v
    <3>5. v.bytes <= r.len
      BY <2>2, <3>4 DEF Promised!Obeys, v
    <3>6. v.chars <= r.len
      BY <3>2, <3>3, <3>5
    <3> QED BY <3>6 DEF v
  <2> QED BY <2>1, <2>2
<1>4. IInv => LengthRulesErrOneWay
  BY <1>3 DEF LengthRulesErrOneWay
<1> QED BY <1>4, Invariant, PTL
-----------------------------------------------------------------------------
(* The refinement. *)

(* A call is what its parts say. *)
LEMMA CallIsRecord ==
  ASSUME NEW c \in Calls
  PROVE  c = [op |-> c.op, dto |-> c.dto, arg |-> c.arg]
BY DEF Calls

LEMMA StepImplements ==
  ASSUME IInv, [Next]_vars
  PROVE  [Promised!Next]_Promised!vars
<1> USE DEF Promised!Return, Leave
<1>1. ASSUME NEW t \in PhpThreads, NEW n \in Names, NEW s \in Schemas \cup {Malformed},
             Register(t, n, s)
      PROVE  Promised!Next
  <2>1. CASE s = Malformed
    <3>1. Promised!RefuseSchema(t, n, s)
      BY <1>1, <2>1 DEF Register, Promised!RefuseSchema
    <3> QED BY <2>1, <3>1, ThreadAssumption DEF Promised!Next
  <2>2. CASE s # Malformed
    <3>1. Promised!Begin(t)
      BY <1>1, <2>2 DEF Register, Enter, Promised!Begin
    <3> QED BY <3>1, ThreadAssumption DEF Promised!Next
  <2> QED BY <2>1, <2>2
<1>2. ASSUME NEW t \in Threads, EndCompile(t)
      PROVE  Promised!Next \/ UNCHANGED <<schemas, reply>>
  <2> DEFINE c == call[t]
             p == compiling[t]
  <2>1. /\ p \in Patterns /\ t \in Registering /\ p \in todo[t]
    BY <1>2 DEF EndCompile, IInv, CompileInv, TypeOK
  <2>2. /\ c \in Calls /\ c.op = "register" /\ c.dto \in Names
    BY <2>1 DEF Registering, Busy, IInv, TypeOK, Calls
  <2>3. c.arg \in Schemas /\ t \in PhpThreads /\ p \in PatternsOf(c.arg)
    BY <2>1 DEF IInv, RegisterInv, RegisterOK
  <2>4. CASE p \in BadPatterns
    <3>1. c.arg # Malformed
      BY <2>3, SpecialAssumption
    <3>2. Promised!PatternsOf(c.arg) \cap BadPatterns # {}
      BY <2>3, <2>4, SameSchemas
    <3>3. c = [op |-> "register", dto |-> c.dto, arg |-> c.arg]
      BY <2>2, CallIsRecord
    <3>4. Promised!RefuseSchema(t, c.dto, c.arg)
      BY <1>2, <2>4, <3>1, <3>2, <3>3 DEF EndCompile, Promised!RefuseSchema
    <3> QED BY <2>2, <2>3, <3>4 DEF Promised!Next
  <2>5. CASE p \notin BadPatterns
    BY <1>2, <2>5 DEF EndCompile
  <2> QED BY <2>4, <2>5
<1>3. ASSUME NEW t \in Threads, Store(t)
      PROVE  Promised!Next
  <2> DEFINE c == call[t]
  <2>1. t \in Registering /\ todo[t] = {}
    BY <1>3 DEF Store
  <2>2. c \in Calls /\ c.op = "register" /\ c.dto \in Names
    BY <2>1 DEF Registering, Busy, IInv, TypeOK, Calls
  <2>3. /\ c.arg \in Schemas /\ t \in PhpThreads
        /\ \A p \in PatternsOf(c.arg) : cache[p] # None
    BY <2>1 DEF IInv, RegisterInv, RegisterOK
  <2>4. PatternsOf(c.arg) \subseteq Patterns
    BY <2>3, SchemaFacts
  <2>5. Promised!PatternsOf(c.arg) \cap BadPatterns = {}
    BY <2>3, <2>4, SameSchemas DEF IInv, CacheInv
  <2>6. c = [op |-> "register", dto |-> c.dto, arg |-> c.arg]
    BY <2>2, CallIsRecord
  <2>7. Promised!Register(t, c.dto, c.arg)
    BY <1>3, <2>5, <2>6 DEF Store, Promised!Register
  <2> QED BY <2>2, <2>3, <2>7 DEF Promised!Next
<1>4. ASSUME NEW t \in Threads, NEW n \in Names, NEW i \in Inputs \cup {Malformed},
             Validate(t, n, i)
      PROVE  Promised!Next
  <2>1. CASE schemas[n] = None \/ i = Malformed
    <3>1. Promised!Validate(t, n, i)
      BY <1>4, <2>1 DEF Validate, Promised!Validate
    <3> QED BY <3>1 DEF Promised!Next
  <2>2. CASE schemas[n] # None /\ i # Malformed
    <3>1. Promised!Begin(t)
      BY <1>4, <2>2 DEF Validate, Enter, Promised!Begin
    <3> QED BY <3>1 DEF Promised!Next
  <2> QED BY <2>1, <2>2
<1>5. ASSUME NEW t \in Threads, Conclude(t)
      PROVE  Promised!Next
  <2> DEFINE c == call[t]
             s == schemas[c.dto]
  <2>1. t \in Validating /\ todo[t] = {}
    BY <1>5 DEF Conclude
  <2>2. /\ c \in Calls /\ c.arg \in Inputs /\ c.op = "validate" /\ c.dto \in Names
        /\ s \in Schemas /\ Result(t) = Promised!Verdict(s, c.arg)
    BY <2>1, ResultIsVerdict
  <2>3. s # None /\ c.arg # Malformed
    BY <2>2, SpecialAssumption
  <2>4. c = [op |-> "validate", dto |-> c.dto, arg |-> c.arg]
    BY <2>2, CallIsRecord
  <2>5. /\ reply' = [reply EXCEPT ![t] = [call |-> c, under |-> s, result |-> Result(t)]]
        /\ UNCHANGED schemas
    BY <1>5 DEF Conclude, Result
  <2>6. Promised!Validate(t, c.dto, c.arg)
    BY <2>2, <2>3, <2>4, <2>5 DEF Promised!Validate
  <2> QED BY <2>2, <2>6 DEF Promised!Next
<1>6. ASSUME NEW t \in Threads,
             \/ \E p \in Patterns : FindCompiled(t, p) \/ StartCompile(t, p)
             \/ \E f \in Fields : CheckField(t, f)
      PROVE  UNCHANGED <<schemas, reply>>
  BY <1>6 DEF FindCompiled, StartCompile, CheckField
<1>7. CASE UNCHANGED vars
  BY <1>7 DEF vars, Promised!vars
<1>8. CASE Next
  BY <1>1, <1>2, <1>3, <1>4, <1>5, <1>6, <1>8 DEF Next, Call, Promised!vars
<1> QED BY <1>7, <1>8

(* The registry keeps the promises of DtoValidator for any schemas, inputs *)
(* and number of threads.                                                  *)
THEOREM Implements == Spec => ImplementsDtoValidator
<1>1. Init => Promised!Init
  BY DEF Init, Promised!Init
<1>2. IInv /\ [Next]_vars => [Promised!Next]_Promised!vars
  BY StepImplements
<1> QED BY <1>1, <1>2, Invariant, PTL DEF Spec, ImplementsDtoValidator, Promised!Spec
============================================================================
