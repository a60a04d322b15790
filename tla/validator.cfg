SPECIFICATION Spec
CONSTANTS
  t1 = t1
  t2 = t2
  name = name
  age = age
  word = word
  broken = broken
  email = email
  EmailRegex = EmailRegex
  Numbers <- AllNumbers
  F64 <- ThreeBits
  Names = {dto}
  Fields = {name, age}
  Patterns = {word, broken, email}
  BadPatterns = {broken}
  Seed = email
  Schemas <- AllSchemas
  Inputs <- AllInputs
  Malformed = Malformed
  Absent = Absent
  None = None
  Threads = {t1, t2, worker}
  PhpThreads = {t1, t2}
SYMMETRY Symmetry
INVARIANTS
  TypeOK
  StoredSchemasAreCompiled
  CompiledOnce
  AcceptedDataIsClean
  NumbersInRangePass
  LengthRulesErrOneWay
PROPERTIES
  ImplementsDtoValidator
