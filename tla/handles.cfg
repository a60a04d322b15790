SPECIFICATION Spec
CONSTANTS
  get = get
  post = post
  users = users
  me = me
  other = other
  h1 = h1
  h2 = h2
  h3 = h3
  Methods = {get, post}
  Segments = {users, me, other}
  Wild = Wild
  Handlers = {h1, h2, h3}
  Bytes = {"ok", "not_allowed", "not_found", "valid", "errors", Nul}
  Nul = Nul
  Routers = {r1, r2}
  Registries = {v1}
  Servers = {s1, s2}
  Tasks = {k1}
  Manifests <- AllManifests
  Paths <- AllPaths
  Cap = 3
  Sizes = {1, 2, 3}
  None = None
SYMMETRY Symmetry
CHECK_DEADLOCK FALSE
INVARIANTS
  TypeOK
  CountsAreExact
  NothingUsedAfterFree
  RoutesMatchManifest
  TextIsWholeOrFull
