SPECIFICATION Spec
CONSTANTS
  Requests = {r1, r2}
  analyst = analyst
  plain = plain
  admin = admin
  guest = guest
  intern = intern
  legacy = legacy
  stranger = stranger
  broad = broad
  narrow = narrow
  misspelt = misspelt
  Keys = {analyst, plain, admin, guest, intern, legacy, stranger}
  NoKey = NoKey
  UserKeys = {analyst, plain, admin, guest, intern}
  LegacyKeys = {legacy}
  Personas = {broad, narrow, misspelt, NoPersona}
  NoPersona = NoPersona
  Providers = {"anthropic", "deepseek"}
  FallbackProvider = "anthropic"
  RoleOf <- MCRoleOf
  PersonaOf <- MCPersonaOf
  Provider <- MCProvider
  Allowed <- MCAllowed
  Size <- MCSize
  Excluded <- MCExcluded
  Capacity <- MCCapacity
SYMMETRY Alike
INVARIANTS
  TypeOK
  PersonaTools
  DryRunToolsHiddenUnlessMixed
  OnlyAllowedServed
\* every request is answered
CHECK_DEADLOCK FALSE
