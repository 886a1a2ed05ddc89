SPECIFICATION Spec
CONSTANTS
  Requests = {r1, r2, r3}
  u1 = u1
  u2 = u2
  u3 = u3
  plain = plain
  formal = formal
  analyst = analyst
  lead = lead
  pg1 = pg1
  pg2 = pg2
  Users = {u1, u2, u3}
  Prompts = {p1}
  Datasets = {d1}
  Styles = {plain, formal}
  Personas = {analyst, lead}
  Servers = {pg1, pg2}
  StyleOf <- MCStyleOf
  PersonaOf <- MCPersonaOf
  ServerOf <- MCServerOf
  NoPersona = NoPersona
  NoQuery = NoQuery
  NoResponse = NoResponse
  Refused = Refused
INVARIANT OwnTagAlways
