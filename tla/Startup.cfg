SPECIFICATION Spec
CONSTANTS
  ceo = ceo
  dev = dev
  ops = ops
  m1 = m1
  m2 = m2
  u1 = u1
  s1 = s1
  s2 = s2
  k1 = k1
  k2 = k2
  k3 = k3
  NoURL = NoURL
  NoSquad = NoSquad
  NoKey = NoKey
  Personas <- MCPersonas
  Models = {m1, m2}
  URLs = {u1}
  SquadIds = {s1, s2}
  Keys <- MCKeys
  Files <- MCFiles
  Environments <- MCEnvironments
CHECK_DEADLOCK FALSE
INVARIANTS
  PersonaServedUnlessShared
  SquadsAgreeUnlessOverwritten
