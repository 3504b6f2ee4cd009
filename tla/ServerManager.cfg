\* Users and accidents, in any order, around one Manager.
SPECIFICATION MCSpec
CONSTANTS
  p1 = p1
  r1 = r1
  Ports = {p1, p2}
  Roots = {r1, r2}
  Models = {m1}
  Components = {c1}
  ModelComponents <- MCModelComponents
  Preload = m1
  Servers = {s1, s2}
  Installers = {i1, i2}
  Tokens = {t1, t2}
  NoServer = NoServer
  NoRoot = NoRoot
  NoComponent = NoComponent
  NoToken = NoToken
  MaxCommands = 4
PROPERTIES
  NeverAbandoned
  OnlyHeldIsAsked
  ModelsKept
  SwitchIsVerified
  ExitEnds
CHECK_DEADLOCK FALSE
