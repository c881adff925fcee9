\* Two handlers, two prompts, a session registered twice.
SPECIFICATION Spec
CONSTANTS
  Handler = {h1, h2}
  Prompt = {p1, p2}
  MaxRegs = 2
  MaxTurns = 2
  PingPong = 2
INVARIANTS
  DrivesWithinLimits
  OneInjectionPerPrompt
PROPERTIES
  NeverPingPong
