\* Two tokens and none, two sockets alive together, the default limit of failures.
SPECIFICATION FairSpec
CONSTANTS
  Token = {t1, t2}
  NoToken = none
  MaxFailures = 12
  MaxChains = 2
PROPERTIES
  RightTokenConnects
  StaleTokenGivesUp
