CONSTANTS
  Handlers = {h1, h2}
  Gateways = {g1, g2}
SPECIFICATION Spec
PROPERTY EveryRequestAnswered
CHECK_DEADLOCK FALSE
