CONSTANTS
  NsNames = {n1}
  n1 = n1
SPECIFICATION Spec
INVARIANTS ChainFollowsDeclaration UpstreamOnlyIfAuthorized
CHECK_DEADLOCK FALSE
