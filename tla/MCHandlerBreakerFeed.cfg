CONSTANTS
  Requests = {r1, r2}
  Attempts = 3
  MinRequest = 2
  Success = 80
  Protocol = "HTTP"
SYMMETRY MCSymmetry
SPECIFICATION Spec
INVARIANT BreakerFedOnlyByRetries
