CONSTANTS
  Names = {n1, n2}
SPECIFICATION Spec
INVARIANT DefaultModeHonoursApi
