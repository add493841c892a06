\* Two deployables heated twice; two modes.
SPECIFICATION Spec
CONSTANTS
  Deployables = 2
  Attempts = 2
  Modes = {"A", "G"}
  MaxBoots = 2
INVARIANT RebootsToMode
