SPECIFICATION Spec
CONSTANTS
  MaxCmd = 1
  Scripts <- OneReboot
  MaxTroubles = 1
INVARIANT RebootOnce
