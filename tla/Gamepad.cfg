SPECIFICATION Spec
CONSTANTS
  SETTLE = 2
  Pressed = {a}
  Released = Released
INVARIANTS
  TypeOK
  AnnouncedAndHeldOff
  HostShowsPad
PROPERTY
  PadIsHeard
