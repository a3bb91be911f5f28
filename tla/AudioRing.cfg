SPECIFICATION RingSpec
CONSTANTS
  CIRCULAR_BUFFER_SIZE = 4
  Sample = {s1, s2}
  Garbage = Garbage
  Silence = Silence
INVARIANTS
  RingTypeOK
  ChecksStayTrue
  LiveSlotsWhole
  ReleasesSamples
PROPERTY
  ImplementsFifo
