SPECIFICATION Spec
CONSTANTS
  W = 12
  RTPA_DATA_SHARDS = 2
  RTPA_FEC_SHARDS = 2
  OldHost = TRUE
  Reach = 3
  Lead = 2
  Starts = {0, 4}
  Concealed = Concealed
INVARIANTS
  FecBlockState
PROPERTIES
  PlaysOn
  ImplementsPlayout
