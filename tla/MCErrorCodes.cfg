SPECIFICATION FairSpec
CONSTANTS
  Threads   = {t1, t2}
  Capacity  = 3
  user      = user
  invented  = invented
  Values    <- MCValues
  UserCodes <- MCUserCodes
  Unset     = Unset
  NoCode    = NoCode
INVARIANTS
  TypeOK
  CodeRoundTrips
  OwnCodeComesBack
  NamedCodeStaysNamed
PROPERTIES
  LastUsedCoversAll
  StepsRunOut
  ConversionEnds
