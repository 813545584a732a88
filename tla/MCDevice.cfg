SPECIFICATION Spec
CONSTANTS
  Wizard = {w1}
  MaxLeaf = 2
  MaxJwt = 1
  MaxDown = 1
  MaxFault = 1
  NoId = NoId
  TornId = TornId
  Updater = {service, cli}
  Service = service
  MaxVer = 2
  MaxPub = 2
  MaxStart = 1
  NoFile = NoFile
  Torn = Torn
CHECK_DEADLOCK FALSE
INVARIANTS OrphanOnlyByRace FileIsCurrent ExecutableIsSound
PROPERTIES EnrolmentEnds UpdateLands
