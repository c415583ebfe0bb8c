SPECIFICATION Spec
CONSTANTS
  home = home
  office = office
  phone = phone
  desktop = desktop
  mobile = mobile
  Browser = {home, office, phone}
  UserAgent <- MCUserAgent
  MaxSessions = 1
  IdleTimeout = 2
  AccessTTL = 3
  RefreshTTL = 3
  ReuseWindow = 2
  KeepRevoked = 1
  NoAgent = NoAgent
  MaxIds = 3
  MaxDevices = 1
  MaxLogins = 1
  MaxTime = 4
  MaxVersion = 1
INVARIANTS
  TypeOK
  SessionsWithinLimit
PROPERTIES
  GhostsOnlyByLogin
  CallerStaysIn
  RenewalEndsForAReason
SYMMETRY Symmetry
CHECK_DEADLOCK FALSE
