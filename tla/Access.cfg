SPECIFICATION AccessSpec
CONSTANTS
  Never = Never
  Wallets = {w1, w2}
  w1 = w1
  w2 = w2
  Keys = {k1, k2, k3}
  MaxActiveKeys = 2
  Clients = {c1}
  Ids = {i1, i2}
  Tokens = {t1, t2}
  Endpoints = {"challenge", "verify", "member-key", "revoke-all"}
  Limit <- MCLimit
  Window = 2
  Retention = 2
  SweepInterval = 2
  SweepBatch = 1
  ChallengeLife = 1
  SessionLife = 2
  MaxTime = 4
  ByteLimit = 9
  DepthLimit = 2
  WireMax = 1
  Frames <- MCFrames
  MaxChoices = 2
  HeaderId = "h"
  MaxTokens = 2
  MaxFrames = 4
  Blank = Blank
  Reviewed <- MCReviewed
  Overrides <- MCOverrides
  Settings <- MCSettings
  Reports <- MCReports
  ReportMax = 5
  Asks = {Unknown, 1, 2, 3, 4, 5}
  Inputs = {1, 2}
  Copies = 2
  Unknown = Unknown
SYMMETRY Names
CHECK_DEADLOCK FALSE
INVARIANTS SignInsAreOneTime RateWindowKept ActiveKeysBounded DepthGuardSound FramesSettleOnce LimitsOnlyTighten
PROPERTIES SweepsSpareTheLiving
