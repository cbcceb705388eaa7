SPECIFICATION Spec
CONSTANTS
  p1 = p1
  p2 = p2
  usd = usd
  eur = eur
  Unsupported = Unsupported
  billing = billing
  ops = ops
  okafor = okafor
  Stranger = Stranger
  ip1 = ip1
  ip2 = ip2
  PaymentIds <- TwoIds
  Currencies <- TwoCurrencies
  MaxAmount = 2
  MaxCaptures = 3
  Accounts <- Staff
  MfaEnrolled <- Enrolled
  PerIpLimit = 3
  AuthWindow = 6
  Limits <- TwoLimits
  Lockouts <- SomeLockouts
  Sources <- Campaign
  Hits <- Breached
  Guesses = 3
  Interval = 2
  MaxTime = 7
  MaxAttempts = 5
INVARIANT CapturedOnce
CHECK_DEADLOCK FALSE
