SPECIFICATION SessionsSpec
CONSTANTS
  Accounts = {m, s}
  Supers = {s}
  Browsers = {b1, b2}
  Office = Office
  NoAccount = NoAccount
  MaxPerUser = 2
  MaxPerAddress = 2
  Window = 2
  RequireOtp = FALSE
  MaxChanges = 1
  Watched = {m}
  tee = tee
  Items = {tee}
  MaxItemQty = 1
  MaxTaps = 2
  MaxTokens = 3
  MaxCalls = 1
  MaxBreaks = 2
SYMMETRY Symmetry
INVARIANTS
  ConsoleTypeOK
  GuessesBounded
  LockoutIsFixed
  EnrolledNeedsToken
  AppTypeOK
  OneOrderPerTap
