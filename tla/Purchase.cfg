SPECIFICATION PurchaseSpec
CONSTANTS
  Parts = {"checkout", "saga", "bag", "zone"}
  v1 = v1
  v2 = v2
  o1 = o1
  o2 = o2
  k1 = k1
  k2 = k2
  x1 = x1
  x2 = x2
  Variants = {v1, v2}
  Checkouts = {k1, x1, x2}
  Orders = {o1}
  NoOrder = NoOrder
  NoCart = NoCart
  Opening <- MCSpareUnit
  MaxLine = 1
  Deltas = {}
  MaxOnHand = 2
  Sweepers = {}
  Releasers = {}
  Workers = {r1, r2}
  OrderLines <- MCOrderLines
  CartOf <- MCCartOf
  SpareOf <- MCGroupSpareOf
  NoLine = NoLine
  MaxAttempts = 1
  MaxCrashes = 1
  shirt = shirt
  cap = cap
  Skus = {shirt, cap}
  Prices = {1, 2}
  Fees = {0, 1}
  OpeningPrice = 1
  OpeningFee = 1
  NoOverride = NoOverride
  Nobody = Nobody
  CartsSent <- MCCarts
  Requests = {r1, r2}
  Confirmers = {r1, r2}
  MaxEdits = 1
  MaxFaults = 1
  tee = tee
  hat = hat
  Wares = {tee, hat}
  Bags <- MCBags
  WarePrices = {1, 2}
  OpeningShop <- MCOpeningShop
  NoAnswer = NoAnswer
  MaxNumber = 4
  MaxShopChanges = 1
  Localities <- MCLocalities
  ZoneFees = {1, 2}
  OpeningZones <- MCOpeningZones
  MaxPicks = 2
  MaxZoneEdits = 1
SYMMETRY Symmetry
INVARIANTS
  PurchaseTypeOK
  OneSalePerOrder
  ReleasedReceiptHoldsNothing
  RefundRestores
  RetiredIsSoldOrExpired
  UnpaidSaleIsReconciled
  ChargedAsOrdered
  MailedOnce
  SummaryShowsItsLines
  ZoneAsShown
\* A checkout that is answered or refused, with its bounds used up, has ended.
CHECK_DEADLOCK FALSE
