\* Two requests at once, up to three in all (one more where companies and their
\* stores are concerned, one less in the catalogue); three rows in a listing.
SPECIFICATION Spec
CONSTANTS
  Slot = {s1, s2}
  MaxRequests = 3
  MaxOverlapping = 2
  NullMatchesUnset = TRUE
  Company = {old, new}
  Legacy = {old}
  Old = old
  New = new
  User = {u1, u2}
  First = u1
  Password = {p1, p2}
  Serial = {d1, d2}
  Code = {k1, k2}
  GivenCount = {0}
  Days = {7}
  CategoryName = {"a", "b", "c"}
  Finest = 2
  Price = {1, 4}
  Stock = {1}
  Parts = {2}
  MaxOversold = 1
  Email = {e1, e2}
  Phone = {n1, n2}
  Key = {1, 2, 3}
  Limit = {0, 2}
  MaxRows = 3
  MaxChanges = 2
  MaxWrites = 2
SYMMETRY Slots
CHECK_DEADLOCK FALSE
INVARIANTS
  TypeOK
  OneMainStore
  MainStoreKept
  FinalHasAdmin
  MigrationCovers
  OneMembership
  MemberHasRole
  StoreIsOwn
  StrandedByFailure
  EverybodyAssigned
  DeadLinksStayDead
  OneResetLink
  CountCoversTokens
  TokensSentOnce
  NothingEmpty
  PricesAreOfStock
  CustomerIsThere
  SignaturesKept
  DatedByOwner
  WalkShowsEveryRow
  NoRowTwice
  StatsAddUp
