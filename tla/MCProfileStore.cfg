SPECIFICATION Spec
CONSTANTS
  None = None
  Converted = Converted
  urlShort = urlShort
  urlLong = urlLong
  Ops = {o1, o2}
  Ids = {p1, p2, p3}
  Urls = {urlShort, urlLong}
  Contains <- MCContains
  Contents = {good, bad}
  Valid = {good}
  Services = {"singbox", "clash"}
SYMMETRY Symmetry
INVARIANTS
  AtMostOneActive
  RowHasFile
  NoTempLeft
  ActiveUnlessDeleted
  NativeSaves
PROPERTIES
  NoResurrection
  NothingAdded
CHECK_DEADLOCK FALSE
