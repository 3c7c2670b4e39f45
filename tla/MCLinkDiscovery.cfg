SPECIFICATION Spec
CONSTANTS
  Byte <- MCByte
  Page <- MCPage
  Resolved <- MCResolved
  BaseHost = "base"
  MaxLinks = {0, 1, 2, 4}
  LinkCeiling = 3
  Null = Null
INVARIANTS LinksTypeOK ValuesAreAttributes FirstLinksFound
PROPERTIES CallReturns
