SPECIFICATION Spec
CONSTANTS
  Document <- MCDocument
  Fragments <- MCFragments
  Nesting <- MCNesting
  EndsInText <- MCEndsInText
  MaxDepth = 2
  MaxFragments = 3
  Page <- MCPage
  TitleLimit = 1
  HeadingLimit = 2
INVARIANTS TextTypeOK CollectedExactly VisibleTextKept TextIsNormal ElementsFound
PROPERTIES RemovalEnds
