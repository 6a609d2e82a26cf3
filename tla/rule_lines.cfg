SPECIFICATION Spec
CONSTANTS
  Tokens <- AnyString
  Capital <- SmallAndCapital
  RecordTypes <- TypesOffered
  IPv4 <- IPv4Words
  IPv6 <- IPv6Words
  RecordForms <- FormsFilledIn
  EditorTexts <- EditorContents
  InitialLists <- ListsAtFirst
INVARIANTS EditorIsStable RoundTrips
PROPERTIES ForeignLinesVerbatim EditorOwnsAllows NoNewDuplicates RowsAreDeletable ActsOnSets
