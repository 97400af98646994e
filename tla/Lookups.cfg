\* Edits between any two queries of a request; queries may fail. Transfers of one zone.
CONSTANTS
  Label <- Labels
  Names <- AllNames
  ZoneNames <- Chain
  Untyped <- TypeLess
  Transfers <- SomeTransfers
  Invalid = {"x--y.a."}
SPECIFICATION BothSpec
INVARIANTS BestZone AnswersTransferred
PROPERTY RequestsEnd
