\* Filters of up to four rules, lines of up to six characters and rows of up to
\* three values, three instances of Cryptography.
CONSTANTS
  i1 = i1
  i2 = i2
  i3 = i3
  t1 = t1
  NRules = 4
  Heads <- SomeHeads
  MaxColumns = 3
  MaxValue = 2
  MaxLine = 6
  White = {"blank"}
  Matched = {"sep"}
  Instances = {i1, i2, i3}
  Callers = {t1}
  None = None
SPECIFICATION HelpersSpec
INVARIANTS
  QueryTypeOK
  RowsTellTheirGroup
  TableIsComplete
  FlatInDocumentOrder
  CsvTypeOK
  CutsOutsideText
  ReadsBack
  ParsersAgree
  CryptoTypeOK
  StaticInSync
  RoundTrip
