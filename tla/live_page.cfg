\* One review with its merged messages, one tab.
CONSTANTS
  MaxItems = 1
  MaxCount = 3
SPECIFICATION FairSpec
INVARIANTS
  PageIsOfItsAddress
  EvidenceIsOfItsMessage
PROPERTIES
  StaleIsNoticed
