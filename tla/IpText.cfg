SPECIFICATION Spec
CONSTANTS
  Texts <- MCTexts
  Texts4 <- MCTexts4
  Addresses <- MCAddresses
INVARIANTS
  TypeOK
  ReadsTheMeaning
  RoundTrip
  ReadsWhatPrints4
CHECK_DEADLOCK FALSE
