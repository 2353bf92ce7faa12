\* list and tree on a real path, with open and read failures: the listing
\* is the directory, and "Empty" means empty.
CONSTANTS
  MaxEntries = 4
  Sizes <- MCSizes
  SizeWidth = 2
  OpenFaults = TRUE
  ReadFaults = TRUE
SPECIFICATION Spec
INVARIANT TypeOK
INVARIANT ListingFaithful
\* The handler returns.
CHECK_DEADLOCK FALSE
