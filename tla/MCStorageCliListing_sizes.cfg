\* A file must be listed with its exact size (spec, tree walker test); the
\* (uint32_t) cast prints sizes of 4 GiB and more modulo 2^32.
CONSTANTS
  MaxEntries = 4
  Sizes <- MCSizes
  SizeWidth = 2
  OpenFaults = FALSE
  ReadFaults = FALSE
SPECIFICATION Spec
INVARIANT ListedSizesExact
\* The handler returns.
CHECK_DEADLOCK FALSE
