\* Migration with failing moves: every name the collision search derives is
\* a base followed by positive suffixes.
CONSTANTS
  foo = foo
  bar = bar
  SourceNames <- MCSourceNames
  DestNames <- MCDestNames
  MoveFaults = TRUE
  Old = Old
SPECIFICATION Spec
INVARIANT TypeOK
\* The engine stops: every entry moved (done) or a move failed.
CHECK_DEADLOCK FALSE
