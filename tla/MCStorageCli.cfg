\* Every command line over the table, the paths and the argument kinds,
\* one after another, with every answer to the confirmations.
CONSTANTS
  notoken = notoken
  NoToken <- notoken
  OtherVerbs <- MCOtherVerbs
  Answers <- MCAnswers
SPECIFICATION Spec
INVARIANT TypeOK
