SPECIFICATION FairSpec
CONSTANTS
  Session = {s1, s2, s3}
  MaxCommit = 2
  MaxStmt = 4
  Allow = {"syncfails", "filemut"}
CHECK_DEADLOCK FALSE
INVARIANTS NoneForgotten ShownIsDurable AnsweredIsShown
PROPERTIES FirstComeFirstServed NeverBackwards TakeReturns
