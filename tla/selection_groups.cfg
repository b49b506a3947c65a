CONSTANTS
  Candidate <- Candidates
  Deleted <- Deletions
  File <- OneFile
  Lo <- Starts
  Hi <- Ends
  Role <- Roles
  Eligible <- Constructs
  Input <- Comparisons
SPECIFICATION Spec
CHECK_DEADLOCK FALSE
INVARIANTS NothingTwice RejectedForBetter ReportIsSettled
