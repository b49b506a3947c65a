CONSTANTS
  Candidate <- Candidates
  Deleted <- Deletions
  File <- OneFile
  Lo <- Starts
  Hi <- Ends
  Role <- Roles
  Eligible = {}
  Parent <- Parents
  Ordinal <- Ordinals
  Region <- Regions
  Comparisons <- Registries
SPECIFICATION SiblingSpec
CHECK_DEADLOCK FALSE
INVARIANTS OccurrencesKept ResolvedOnEvidence ReportedOnceTogether
