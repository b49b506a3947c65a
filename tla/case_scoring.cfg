CONSTANTS
    PairSets <- MCPairSets
    Registries <- MCRegistries
    Damaged <- MCDamaged
    Repaired <- MCRepaired
    Shown <- MCShown
    Regions <- MCRegions
    Payload <- MCPayload
    Wrapper = "wrapper"
    None = None
    MaxStarts = 2
SPECIFICATION ScoringSpec
CHECK_DEADLOCK FALSE
INVARIANTS CasesJudgedApart VerdictIsEarned
