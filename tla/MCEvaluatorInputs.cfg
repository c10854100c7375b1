CONSTANTS
    None = None
    Answers <- MCAnswers
    Fields <- MCFields
    Checks <- MCChecks
    MaxChecks = 2
    Policies <- MCPolicies
SPECIFICATION InputSpec
INVARIANTS
    AggregationAsDocumented
    ReleaseNeedsMandate
PROPERTY
    DroppingFieldsNeverPasses
CHECK_DEADLOCK FALSE
