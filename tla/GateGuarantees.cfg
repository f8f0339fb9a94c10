SPECIFICATION PipelineSpec
CONSTANTS
    Pipelines <- MCGuardedPipelines
    MaxItems = 2
INVARIANT GateGuarantees
CHECK_DEADLOCK FALSE
