SPECIFICATION Spec
CONSTANTS
    Pipelines <- MCPipelines
    Lists <- MCLists
    Pool = 2
    MaxRuns = 2
INVARIANTS EveryKeyOnce PlanFits InputsArrive NoWaitCycle AsFromScratch OnlyWhatChanged CascadeReaches DryRunAgrees
CHECK_DEADLOCK FALSE
