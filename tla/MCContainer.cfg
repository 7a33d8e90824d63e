CONSTANT Cfgs <- MCCfgs
SPECIFICATION Spec
INVARIANT TypeOK
INVARIANT AgentRunsWithPathsFile
PROPERTY ApmExitEndsContainer
