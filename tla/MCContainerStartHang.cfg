CONSTANT Cfgs <- MCCfgs
SPECIFICATION Spec
PROPERTY AgentDoneMeansExit
\* The container process exits: that is where every behaviour ends.
CHECK_DEADLOCK FALSE
