CONSTANT Cfgs <- MCCfgs
SPECIFICATION Spec
INVARIANT FleetServerEnrollHasServiceToken
\* The container process exits: that is where every behaviour ends.
CHECK_DEADLOCK FALSE
