---------------------------- MODULE MCKibanaFetch ----------------------------
(* Two policies (the default one and a Fleet Server one), one enrollment *)
(* key for each, and the setups the container path can pass.            *)
EXTENDS KibanaFetch

MCPolicies ==
    << [id |-> "p1", name |-> "Default policy", isDefault |-> TRUE,  isDefaultFleetServer |-> FALSE],
       [id |-> "p2", name |-> "Fleet Server",   isDefault |-> FALSE, isDefaultFleetServer |-> TRUE] >>

MCKeys ==
    << [id |-> "k1", name |-> [base |-> "Default"], policyID |-> "p1", apiKey |-> "s1"],
       [id |-> "k2", name |-> [base |-> "Default"], policyID |-> "p2", apiKey |-> "s2"] >>

\* runContainerCmd fetches a token only when Fleet Server is not enabled.
MCCfgs ==
    [fleetServer: {FALSE}, policyID: {Empty},
     policyName: {Empty, "Fleet Server", "Missing"}, tokenName: {"Default", "Missing"}]

=============================================================================
