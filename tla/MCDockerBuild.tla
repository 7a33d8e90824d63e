---------------------------- MODULE MCDockerBuild ----------------------------
(* A package spec with a plain file, a component spec file to expand and   *)
(* an optional file, and two additional tags.                              *)
EXTENDS DockerBuild

MCFiles == << [expandSpec |-> FALSE, skipOnMissing |-> FALSE],
              [expandSpec |-> TRUE,  skipOnMissing |-> FALSE],
              [expandSpec |-> FALSE, skipOnMissing |-> TRUE] >>
MCExtraTags == <<"extra1", "extra2">>
=============================================================================
