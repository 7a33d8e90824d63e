-------------------------- MODULE MCContainerStart --------------------------
EXTENDS ContainerStart

\* Every configuration the start-up path tells apart.
MCCfgs == [cloud: BOOLEAN, apmPath: BOOLEAN, configFiles: BOOLEAN,
           fleetServer: BOOLEAN,
           svc: {"token", "kbToken", "esPath", "kbPath", "userpass", "none"},
           enrollToken: BOOLEAN, url: BOOLEAN]
=============================================================================
