------------------------- MODULE MCIntegrationWorker -------------------------
(* IntegrationWorker on small instances: whose the configurations are.     *)
EXTENDS IntegrationWorker, TLC

CONSTANTS
  Spare,      \* a second configuration for the provider of another one
  Alone       \* the only configuration of its workspace

Providers ==
  [c \in Config |-> IF c = Spare THEN CHOOSE d \in Config \ {Alone} : d # Spare ELSE c]

\* One meeting is of the workspace of Alone, the others of a second workspace.
Workspaces ==
  LET first == CHOOSE m \in Meeting : TRUE
  IN  [m \in Meeting |-> IF m = first THEN Config \intersect {Alone} ELSE Config \ {Alone}]
=============================================================================
