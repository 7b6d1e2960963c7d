------------------------ MODULE MCScratchDeployment ------------------------
(***************************************************************************)
(* Configurations for the deployment runs: what the defaults and the        *)
(* environment may give beforehand.                                         *)
(***************************************************************************)
EXTENDS ScratchDeployment

Configuration(depositContract, gateSeal, predefinedDSM, baseUri, miniMe) ==
  [depositContract |-> depositContract, gateSeal |-> gateSeal,
   predefinedDSM |-> predefinedDSM, baseUri |-> baseUri, miniMe |-> miniMe]

(* Every value of every choice, and every pair of choices of two values. *)
MCConfigs ==
  {Configuration(TRUE, "factory", FALSE, TRUE, FALSE),
   Configuration(FALSE, "none", TRUE, FALSE, TRUE),
   Configuration(FALSE, "given", FALSE, TRUE, TRUE),
   Configuration(TRUE, "given", TRUE, FALSE, FALSE),
   Configuration(TRUE, "none", FALSE, FALSE, TRUE),
   Configuration(FALSE, "factory", TRUE, TRUE, FALSE)}

=============================================================================
