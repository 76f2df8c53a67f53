----------------------------- MODULE MCDeployment -----------------------------
(***************************************************************************)
(* Instances of Deployment for TLC.                                        *)
(***************************************************************************)
EXTENDS Deployment

(* A sound invocation against a testnet, and others that differ from it in   *)
(* one respect, which the report should warn of or fail for.                 *)
Sound == [config |-> TRUE, localMode |-> "false", deploymentKey |-> TRUE, ownerKey |-> FALSE,
          proxyKey |-> TRUE, simulated |-> FALSE, chainUp |-> TRUE, answers |-> TRUE,
          funded |-> TRUE, manager |-> "diamond", portInUse |-> TRUE, extProxy |-> "up",
          normalProxy |-> "up"]

MCInvocations == {Sound,
    [Sound EXCEPT !.config = FALSE],
    [Sound EXCEPT !.localMode = "unset", !.deploymentKey = FALSE, !.proxyKey = FALSE,
                  !.extProxy = "down", !.normalProxy = "unset"],
    [Sound EXCEPT !.deploymentKey = FALSE, !.proxyKey = FALSE, !.simulated = TRUE],
    [Sound EXCEPT !.chainUp = FALSE],
    [Sound EXCEPT !.answers = FALSE],
    [Sound EXCEPT !.funded = FALSE],
    [Sound EXCEPT !.manager = "zero"],
    [Sound EXCEPT !.manager = "noCode"]}
=============================================================================
