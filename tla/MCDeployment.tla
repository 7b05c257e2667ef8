---------------------------- MODULE MCDeployment ----------------------------
(***************************************************************************)
(* A deploy config for TLC with a step of each kind; a helm chart followed *)
(* by an apply is what data/mariadb-operator/v0-30-0 deploys.              *)
(***************************************************************************)
EXTENDS Deployment

MCSteps == << "apply", "helm", "wait", "apply" >>
=============================================================================
