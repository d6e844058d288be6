-------------------------- MODULE MCDeploymentHealth --------------------------
(* A deployment over the fork of MCBlockTree.                              *)
EXTENDS DeploymentHealth, MCBlockTree

MCErrors == {"a2", "b3"}

MCCreates == {"a1", "a3", "b2"}

=============================================================================
