-------------------------- MODULE MCRuntimeSelection --------------------------
(* RuntimeSelection on the three drivers of the repository, scaled down, and *)
(* one that reports no capacity.                                             *)
EXTENDS RuntimeSelection

MCRuntimes == {"local", "docker", "k8s", "mock"}
MCCapacity == [r \in MCRuntimes |->
  CASE r = "local" -> 2 [] r = "docker" -> 1 [] r = "k8s" -> 1 [] OTHER -> 0]

\* The local driver passes its limit by one, the stub has no agents.
MCCeiling == [r \in MCRuntimes |->
  CASE r = "local" -> 3 [] r = "k8s" -> 2 [] OTHER -> 0]
=============================================================================
