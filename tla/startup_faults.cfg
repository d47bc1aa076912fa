SPECIFICATION FairSpec
CONSTANTS
  SkillNames <- MCSkillNames
  Directories <- MCDirectories
  Servers = {s1, s2}
  Drivers = {"local", "docker", "k8s"}
  PolicyFiles = {"good", "bad"}
  InCluster = {TRUE, FALSE}
  StoreMayFail = TRUE
  MaySignal = TRUE
  MayKill = TRUE
INVARIANTS
  TypeOK
  ServingIsReady
  SkillsAreLoaded
PROPERTIES
  SignalStops
