SPECIFICATION RestartSpec
CONSTANTS
  SkillNames <- MCSkillNames
  Directories <- MCDirectories
  Servers = {s1}
  Drivers = {"local", "docker", "k8s"}
  PolicyFiles = {"no file"}
  InCluster = {TRUE}
  StoreMayFail = FALSE
  MaySignal = TRUE
  MayKill = FALSE
PROPERTIES
  RestartServes
CHECK_DEADLOCK FALSE
