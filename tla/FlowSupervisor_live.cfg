CONSTANTS
  Flow = {f1}
  Ver = {v1}
  Rejected = {}
  NoVer = NoVer
  NoFile = NoFile
  Pid = {p1, p2}
  PipeCap = 1
  NoFlow = NoFlow
  NoPid = NoPid
  NoReq = NoReq
SPECIFICATION LiveSpec
PROPERTIES
  SettlesOnArtifact
  KeepsRespawning
  HaltIsServed
