CONSTANTS
  Flow = {f1}
  Ver = {v1, v2, bad}
  Rejected = {bad}
  NoVer = NoVer
  NoFile = NoFile
  Pid = {p1, p2}
  PipeCap = 1
  NoFlow = NoFlow
  NoPid = NoPid
  NoReq = NoReq
SPECIFICATION Spec
SYMMETRY Symmetry
INVARIANTS
  TypeOK
  OneRuntime
  HaltFences
  RuntimeRunsArtifact
