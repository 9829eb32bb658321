\* avmd_start on the session thread racing "avmd <uuid> start" on the API thread.
CONSTANTS
  b1 = b1
  b2 = b2
  nobug = nobug
  Bugs <- MC_Bugs
  NoBug <- nobug
  XmlFiles <- MC_XmlFiles
  AppArgs <- MC_AppArgs
  Dir = "out"
  MediaSet = TRUE
  ApiCmds = {"start"}
  AppCmds = {"avmd_start"}
  XmlEvents = FALSE
  AllocMayFail = FALSE
  AddMayFail = FALSE
SPECIFICATION Spec
INVARIANT
  QuiescentConsistency
