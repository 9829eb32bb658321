\* mod_avmd driven by the dialplan apps, with API configuration commands and RELOADXML.
CONSTANTS
  b1 = b1
  b2 = b2
  nobug = nobug
  Bugs <- MC_Bugs
  NoBug <- nobug
  XmlFiles <- MC_XmlFiles
  AppArgs <- MC_AppArgs
  Dir = "out"
  MediaSet = TRUE
  ApiCmds = {"reload", "load_in", "set_in", "set_out", "set_default"}
  AppCmds = {"avmd_start", "avmd_stop", "avmd"}
  XmlEvents = TRUE
  AllocMayFail = TRUE
  AddMayFail = TRUE
SPECIFICATION Spec
INVARIANTS
  QuiescentConsistency
PROPERTIES
  GlobalsReleased
