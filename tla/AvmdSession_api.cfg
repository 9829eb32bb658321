\* mod_avmd driven by the API and RELOADXML only: every call under avmd_globals.mutex.
CONSTANTS
  b1 = b1
  b2 = b2
  nobug = nobug
  Bugs <- MC_Bugs
  NoBug <- nobug
  XmlFiles <- MC_XmlFiles
  AppArgs <- MC_AppArgs
  Dir = "out"
  MediaSet = TRUE
  ApiCmds = {"start", "stop", "uuid", "reload", "load_in", "load_out", "set_in", "set_out", "set_default"}
  AppCmds = {}
  XmlEvents = TRUE
  AllocMayFail = TRUE
  AddMayFail = TRUE
SPECIFICATION Spec
INVARIANTS
  TypeOK
PROPERTIES
  SettingsFromCommitted
