\* Two API threads calling kz_uuid_setvar, kz_uuid_setvar_multi and kz_http_put on one channel that may hang up.
CONSTANTS
  t1 = t1
  t2 = t2
  Threads <- MC_Threads
  Names = {"a", "e"}
  EffNames = {"e"}
  Vals = {1}
  Uuids = {"chan", "other"}
  MaxArgs = 1
  MaxItems = 1
  Unset = Unset
  NoEq = NoEq
  Junk = Junk
  Apis = {"set", "multi", "put"}
SPECIFICATION Spec
INVARIANTS
  TypeOK
  EventsInSync
PROPERTIES
  HangupCompletes
