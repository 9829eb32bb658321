---------------------------- MODULE AvmdSession ----------------------------
(***************************************************************************)
(* mod_avmd (src/mod/applications/mod_avmd/mod_avmd.c): starting and      *)
(* stopping voicemail-beep detection on a channel, and changing the       *)
(* module's global settings.  Three threads share the channel's "_avmd_"  *)
(* private, its list of media bugs and avmd_globals:                      *)
(*   "sess"  the channel's session thread, running the dialplan apps      *)
(*           avmd_start, avmd_stop and the deprecated avmd;               *)
(*   "api"   a thread running the avmd API command (event socket, lua);   *)
(*   "xml"   the event thread delivering RELOADXML to the module.         *)
(* One channel is modelled.  A media bug is a model value of Bugs, and    *)
(* the avmd_session_t it carries is identified with it.  The settings     *)
(* keep the fields a start depends on.  The media bug callback and the    *)
(* detector it runs (avmd_process) change no state modelled here.         *)
(***************************************************************************)
EXTENDS Naturals, Sequences

CONSTANTS
    Bugs,          \* media bugs that can exist at once (a bound)
    NoBug,         \* NULL
    Dir,           \* switch_channel_direction(channel): "in" or "out"
    MediaSet,      \* switch_channel_test_flag(channel, CF_MEDIA_SET)
    XmlFiles,      \* contents avmd.conf may have when it is (re)loaded
    ApiCmds,       \* avmd API commands that are issued
    AppCmds,       \* dialplan apps run on the channel
    AppArgs,       \* data avmd_start may be given, as parsed
    XmlEvents,     \* whether RELOADXML events are delivered
    AllocMayFail,  \* session allocation or init_avmd_session_data may fail
    AddMayFail     \* switch_core_media_bug_add may fail

Threads == {"sess", "api", "xml"}
None == "none"

\* struct avmd_settings, the fields that decide whether a start succeeds
Settings == [in : {0, 1}, out : {0, 1}, rep : {0, 1}, fm : {0, 1},
             skip : 0 .. 65535]

\* One <param> of avmd.conf, or one assignment of an API "set": field f
\* takes v when the value parses (ok).
Param == [f : {"in", "out", "rep", "fm", "skip"}, v : 0 .. 65535,
          ok : BOOLEAN]

Labels == {"idle", "write", "end", "uuid", "add", "publish", "fire",
           "stop_clear", "stop_remove", "stop_fire", "ret"}

VARIABLES
    gmutex,     \* avmd_globals.mutex: the thread holding it, or None
    gs,         \* avmd_globals.settings
    committed,  \* the settings as the last writer left them when it ended
    priv,       \* switch_channel_get_private(channel, "_avmd_")
    bugs,       \* the avmd media bugs attached to the channel
    ev,         \* per bug, the avmd::start and avmd::stop events fired
    pc,         \* per thread, where it is in its current call
    loc,        \* per thread, the locals of its current call
    ub,         \* undefined behaviour the calls have run into
    module      \* the module: loaded (up), and whether the arc-cosine
                \*   table of avmd_fast_acosf is mapped

vars == <<gmutex, gs, committed, priv, bugs, ev, pc, loc, ub, module>>

Idle == [cmd |-> None, bug |-> NoBug, todo |-> <<>>, held |-> FALSE]

\* memset(&avmd_globals, 0, sizeof(avmd_globals)) in mod_avmd_load
Zero == [in |-> 0, out |-> 0, rep |-> 0, fm |-> 0, skip |-> 0]

P(f, v) == [f |-> f, v |-> v, ok |-> TRUE]

\* The assignments of avmd_set_xml_inbound_configuration,
\* avmd_set_xml_outbound_configuration and
\* avmd_set_xml_default_configuration, in the order they are made.
InboundWrites == <<P("in", 1), P("out", 0)>>
OutboundWrites == <<P("in", 0), P("out", 1)>>
DefaultWrites ==
    <<P("rep", 1), P("fm", 0), P("skip", 15), P("in", 0), P("out", 1)>>

WriteParamIntoIn(s, p) ==
    IF p.f = "skip" THEN [s EXCEPT !.in = p.v] ELSE [s EXCEPT ![p.f] = p.v]

\* One branch of the strcmp chain: the named field takes the value.
WriteParam(s, p) == [s EXCEPT ![p.f] = p.v]

\* avmd_load_xml_configuration's loop over the <param>s: a value that does
\* not parse ends it (goto done), with the earlier params applied.
RECURSIVE Loaded(_, _)
Loaded(s, ps) ==
    IF ps = <<>> THEN [set |-> s, ok |-> TRUE]
    ELSE IF ~Head(ps).ok THEN [set |-> s, ok |-> FALSE]
    ELSE Loaded(WriteParam(s, Head(ps)), Tail(ps))

\* mod_avmd_load: the XML configuration, or the defaults when it fails.
LoadedAtStart(f) ==
    LET r == Loaded(Zero, f.params)
    IN  IF f.exists /\ r.ok THEN r.set ELSE Loaded(r.set, DefaultWrites).set

\* The direction checks of avmd_start_app and avmd_api_main: a start goes
\* on only when they leave a non-empty set of media bug flags.
DirectionOK(s) ==
    /\ s.out = 1 => Dir = "out"
    /\ s.in = 1 => Dir = "in"
    /\ s.in = 1 \/ s.out = 1
    /\ s.out = 1 => MediaSet

\* avmd_parse_cmd_data: the data's option=value pairs applied to a copy,
\* committed only when every one parses.
Parsed(s, a) == IF a.ok THEN Loaded(s, a.w) ELSE [set |-> s, ok |-> FALSE]

\* avmd_start_app called with NULL data: zstr(cmd_data) parses as success.
NullArg == [ok |-> TRUE, w |-> <<>>]

\* Bug identities no thread, list or private refers to.
FreeBugs == Bugs \ (bugs \cup {priv} \cup {loc[t].bug : t \in Threads})

Goto(t, l) == pc' = [pc EXCEPT ![t] = l]

BeginWrites(t, c, ps) ==
    /\ loc' = [loc EXCEPT ![t] = [@ EXCEPT !.cmd = c, !.todo = ps]]
    /\ Goto(t, IF ps = <<>> THEN "end" ELSE "write")

\* switch_core_session_alloc and init_avmd_session_data: a new session,
\* whose settings are a copy of avmd_globals.settings.
NewSession(t, b) ==
    /\ loc' = [loc EXCEPT ![t] = [@ EXCEPT !.bug = b, !.held = (t = "sess")]]
    /\ ev' = [ev EXCEPT ![b] = <<>>]

(***************************************************************************)
(* The API thread.  avmd_api_main holds avmd_globals.mutex from its first *)
(* line to its last, and calls the configuration functions with a NULL    *)
(* mutex.                                                                 *)
(***************************************************************************)
Extra(c) ==
    IF c = "load_in" THEN InboundWrites
    ELSE IF c = "load_out" THEN OutboundWrites ELSE <<>>

SetWrites(c) ==
    CASE c = "set_in" -> InboundWrites
      [] c = "set_out" -> OutboundWrites
      [] c = "set_default" -> DefaultWrites

\* avmd_api_main up to its dispatch on argv[0]: reload and load read
\* avmd.conf (a missing file writes nothing and fails, and a failed load
\* skips the inbound/outbound assignments); set makes its assignments;
\* anything else is a uuid with a command.
ApiCall(c) ==
    /\ module.up
    /\ pc["api"] = "idle"
    /\ gmutex = None
    /\ gmutex' = "api"
    /\ \/ /\ c \in {"reload", "load_in", "load_out"}
          /\ \E f \in XmlFiles :
                BeginWrites("api", c, IF f.exists THEN f.params \o Extra(c)
                                      ELSE <<>>)
       \/ /\ c \in {"set_in", "set_out", "set_default"}
          /\ BeginWrites("api", c, SetWrites(c))
       \/ /\ c \in {"start", "stop", "uuid"}
          /\ loc' = [loc EXCEPT !["api"].cmd = c]
          /\ Goto("api", "uuid")
    /\ UNCHANGED <<module, gs, committed, priv, bugs, ev, ub>>

\* avmd_api_main on "<uuid> <command>" ("uuid" is the uuid with no
\* command): the "_avmd_" private, then stop, already started, or the
\* direction checks and a new session copying avmd_globals.settings.
ApiUuid ==
    /\ pc["api"] = "uuid"
    /\ LET c == loc["api"].cmd IN
       \/ /\ c = "uuid"
          /\ ub' = ub \cup {"null_command"}
          /\ Goto("api", "end")
          /\ UNCHANGED <<loc, ev>>
       \/ /\ c = "stop" /\ priv # NoBug
          /\ loc' = [loc EXCEPT !["api"].bug = priv]
          /\ Goto("api", "stop_clear")
          /\ UNCHANGED <<ub, ev>>
       \/ /\ \/ c = "start" /\ priv # NoBug
             \/ c = "stop" /\ priv = NoBug
             \/ c = "start" /\ priv = NoBug /\ ~DirectionOK(gs)
             \/ c = "start" /\ priv = NoBug /\ AllocMayFail
          /\ Goto("api", "end")
          /\ UNCHANGED <<loc, ub, ev>>
       \/ /\ c = "start" /\ priv = NoBug /\ DirectionOK(gs)
          /\ \E b \in FreeBugs : NewSession("api", b)
          /\ Goto("api", "add")
          /\ UNCHANGED ub
    /\ UNCHANGED <<module, gmutex, gs, committed, priv, bugs>>

\* avmd_api_main 1416: avmd::stop after the bug is removed.
ApiStopFire ==
    /\ pc["api"] = "stop_fire"
    /\ ev' = [ev EXCEPT ![loc["api"].bug] = Append(@, "stop")]
    /\ Goto("api", "end")
    /\ UNCHANGED <<module, gmutex, gs, committed, priv, bugs, loc, ub>>

(***************************************************************************)
(* The RELOADXML thread.                                                  *)
(***************************************************************************)
XmlReloadNullMutex == FALSE

\* avmd_reloadxml_event_handler passes avmd_globals.mutex.
XmlReloadLocks == TRUE

\* avmd_reloadxml_event_handler: avmd_load_xml_configuration takes the
\* mutex it is given and reads avmd.conf.
XmlReload ==
    /\ module.up
    /\ XmlEvents
    /\ pc["xml"] = "idle"
    /\ IF XmlReloadLocks THEN gmutex = None /\ gmutex' = "xml"
       ELSE UNCHANGED gmutex
    /\ \E f \in XmlFiles :
          BeginWrites("xml", "reload", IF f.exists THEN f.params ELSE <<>>)
    /\ UNCHANGED <<module, gs, committed, priv, bugs, ev, ub>>

(***************************************************************************)
(* The session thread.                                                    *)
(***************************************************************************)
\* avmd_start_app from the allocation to the direction checks: the session
\* is allocated and initialised, copying avmd_globals.settings without
\* avmd_globals.mutex; its own mutex is locked; the data is parsed.  A
\* failed allocation or initialisation jumps to "end", which unlocks the
\* session mutex it never locked.
StartSession(a) ==
    /\ priv = NoBug
    /\ \/ /\ AllocMayFail
          /\ Goto("sess", "end")
          /\ UNCHANGED <<loc, ev>>
       \/ \E b \in FreeBugs :
             LET r == Parsed(gs, a) IN
             /\ NewSession("sess", b)
             /\ Goto("sess", IF r.ok /\ DirectionOK(r.set) THEN "add"
                             ELSE "end")

\* avmd_start_app: return at once when "_avmd_" is set.
AppStart(a) ==
    /\ module.up
    /\ pc["sess"] = "idle"
    /\ "avmd_start" \in AppCmds
    /\ \/ /\ priv # NoBug
          /\ Goto("sess", "ret")
          /\ UNCHANGED <<loc, ev>>
       \/ StartSession(a)
    /\ UNCHANGED <<module, gmutex, gs, committed, priv, bugs, ub>>

\* avmd_start_function (the deprecated avmd app) with data d: "stop"
\* clears the private and removes the bug without an avmd::stop event;
\* with no bug it runs avmd_start_app with NULL data.
AppFunction(d) ==
    /\ module.up
    /\ pc["sess"] = "idle"
    /\ "avmd" \in AppCmds
    /\ \/ /\ priv # NoBug /\ d = "stop"
          /\ loc' = [loc EXCEPT !["sess"].bug = priv]
          /\ Goto("sess", "stop_clear")
          /\ UNCHANGED ev
       \/ /\ priv # NoBug /\ d # "stop"
          /\ Goto("sess", "ret")
          /\ UNCHANGED <<loc, ev>>
       \/ StartSession(NullArg)
    /\ UNCHANGED <<module, gmutex, gs, committed, priv, bugs, ub>>

\* avmd_stop_app up to avmd::stop: the bug is found through the private;
\* its session is locked, read and unlocked, and the event fired.
AppStop ==
    /\ module.up
    /\ pc["sess"] = "idle"
    /\ "avmd_stop" \in AppCmds
    /\ \/ /\ priv = NoBug
          /\ Goto("sess", "ret")
          /\ UNCHANGED <<loc, ev>>
       \/ /\ priv # NoBug
          /\ loc' = [loc EXCEPT !["sess"].bug = priv]
          /\ ev' = [ev EXCEPT ![priv] = Append(@, "stop")]
          /\ Goto("sess", "stop_clear")
    /\ UNCHANGED <<module, gmutex, gs, committed, priv, bugs, ub>>

(***************************************************************************)
(* Steps shared by the threads.                                           *)
(***************************************************************************)
\* One assignment of a configuration function, or one <param> of the
\* avmd_load_xml_configuration loop; a value that does not parse ends the
\* loop and drops what is left (the load's inbound/outbound assignments).
Write(t) ==
    /\ pc[t] = "write"
    /\ LET p == Head(loc[t].todo)
           rest == IF p.ok THEN Tail(loc[t].todo) ELSE <<>>
       IN  /\ gs' = IF p.ok THEN WriteParam(gs, p) ELSE gs
           /\ loc' = [loc EXCEPT ![t].todo = rest]
           /\ Goto(t, IF rest = <<>> THEN "end" ELSE "write")
    /\ UNCHANGED <<module, gmutex, committed, priv, bugs, ev, ub>>

EndKeepsLock(t) ==
    /\ pc[t] = "end"
    /\ committed' = IF t = "sess" THEN committed ELSE gs
    /\ ub' = IF t = "sess" /\ ~loc[t].held THEN ub \cup {"unlock_unheld"}
             ELSE ub
    /\ Goto(t, "idle")
    /\ loc' = [loc EXCEPT ![t] = Idle]
    /\ UNCHANGED <<module, gmutex, gs, priv, bugs, ev>>

\* The end of a call: avmd_api_main and avmd_load_xml_configuration unlock
\* avmd_globals.mutex; avmd_start_app's "end:" unlocks the session mutex,
\* whether or not it was locked.
End(t) ==
    /\ pc[t] = "end"
    /\ gmutex' = IF gmutex = t THEN None ELSE gmutex
    /\ committed' = IF t = "sess" THEN committed ELSE gs
    /\ ub' = IF t = "sess" /\ ~loc[t].held THEN ub \cup {"unlock_unheld"}
             ELSE ub
    /\ Goto(t, "idle")
    /\ loc' = [loc EXCEPT ![t] = Idle]
    /\ UNCHANGED <<module, gs, priv, bugs, ev>>

\* switch_core_media_bug_add with avmd_callback and the new session.
AddBug(t) ==
    /\ pc[t] = "add"
    /\ \/ /\ AddMayFail
          /\ Goto(t, "end")
          /\ UNCHANGED bugs
       \/ /\ bugs' = bugs \cup {loc[t].bug}
          /\ Goto(t, "publish")
    /\ UNCHANGED <<module, gmutex, gs, committed, priv, ev, loc, ub>>

PublishNoPrivate(t) ==
    /\ pc[t] = "publish"
    /\ Goto(t, "fire")
    /\ UNCHANGED <<module, gmutex, gs, committed, priv, bugs, ev, loc, ub>>

\* switch_channel_set_private(channel, "_avmd_", bug) after the bug is added.
Publish(t) ==
    /\ pc[t] = "publish"
    /\ priv' = loc[t].bug
    /\ Goto(t, "fire")
    /\ UNCHANGED <<module, gmutex, gs, committed, bugs, ev, loc, ub>>

\* avmd_fire_event(AVMD_EVENT_SESSION_START, ...) after the private is set.
Fire(t) ==
    /\ pc[t] = "fire"
    /\ ev' = [ev EXCEPT ![loc[t].bug] = Append(@, "start")]
    /\ Goto(t, "end")
    /\ UNCHANGED <<module, gmutex, gs, committed, priv, bugs, loc, ub>>

\* switch_channel_set_private(channel, "_avmd_", NULL) of a stop, whatever
\* bug the private names by now.
StopClear(t) ==
    /\ pc[t] = "stop_clear"
    /\ priv' = NoBug
    /\ Goto(t, "stop_remove")
    /\ UNCHANGED <<module, gmutex, gs, committed, bugs, ev, loc, ub>>

\* switch_core_media_bug_remove of the bug the stop found.
StopRemove(t) ==
    /\ pc[t] = "stop_remove"
    /\ bugs' = bugs \ {loc[t].bug}
    /\ Goto(t, IF t = "api" THEN "stop_fire" ELSE "ret")
    /\ UNCHANGED <<module, gmutex, gs, committed, priv, ev, loc, ub>>

\* An app returning without going through "end".
Return(t) ==
    /\ pc[t] = "ret"
    /\ Goto(t, "idle")
    /\ loc' = [loc EXCEPT ![t] = Idle]
    /\ UNCHANGED <<module, gmutex, gs, committed, priv, bugs, ev, ub>>

(***************************************************************************)
(* Module shutdown.                                                       *)
(***************************************************************************)
\* mod_avmd_shutdown, under avmd_globals.mutex: the events are
\* unregistered, the arc-cosine table is destroyed if fast_math is set in
\* the settings as they are now, and the RELOADXML handler is unbound.
\* The loader unloads the module when no avmd call is running.
Shutdown ==
    /\ module.up
    /\ gmutex = None
    /\ \A t \in Threads : pc[t] = "idle"
    /\ module' = [up |-> FALSE,
                  acos |-> IF gs.fm = 1 THEN "unmapped" ELSE module.acos]
    /\ ub' = IF gs.fm = 1 /\ module.acos = "unmapped"
             THEN ub \cup {"unmap_unmapped"} ELSE ub
    /\ UNCHANGED <<gmutex, gs, committed, priv, bugs, ev, pc, loc>>

\* Nothing runs once the module is unloaded.
Unloaded == ~module.up /\ UNCHANGED vars

(***************************************************************************)
(* The specification.                                                     *)
(***************************************************************************)
Init ==
    /\ gmutex = None
    /\ gs \in {LoadedAtStart(f) : f \in XmlFiles}
    /\ committed = gs
    /\ priv = NoBug
    /\ bugs = {}
    /\ ev = [b \in Bugs |-> <<>>]
    /\ pc = [t \in Threads |-> "idle"]
    /\ loc = [t \in Threads |-> Idle]
    /\ ub = {}
    /\ module = [up |-> TRUE,
                 acos |-> IF gs.fm = 1 THEN "mapped" ELSE "unmapped"]

\* The steps of a call already under way.
Busy(t) ==
    \/ Write(t) \/ End(t) \/ AddBug(t) \/ Publish(t) \/ Fire(t)
    \/ StopClear(t) \/ StopRemove(t) \/ Return(t)
    \/ t = "api" /\ (ApiUuid \/ ApiStopFire)

Next ==
    \/ \E c \in ApiCmds : ApiCall(c)
    \/ XmlReload
    \/ \E a \in AppArgs : AppStart(a)
    \/ \E d \in {"start", "stop"} : AppFunction(d)
    \/ AppStop
    \/ \E t \in Threads : Busy(t)
    \/ Shutdown
    \/ Unloaded

\* Nothing obliges anyone to issue a command or run an app, but a thread
\* that is inside a call is scheduled until the call returns: no step of
\* a call blocks except taking avmd_globals.mutex, which starts a call.
Spec == Init /\ [][Next]_vars /\ \A t \in Threads : WF_vars(Busy(t))

(***************************************************************************)
(* Properties.                                                            *)
(***************************************************************************)
TypeOK ==
    /\ gmutex \in Threads \cup {None}
    /\ gs \in Settings
    /\ committed \in Settings
    /\ priv \in Bugs \cup {NoBug}
    /\ bugs \subseteq Bugs
    /\ ev \in [Bugs -> Seq({"start", "stop"})]
    /\ pc \in [Threads -> Labels]
    /\ \A t \in Threads : loc[t].bug \in Bugs \cup {NoBug}
    /\ ub \subseteq {"unlock_unheld", "null_command", "unmap_unmapped"}
    /\ module \in [up : BOOLEAN, acos : {"mapped", "unmapped"}]

\* avmd::start and avmd::stop come in pairs: each media bug gets its start
\* event and then at most one stop event (avmd_start_app 1107,
\* avmd_api_main 1416 and 1517, avmd_stop_app 1165).
StartStopPaired ==
    \A b \in Bugs : ev[b] \in {<<>>, <<"start">>, <<"start", "stop">>}

\* Whenever no avmd call is running, the "_avmd_" private names exactly
\* the avmd media bugs on the channel.  Stops find a bug only through the
\* private (avmd_stop_app 1143, avmd_api_main 1402), so a bug it does not
\* name runs until hangup, and "Cannot run 2 at once on the same channel".
QuiescentConsistency ==
    (\A t \in Threads : pc[t] = "idle") => bugs = {priv} \ {NoBug}

\* A new session copies the global settings (init_avmd_session_data 258)
\* only as some writer left them complete, never half-way through a
\* reload or an API "set": the function's comment requires the globals
\* mutex to be held.
CopiesGlobals(t) ==
    /\ loc[t].bug = NoBug
    /\ loc'[t].bug # NoBug
    /\ pc'[t] # "stop_clear"

SettingsFromCommitted ==
    [][\A t \in Threads : CopiesGlobals(t) => gs = committed]_vars

\* Every thread that takes avmd_globals.mutex (avmd_api_main 1270,
\* avmd_load_xml_configuration 613) gives it back (1531, 667).
GlobalsReleased == \A t \in {"api", "xml"} : gmutex = t ~> gmutex # t

\* avmd_start_app unlocks only a session mutex it has locked (1113).
NoUnheldUnlock == "unlock_unheld" \notin ub

\* avmd_api_main never passes a NULL command to strcasecmp (1406, 1431).
CommandPresent == "null_command" \notin ub
\* The arc-cosine table mod_avmd_load maps when fast_math is set (778) is
\* unmapped by mod_avmd_shutdown (1225), which destroys no table it did
\* not map: the two read fast_math at different times, and a reload or an
\* API "set" may change it in between.
TableReleased ==
    ~module.up => module.acos = "unmapped" /\ "unmap_unmapped" \notin ub
====
