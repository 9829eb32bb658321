--------------------------- MODULE KazooCommands ---------------------------
(***************************************************************************)
(* mod_kazoo's API commands (kazoo_commands.c): kz_uuid_setvar,            *)
(* kz_uuid_setvar_multi and kz_http_put, called by several API threads at  *)
(* once on one channel, which may be hung up meanwhile.                    *)
(*                                                                         *)
(* A command string is abstracted to what the parsing gives the code: its  *)
(* arguments, a uuid that names the channel or not, variable names and     *)
(* values from small sets.  switch_core_session_locate takes the session's *)
(* read lock; destroying the session waits until no thread holds it.       *)
(* Each channel variable or caller-profile field is set under the channel's *)
(* own mutex, so each set is one step, and switch_channel_event_set_data   *)
(* copies them into the CHANNEL_DATA event in one step.                    *)
(***************************************************************************)
EXTENDS Integers, Sequences, FiniteSets

CONSTANTS
    Threads,     \* threads calling the API
    Names,       \* variable names a command may use
    EffNames,    \* the effective_call{er,ee}_id_{number,name} names among them
    Vals,        \* values a command may give
    Uuids,       \* "chan", the channel's uuid, and a uuid of no channel
    MaxArgs,     \* 64: the size of argv in uuid_setvar_multi
    MaxItems,    \* items one kz_uuid_setvar_multi command may carry
    Unset,       \* a variable with no value (or set to NULL)
    NoEq,        \* an item without '=': its value is NULL
    Junk,        \* a name or value made of several items run together
    Apis         \* the commands the threads call: "set", "multi", "put"

VARIABLES
    pc,          \* where each thread is in its current command
    cmd,         \* the command each thread is running, as parsed
    x,           \* uuid_setvar_multi's loop index
    y,           \* uuid_setvar_multi's count of variables set
    out,         \* the reply lines each thread's last command wrote
    status,      \* what each thread's last command returned
    held,        \* what kz_http_put holds: pool, strings, fd, FILE, curl
    readers,     \* threads holding the session's read lock
    hup,         \* "up", "destroying" (waits for readers) or "gone"
    vars,        \* the channel's variables
    prof,        \* the caller profile fields the effective names update
    evVars,      \* the variables in the last CHANNEL_DATA event fired
    evProf,      \* the profile in that event
    fired        \* a CHANNEL_DATA event has been fired

vars_ == <<pc, cmd, x, y, out, status, held, readers, hup, vars, prof,
           evVars, evProf, fired>>

VarNames == Names \cup {Junk}
Values == Vals \cup {Unset, Junk}

(* One item of "<var>=<value>;<var>=<value>...": its name ("" when empty)  *)
(* and its value (NoEq when there is no '=').                              *)
Items == [name : Names \cup {""}, val : Vals \cup {NoEq}]

ItemSeqs == UNION {[1 .. n -> Items] : n \in 0 .. MaxItems}

(* The commands, as switch_separate_string leaves them.  For uuid_setvar,  *)
(* argc 0 stands for an empty cmd; for kz_http_put the outcomes of the     *)
(* system calls are part of the input.                                     *)
SetCmds == [api : {"set"}, argc : 0 .. 3, uuid : Uuids \cup {""},
            name : Names \cup {""}, val : Vals]
MultiCmds == [api : {"multi"}, form : {"empty", "nospace", "split"},
              uuid : Uuids, items : ItemSeqs]
PutCmds == [api : {"put"}, form : {"empty", "argc", "two"},
            session : BOOLEAN, brackets : BOOLEAN,
            result : {"open", "fstat", "fopen", "curl", "http_err", "ok"}]

(* switch_separate_string(vars, ';', argv, MaxArgs): past MaxArgs items    *)
(* the last argument holds the rest, ';' included, so strchr('=') finds    *)
(* its first '=': the name runs up to it, the value is all after it.       *)
MergedArg(rest) ==
    IF rest[1].val # NoEq
      THEN [name |-> rest[1].name, val |-> Junk]
      ELSE [name |-> Junk,
            val |-> IF \E i \in 2 .. Len(rest) : rest[i].val # NoEq
                      THEN Junk ELSE NoEq]

Args(items) ==
    IF Len(items) <= MaxArgs THEN items
    ELSE SubSeq(items, 1, MaxArgs - 1)
           \o <<MergedArg(SubSeq(items, MaxArgs, Len(items)))>>

(* switch_core_session_locate: the session and its read lock, if the uuid *)
(* is the channel's and it is not being destroyed.                         *)
Located(t, u) == u = "chan" /\ hup = "up"

Goto(t, l) == pc' = [pc EXCEPT ![t] = l]
Say(t, line) == out' = [out EXCEPT ![t] = Append(@, line)]
Return(t, s) == status' = [status EXCEPT ![t] = s] /\ Goto(t, "ret")

(* An event fired without switch_channel_event_set_data.                   *)
SnapshotNoData == fired' = TRUE /\ UNCHANGED <<evVars, evProf>>

(* switch_channel_event_set_data and switch_event_fire.                    *)
Snapshot ==
    /\ evVars' = vars
    /\ evProf' = prof
    /\ fired' = TRUE

(* switch_core_session_rwunlock, and a path that forgets it.               *)
UnlockSkipped(t) == readers' = readers
Unlock(t) == readers' = readers \ {t}

(* The loop's x++, and a loop that forgets it.                             *)
NextItemStays(t) == x' = x
NextItem(t) == x' = [x EXCEPT ![t] = @ + 1]

(* The value a multi item gives switch_channel_set_variable.               *)
ValueOf(v) == IF v = NoEq THEN Unset ELSE v

Lines == {"+OK", "-ERR", "-USAGE", "USAGE"}
Statuses == {"none", "SUCCESS", "FALSE", "GENERR"}
Resources == {"lpool", "args", "params", "buf", "headers", "fd", "file",
              "error"}
Labels == {"idle", "ret", "s_set", "s_event", "s_unlock",
           "m_item", "m_prof", "m_event", "m_unlock"}
NoCmd == [api |-> "none"]

Init ==
    /\ pc = [t \in Threads |-> "idle"]
    /\ cmd = [t \in Threads |-> NoCmd]
    /\ x = [t \in Threads |-> 0]
    /\ y = [t \in Threads |-> 0]
    /\ out = [t \in Threads |-> <<>>]
    /\ status = [t \in Threads |-> "none"]
    /\ held = [t \in Threads |-> {}]
    /\ readers = {}
    /\ hup = "up"
    /\ vars = [n \in VarNames |-> Unset]
    /\ prof = [n \in EffNames |-> Unset]
    /\ evVars = vars
    /\ evProf = prof
    /\ fired = FALSE

chvars == <<vars, prof, evVars, evProf, fired>>

(***************************************************************************)
(* uuid_setvar_function.                                                   *)
(***************************************************************************)

(* Parse the command and locate the session.                               *)
SetStart(t, c) ==
    /\ pc[t] = "idle" /\ "set" \in Apis
    /\ IF c.argc \in {2, 3} /\ c.uuid # ""
         THEN IF Located(t, c.uuid)
                THEN /\ readers' = readers \cup {t}
                     /\ out' = [out EXCEPT ![t] = <<>>]
                     /\ cmd' = [cmd EXCEPT ![t] =
                           [api |-> "set", name |-> c.name,
                            val |-> IF c.argc = 3 THEN c.val ELSE Unset]]
                     /\ Goto(t, "s_set")
                     /\ UNCHANGED status
                ELSE /\ out' = [out EXCEPT ![t] = <<"-ERR">>]
                     /\ Return(t, "SUCCESS")
                     /\ UNCHANGED <<readers, cmd>>
         ELSE /\ out' = [out EXCEPT ![t] = <<"-USAGE">>]
              /\ Return(t, "SUCCESS")
              /\ UNCHANGED <<readers, cmd>>
    /\ UNCHANGED <<x, y, held, hup, chvars>>

(* An empty name is refused; otherwise the variable is set, to NULL when   *)
(* the command has no value.                                               *)
SetVariable(t) ==
    /\ pc[t] = "s_set"
    /\ IF cmd[t].name = ""
         THEN Say(t, "-ERR") /\ UNCHANGED vars
         ELSE /\ vars' = [vars EXCEPT ![cmd[t].name] = cmd[t].val]
              /\ Say(t, "+OK")
    /\ Goto(t, "s_event")
    /\ UNCHANGED <<cmd, x, y, status, held, readers, hup, prof, evVars,
                   evProf, fired>>

SetEvent(t) ==
    /\ pc[t] = "s_event"
    /\ Snapshot
    /\ Goto(t, "s_unlock")
    /\ UNCHANGED <<cmd, x, y, out, status, held, readers, hup, vars, prof>>

SetUnlock(t) ==
    /\ pc[t] = "s_unlock"
    /\ Unlock(t)
    /\ cmd' = [cmd EXCEPT ![t] = NoCmd]
    /\ Return(t, "SUCCESS")
    /\ UNCHANGED <<x, y, out, held, hup, chvars>>

(***************************************************************************)
(* uuid_setvar_multi_function.                                             *)
(***************************************************************************)

(* An empty cmd prints the usage; a cmd without a space returns at once    *)
(* with no reply; an unknown uuid prints -ERR and the usage.               *)
MultiStart(t, c) ==
    /\ pc[t] = "idle" /\ "multi" \in Apis
    /\ CASE c.form = "empty" ->
              /\ out' = [out EXCEPT ![t] = <<"-USAGE">>]
              /\ Return(t, "SUCCESS") /\ UNCHANGED <<readers, cmd, x, y>>
         [] c.form = "nospace" ->
              /\ out' = [out EXCEPT ![t] = <<>>]
              /\ Return(t, "SUCCESS") /\ UNCHANGED <<readers, cmd, x, y>>
         [] ~Located(t, c.uuid) ->
              /\ out' = [out EXCEPT ![t] = <<"-ERR", "-USAGE">>]
              /\ Return(t, "SUCCESS") /\ UNCHANGED <<readers, cmd, x, y>>
         [] OTHER ->
              /\ readers' = readers \cup {t}
              /\ cmd' = [cmd EXCEPT ![t] =
                    [api |-> "multi", items |-> Args(c.items)]]
              /\ x' = [x EXCEPT ![t] = 1]
              /\ y' = [y EXCEPT ![t] = 0]
              /\ out' = [out EXCEPT ![t] = <<>>]
              /\ Goto(t, "m_item") /\ UNCHANGED status
    /\ UNCHANGED <<held, hup, chvars>>

(* One turn of the loop: an item with an empty name is refused, any other  *)
(* sets its variable; an effective_* name goes on to its profile field.    *)
MultiItem(t) ==
    /\ pc[t] = "m_item"
    /\ x[t] <= Len(cmd[t].items)
    /\ LET it == cmd[t].items[x[t]] IN
         IF it.name = ""
           THEN /\ Say(t, "-ERR")
                /\ NextItem(t)
                /\ UNCHANGED <<pc, y, vars>>
           ELSE /\ vars' = [vars EXCEPT ![it.name] = ValueOf(it.val)]
                /\ y' = [y EXCEPT ![t] = @ + 1]
                /\ IF it.name \in EffNames
                     THEN Goto(t, "m_prof") /\ UNCHANGED x
                     ELSE NextItem(t) /\ UNCHANGED pc
                /\ UNCHANGED out
    /\ UNCHANGED <<cmd, status, held, readers, hup, prof, evVars, evProf,
                   fired>>

(* switch_channel_set_profile_var for an effective_* name.                 *)
MultiProfile(t) ==
    /\ pc[t] = "m_prof"
    /\ LET it == cmd[t].items[x[t]] IN
         prof' = [prof EXCEPT ![it.name] = ValueOf(it.val)]
    /\ NextItem(t)
    /\ Goto(t, "m_item")
    /\ UNCHANGED <<cmd, y, out, status, held, readers, hup, vars, evVars,
                   evProf, fired>>

(* After the loop: the CHANNEL_DATA event that keeps kazoo nodes in sync.  *)
MultiEvent(t) ==
    /\ pc[t] = "m_item"
    /\ x[t] > Len(cmd[t].items)
    /\ Snapshot
    /\ Goto(t, "m_unlock")
    /\ UNCHANGED <<cmd, x, y, out, status, held, readers, hup, vars, prof>>

(* Unlock; +OK if a variable was set, the usage otherwise.                 *)
MultiUnlock(t) ==
    /\ pc[t] = "m_unlock"
    /\ Unlock(t)
    /\ Say(t, IF y[t] > 0 THEN "+OK" ELSE "-USAGE")
    /\ cmd' = [cmd EXCEPT ![t] = NoCmd]
    /\ Return(t, "SUCCESS")
    /\ UNCHANGED <<x, y, held, hup, chvars>>

(***************************************************************************)
(* kz_http_put.  It shares nothing with the other threads, so each way     *)
(* through it is one step: what it takes, the reply it writes, the status  *)
(* it returns, and the done: label's releases.                             *)
(***************************************************************************)

(* What the code has taken when it reaches done:, by where it left.        *)
Taken(c) ==
    (IF c.session THEN {} ELSE {"lpool"})
    \cup (IF c.form = "empty" THEN {} ELSE {"args"})
    \cup (IF c.form = "two"
            THEN {"buf", "headers"} \cup (IF c.brackets THEN {"params"} ELSE {})
                 \cup (CASE c.result = "fstat" -> {"fd"}
                         [] c.result \in {"curl", "http_err", "ok"} -> {"file"}
                         [] OTHER -> {})
                 \cup (IF c.result = "http_err" THEN {"error"} ELSE {})
            ELSE {})

(* done: fclose, free the headers, buf, error and args, destroy the local  *)
(* pool and the params.  The descriptor is closed only on the way past    *)
(* fstat, so done has nothing that closes it.                              *)
Released == {"lpool", "args", "params", "buf", "headers", "file", "error"}

(* The reply line and status of each exit.                                 *)
PutExit(c) ==
    CASE c.form # "two"          -> [out |-> <<"USAGE">>, st |-> "SUCCESS"]
      [] c.result = "open"       -> [out |-> <<"-ERR">>, st |-> "FALSE"]
      [] c.result = "fstat"      -> [out |-> <<"-ERR">>, st |-> "SUCCESS"]
      [] c.result = "fopen"      -> [out |-> <<>>, st |-> "FALSE"]
      [] c.result = "curl"       -> [out |-> <<"-ERR">>, st |-> "FALSE"]
      [] c.result = "http_err"   -> [out |-> <<"-ERR">>, st |-> "GENERR"]
      [] c.result = "ok"         -> [out |-> <<"+OK">>, st |-> "SUCCESS"]

PutCall(t, c) ==
    /\ pc[t] = "idle" /\ "put" \in Apis
    /\ held' = [held EXCEPT ![t] = @ \cup (Taken(c) \ Released)]
    /\ out' = [out EXCEPT ![t] = PutExit(c).out]
    /\ Return(t, PutExit(c).st)
    /\ UNCHANGED <<cmd, x, y, readers, hup, chvars>>

(* The command has returned its status and its reply to the API caller,   *)
(* which takes them.                                                       *)
Reply(t) ==
    /\ pc[t] = "ret"
    /\ out' = [out EXCEPT ![t] = <<>>]
    /\ status' = [status EXCEPT ![t] = "none"]
    /\ Goto(t, "idle")
    /\ UNCHANGED <<cmd, x, y, held, readers, hup, chvars>>

(***************************************************************************)
(* The channel hangs up; the session is destroyed once no thread holds its *)
(* read lock (switch_core_session_rwunlock by the last reader).           *)
(***************************************************************************)
Hangup ==
    /\ hup = "up"
    /\ hup' = "destroying"
    /\ UNCHANGED <<pc, cmd, x, y, out, status, held, readers, chvars>>

Destroy ==
    /\ hup = "destroying"
    /\ readers = {}
    /\ hup' = "gone"
    /\ UNCHANGED <<pc, cmd, x, y, out, status, held, readers, chvars>>

(* The steps of a command already running.                                 *)
Step(t) ==
    \/ SetVariable(t) \/ SetEvent(t) \/ SetUnlock(t)
    \/ MultiItem(t) \/ MultiProfile(t) \/ MultiEvent(t) \/ MultiUnlock(t)
    \/ Reply(t)

(* A thread starts a command.                                              *)
Call(t) ==
    \/ \E c \in SetCmds : SetStart(t, c)
    \/ \E c \in MultiCmds : MultiStart(t, c)
    \/ \E c \in PutCmds : PutCall(t, c)

Next ==
    \/ \E t \in Threads : Call(t) \/ Step(t)
    \/ Hangup
    \/ Destroy

(* A thread that has started a command goes on running it, and the       *)
(* session's destroy goes on once it may; calls and the hangup come when  *)
(* they come.                                                             *)
Spec == Init /\ [][Next]_vars_
        /\ \A t \in Threads : WF_vars_(Step(t))
        /\ WF_vars_(Destroy)

(***************************************************************************)
(* Properties.                                                             *)
(***************************************************************************)

TypeOK ==
    /\ pc \in [Threads -> Labels]
    /\ \A t \in Threads : cmd[t] = NoCmd \/ cmd[t].api \in Apis \ {"put"}
    /\ x \in [Threads -> 0 .. MaxArgs + 1]
    /\ y \in [Threads -> 0 .. MaxArgs]
    /\ \A t \in Threads : out[t] \in Seq(Lines) /\ Len(out[t]) <= MaxArgs + 2
    /\ status \in [Threads -> Statuses]
    /\ held \in [Threads -> SUBSET Resources]
    /\ readers \subseteq Threads
    /\ hup \in {"up", "destroying", "gone"}
    /\ vars \in [VarNames -> Values] /\ evVars \in [VarNames -> Values]
    /\ prof \in [EffNames -> Values] /\ evProf \in [EffNames -> Values]
    /\ fired \in BOOLEAN

Idle == \A t \in Threads : pc[t] \in {"idle", "ret"}

(* "keep kazoo nodes in sync": whenever no command is running, the last   *)
(* CHANNEL_DATA event fired by kz_uuid_setvar or kz_uuid_setvar_multi     *)
(* carries the channel's variables and profile as they are, however the   *)
(* two threads' sets and events interleaved.                              *)
EventsInSync == fired /\ Idle => evVars = vars /\ evProf = prof

(* Once the channel is being destroyed, the destroy completes: every      *)
(* command that located the session releases its read lock.               *)
HangupCompletes == hup = "destroying" ~> hup = "gone"

(* When kz_http_put returns it holds nothing: its pool, strings, header   *)
(* list, FILE and file descriptor are all released.                       *)
ResourcesReleased == \A t \in Threads : pc[t] = "ret" => held[t] = {}

(* When no command is running, each effective_* variable and the caller   *)
(* profile field kz_uuid_setvar_multi keeps beside it agree.              *)
ProfileMatchesVar == Idle => \A n \in EffNames : prof[n] = vars[n]

(* kz_uuid_setvar_multi sets only the variables its items name, to the    *)
(* values they give: no name or value is several items run together.      *)
ItemsApplied == vars[Junk] = Unset /\ \A n \in Names : vars[n] # Junk

(* Every command that has returned wrote a reply line.                    *)
RepliesAlways ==
    \A t \in Threads : pc[t] = "ret" => out[t] # <<>>

=============================================================================
