---------------------------- MODULE AvmdDetector ----------------------------
(***************************************************************************)
(* The control of mod_avmd's beep detector: avmd_process, called by       *)
(* avmd_callback for every read (or write) replace frame of a channel      *)
(* with an avmd media bug.                                                  *)
(*                                                                         *)
(* The DESA-2 estimates are floating point; each one is abstracted to the  *)
(* branch of the inner loop it takes: out of range (|omega| > 0.999999),   *)
(* NaN, a repeat of the last appended estimate, or a valid estimate after  *)
(* which the variance is below VARIANCE_THRESHOLD ("lo") or not ("hi").   *)
(* A frame is the sequence of the estimates taken every SINE_LEN samples.  *)
(***************************************************************************)
EXTENDS Naturals, Sequences

CONSTANTS
    E,              \* estimates per frame: (frame->samples - P) / SINE_LEN
    Streak,         \* settings.sample_n_continuous_streak
    Skip,           \* settings.sample_n_to_skip
    RequireSet,     \* values settings.require_continuous_streak may have
    BeepFrames,     \* frames of a beep: the tone run the detector must catch
    Rates           \* samples_per_second of the codecs a channel may have

VARIABLES
    req,            \* s->settings.require_continuous_streak, copied at init
    beep,           \* s->state.beep_state
    streak,         \* s->samples_streak
    lpos,           \* s->sma_b.lpos, counted up to 2 (only lpos > 1 is tested)
    beeps,          \* avmd::beep events fired for the session
    toneRun,        \* environment: frames of steady tone in a row, up to BeepFrames
    since,          \* auxiliary: estimates appended since the last reset
    atBeep,         \* auxiliary: the value of since when the beep was decided
    dir,            \* the direction the settings watch: "out" (read) or "in" (write)
    rate,           \* s->rate
    inited          \* the bug's SWITCH_ABC_TYPE_INIT callback has run

vars == <<req, beep, streak, lpos, beeps, toneRun, since, atBeep, dir, rate, inited>>

Classes == {"out", "nan", "rep", "hi", "lo"}

(* A steady tone gives valid estimates of low variance.                    *)
ToneFrame == [i \in 1 .. E |-> "lo"]

NextRun(t) == IF ~t THEN 0 ELSE IF toneRun < BeepFrames THEN toneRun + 1
                                                     ELSE BeepFrames

(* RESET_SMA_BUFFER of the four estimators.                               *)
ResetSma(st) == [st EXCEPT !.lpos = 0, !.since = 0]

(* Mutant of Decrement: the streak is decremented without the > 0 guard. *)
DecrementNoGuard(n) == n - 1

(* if (s->samples_streak > 0) --s->samples_streak;                        *)
Decrement(n) == IF n > 0 THEN n - 1 ELSE n

(* APPEND_SMA_VAL to the four estimators, then the streak countdown.      *)
AppendSma(st) ==
    [st EXCEPT !.lpos = IF @ < 2 THEN @ + 1 ELSE 2,
               !.since = IF @ < Streak THEN @ + 1 ELSE Streak,
               !.streak = IF req = 1 THEN Decrement(@) ELSE @]

(* The decision: variance below threshold, at least two estimates, and    *)
(* with require_continuous_streak the streak counted down to zero.        *)
Decides(st, c) ==
    /\ c = "lo"
    /\ st.lpos > 1
    /\ req = 0 \/ st.streak = 0

(* Mutant of Skipping: a skipped estimate does not count down.            *)
SkippingNoCount(st) == [st EXCEPT !.k = @]

(* if (sample_to_skip_n > 0) { sample_to_skip_n--; goto loop_continue; }  *)
Skipping(st) == [st EXCEPT !.k = @ - 1]

(* One pass of the inner loop on an estimate of class c.                   *)
Estimate(st, c) ==
    CASE c = "out" ->
            \* v = 99999.0, so the decision below cannot fire
            IF req = 1
              THEN [ResetSma(st) EXCEPT !.streak = Streak, !.k = Skip]
              ELSE st
      [] c = "nan" -> [st EXCEPT !.k = Skip]
      \* a repeat of the last appended value (sma_b.pos > 0: one was appended
      \* since the reset) is skipped
      [] c = "rep" /\ st.lpos > 0 -> st
      [] st.k > 0 -> Skipping(st)
      [] OTHER ->
            LET a == AppendSma(st)
            IN IF Decides(a, c)
                 THEN [ResetSma(a) EXCEPT !.det = TRUE, !.at = a.since]
                 ELSE a

(* The inner loop over a frame's estimates; it stops at a detection       *)
(* (goto done).                                                            *)
RECURSIVE Loop(_, _)
Loop(st, ests) ==
    IF ests = <<>> \/ st.det THEN st
    ELSE Loop(Estimate(st, Head(ests)), Tail(ests))

(* avmd_callback for SWITCH_ABC_TYPE_READ_REPLACE (or WRITE_REPLACE):     *)
(* lock the session mutex, avmd_process the frame, unlock.  avmd_process  *)
(* returns at once when the beep has been detected; otherwise its local   *)
(* sample_to_skip_n starts at the setting for every frame.                 *)
MediaFrame ==
    /\ inited
    /\ beep = "notdetected"
    /\ \E t \in BOOLEAN :
         \E ests \in IF t THEN {ToneFrame} ELSE [1 .. E -> Classes] :
           LET r == Loop([streak |-> streak, lpos |-> lpos, since |-> since,
                          k |-> Skip, det |-> FALSE, at |-> 0], ests)
           IN /\ UNCHANGED <<req, dir, rate, inited>>
              /\ toneRun' = NextRun(t)
              /\ streak' = r.streak
              /\ lpos' = r.lpos
              /\ since' = r.since
              /\ beep' = IF r.det THEN "detected" ELSE beep
              /\ beeps' = IF r.det THEN beeps + 1 ELSE beeps
              /\ atBeep' = IF r.det THEN r.at ELSE atBeep

(* Frames keep arriving after the detection; avmd_process returns at once.*)
MediaFrameDetected ==
    /\ inited
    /\ beep = "detected"
    /\ \E t \in BOOLEAN : toneRun' = NextRun(t)
    /\ UNCHANGED <<req, beep, streak, lpos, beeps, since, atBeep, dir, rate, inited>>

(* avmd_callback for SWITCH_ABC_TYPE_INIT, without the session mutex: the  *)
(* rate becomes that of the read codec of an outbound channel or of the   *)
(* write codec of an inbound one, and 8000 when that codec, or its        *)
(* implementation, is missing.  avmd_session_start admits exactly one    *)
(* direction, so the two branches never both run.                         *)
CallbackInit ==
    /\ ~inited
    \* 0: no codec, or a codec without an implementation
    /\ \E codec \in Rates \cup {0} :
         rate' = IF codec = 0 THEN 8000 ELSE codec
    /\ inited' = TRUE
    /\ UNCHANGED <<req, beep, streak, lpos, beeps, toneRun, since, atBeep, dir>>

(* avmd_callback: the media bug's INIT, then its READ_REPLACE frames on   *)
(* an outbound channel or WRITE_REPLACE frames on an inbound one; each   *)
(* replace frame is processed under the session mutex.                     *)
Callback == CallbackInit \/ MediaFrame \/ MediaFrameDetected

(* init_avmd_session_data: rate = 48000 (the worst case the buffers are  *)
(* sized for), beep_state = BEEP_NOTDETECTED, samples_streak = 0, the     *)
(* settings copied from the globals; the SMA buffers are empty.            *)
Init ==
    /\ req \in RequireSet
    /\ dir \in {"out", "in"}
    /\ rate = 48000
    /\ inited = FALSE
    /\ beep = "notdetected"
    /\ streak = 0
    /\ lpos = 0
    /\ beeps = 0
    /\ toneRun = 0
    /\ since = 0
    /\ atBeep = 0

Next == Callback

Spec == Init /\ [][Next]_vars

-----------------------------------------------------------------------------
(* Properties                                                              *)

TypeOK ==
    /\ req \in {0, 1}
    /\ beep \in {"notdetected", "detected"}
    /\ streak \in 0 .. Streak
    /\ lpos \in 0 .. 2
    /\ beeps \in 0 .. 1
    /\ toneRun \in 0 .. BeepFrames
    /\ since \in 0 .. Streak
    /\ atBeep \in 0 .. Streak
    /\ dir \in {"out", "in"}
    /\ rate \in Rates \cup {8000, 48000}
    /\ inited \in BOOLEAN

(* A beep of BeepFrames frames of steady tone is detected by its last     *)
(* frame, whatever came before it: the per-frame skip, the streak          *)
(* countdown and the SMA resets of avmd_process never keep it from         *)
(* deciding in time.                                                       *)
DetectedWithinBeep == toneRun = BeepFrames => beep = "detected"

(* With require_continuous_streak, a beep is reported only after           *)
(* sample_n_continuous_streak estimates without a reset, as the comment  *)
(* on the decision says.                                                   *)
StreakRespected ==
    beep = "detected" /\ req = 1 => atBeep >= Streak

=============================================================================
