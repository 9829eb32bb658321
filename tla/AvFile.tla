---------------------------- MODULE AvFile ----------------------------
(***************************************************************************)
(* mod_av's file interface (avformat.c) for audio-only files.  A handle    *)
(* is opened for reading or for writing (Modes).                          *)
(*                                                                         *)
(* Reading: file_read_thread_run decodes the file into                     *)
(* context->audio_buffer while the session thread calls av_file_read,      *)
(* av_file_seek, av_file_command(SCFC_FLUSH_AUDIO) and av_file_close.      *)
(* Audio is abstracted to frames: frame i is the i-th block of samples of  *)
(* the file, and the buffer holds frame numbers.  The flags started,       *)
(* running and closed and the int64 seek_ts are the context fields of the  *)
(* same names; they are read and written without the mutex, so each read  *)
(* or write of one of them is a step of its own.                           *)
(*                                                                         *)
(* Writing: the session thread calls av_file_write, av_file_command and    *)
(* av_file_close; audio_buffer is counted in samples, and the encoder and  *)
(* muxer calls are abstracted to their outcomes.  With                     *)
(* SWITCH_FILE_FLAG_VIDEO a second caller thread calls av_file_write_video,*)
(* whose first image creates video_thread_run: images pass to it through   *)
(* eh.video_queue, and it stamps each with a pts from the soft video timer *)
(* before encoding it.                                                     *)
(***************************************************************************)
EXTENDS Integers, Sequences

CONSTANTS
    FileLen,        \* frames in the file
    NativeRate,     \* frames per second (handle->native_rate)
    Targets,        \* sample positions av_file_seek may be asked for
    BufHigh,        \* AUDIO_BUF_SEC worth of frames: the reader pauses above it
    ReadMax,        \* frames one av_file_read asks for
    DecodeMayFail,  \* whether avcodec_decode_audio4 may return an error
    Modes,          \* "read" and/or "write": how the handle may be opened
    Frame,          \* audio_st.frame->nb_samples: samples per encoded frame
    WriteLens,      \* *len: samples one av_file_write may be given
    Offsets,        \* context->offset (av_video_offset), in samples
    ErrLimit,       \* 100: failed packet writes in a row before giving up
    MaxBacklog,     \* bound on the samples audio_buffer may hold when writing
    HeaderMayFail,  \* whether avformat_write_header may fail
    EncodeMayFail,  \* whether encoding or writing a packet may fail
    VideoModes,     \* whether the recording has SWITCH_FILE_FLAG_VIDEO
    VideoFrames,    \* av_file_write_video calls the video caller makes
    SkipAbove,      \* 5: queue size above which the thread starts skipping
    SkipHard,       \* 10: queue size above which it skips one frame in 3
    MaxTime         \* bound on the wall clock, in video timer samples

VARIABLES
    started,        \* context->file_read_thread_started
    running,        \* context->file_read_thread_running
    closed,         \* context->closed
    seekTs,         \* context->seek_ts, in frames: -1 none, -2 just seeked
    fpos,           \* the demuxer's position in the file (context->fc)
    buf,            \* context->audio_buffer, a sequence of frame numbers
    rpc,            \* where file_read_thread_run is ("none": no thread)
    spc,            \* where the session thread is in its current call
    ret,            \* what the session's last av_file_read returned
    target,         \* auxiliary: the seek_ts the last av_file_seek stored
    pending,        \* auxiliary: that seek has not been carried out yet
    mode,           \* SWITCH_FILE_FLAG_READ or SWITCH_FILE_FLAG_WRITE
    audReady,       \* context->aud_ready: the header has been written
    wbuf,           \* samples in audio_buffer of a handle being written
    offset,         \* context->offset
    errs,           \* context->errs
    wdata,          \* the current av_file_write was given data (not NULL)
    wret,           \* what the last av_file_write returned
    trailer,        \* av_write_trailer has been called
    lost,           \* samples left in audio_buffer when it was destroyed
    video,          \* SWITCH_FILE_FLAG_VIDEO
    hasVideo,       \* context->has_video
    vidReady,       \* context->vid_ready
    vhdr,           \* av_file_write_video's avformat_write_header succeeded
    vpc,            \* where the video caller is in av_file_write_video
    vleft,          \* av_file_write_video calls the caller has still to make
    vq,             \* eh.video_queue: "img" entries and the closing NULL "end"
    vth,            \* where video_thread_run is ("none": not created)
    skip,           \* video_thread_run's skip, skip_count, skip_total_count
    skipCount,      \*   and skip_freq locals (skip_total is always 1)
    skipTotalCount,
    skipFreq,
    finalize,       \* eh.finalize
    real,           \* the wall clock
    shift,          \* video_timer.start: samplecount = real - shift
    pausedAt,       \* eh.record_timer_paused (0: not paused)
    lastTs,         \* eh.last_ts
    fpts,           \* video_st.frame->pts (NoPts: AV_NOPTS_VALUE)
    deltaSum,       \* delta_sum, as the signed sum of the uint64 deltas
    deltaI,         \* delta_i
    dAvg,           \* delta_avg: 0, 1 (positive) or -1 (the INT_MIN cast)
    headless,       \* auxiliary: a packet or the trailer went to a file
                    \*   whose header was never written
    ptsOk           \* auxiliary: every frame encoded had a pts above the
                    \*   previous frame's

thvars == <<vth, skip, skipCount, skipTotalCount, skipFreq, lastTs, fpts,
            deltaSum, deltaI, dAvg, ptsOk>>
pvars == <<video, hasVideo, vidReady, vhdr, vpc, vleft>>
tvars == <<real, shift, pausedAt>>
vvars == <<pvars, vq, finalize, tvars, headless, thvars>>
wvars == <<audReady, wbuf, offset, errs, wdata, wret, trailer, lost, vvars>>
rvars == <<started, running, seekTs, fpos, buf, rpc, ret, target, pending>>
vars == <<started, running, closed, seekTs, fpos, buf, rpc, spc, ret,
          target, pending, mode, audReady, wbuf, offset, errs, wdata, wret,
          trailer, lost, vvars>>

ReaderLabels == {"none", "start", "loop", "zero", "seek", "mark", "fill",
                 "exit", "done"}
SessionLabels == {"idle", "r_wait", "r_check", "r_read", "s_check", "s_join",
                  "c_run", "c_join", "c_vjoin", "w_loop", "w_end", "closed"}
VideoLabels == {"none", "pop", "enc", "flush", "done"}

(* AV_NOPTS_VALUE, INT64_MIN in the code: below every pts a frame gets.    *)
NoPts == -(2^30)

(* seek_ts = samples / native_rate * AV_TIME_BASE: integer division to     *)
(* whole seconds first, so the position is rounded down to a second.      *)
SeekTs(s) == (s \div NativeRate) * NativeRate

(* The frames a read of at most ReadMax frames takes from the buffer.     *)
Taken == IF Len(buf) < ReadMax THEN Len(buf) ELSE ReadMax

SGoto(l) == spc' = l
RGoto(l) == rpc' = l

-----------------------------------------------------------------------------
(* file_read_thread_run                                                    *)

(* Under the mutex: set started and running and signal the condition.     *)
ThreadStart ==
    /\ rpc = "start"
    /\ started' = 1 /\ running' = 1
    /\ RGoto("loop")
    /\ UNCHANGED <<closed, seekTs, fpos, buf, spc, ret, target, pending>>

(* while (running && !closed), then if (seek_ts >= 0).                    *)
LoopHead ==
    /\ rpc = "loop"
    /\ RGoto(IF running = 1 /\ closed = 0
               THEN IF seekTs >= 0 THEN "zero" ELSE "fill"
               ELSE "exit")
    /\ UNCHANGED <<started, running, closed, seekTs, fpos, buf, spc, ret,
                   target, pending>>

(* Mutant of SeekZero: the seek leaves the old audio in the buffer.      *)
SeekZeroKeep ==
    /\ rpc = "zero"
    /\ RGoto("seek")
    /\ UNCHANGED <<started, running, closed, seekTs, fpos, buf, spc, ret,
                   target, pending>>

(* switch_buffer_zero under the mutex.                                     *)
SeekZero ==
    /\ rpc = "zero"
    /\ buf' = <<>>
    /\ RGoto("seek")
    /\ UNCHANGED <<started, running, closed, seekTs, fpos, spc, ret, target,
                   pending>>

(* avformat_seek_file(fc, ..., context->seek_ts, ...): reads seek_ts now. *)
SeekFile ==
    /\ rpc = "seek"
    /\ fpos' = seekTs
    /\ pending' = (pending /\ seekTs # target)
    /\ RGoto("mark")
    /\ UNCHANGED <<started, running, closed, seekTs, buf, spc, ret, target>>

(* context->seek_ts = -2.                                                  *)
SeekMark ==
    /\ rpc = "mark"
    /\ seekTs' = -2
    /\ RGoto("fill")
    /\ UNCHANGED <<started, running, closed, fpos, buf, spc, ret, target,
                   pending>>

(* Above AUDIO_BUF_SEC of audio the thread yields and loops; otherwise it  *)
(* reads a packet: at EOF an audio-only file breaks out of the loop, a    *)
(* decode error breaks too, and a decoded frame is written under the mutex.*)
FillYield ==
    /\ rpc = "fill"
    /\ Len(buf) > BufHigh
    /\ RGoto("loop")
    /\ UNCHANGED <<started, running, closed, seekTs, fpos, buf, spc, ret,
                   target, pending>>

(* Mutant of FillHighWater: the reader never pauses on a full buffer.    *)
FillNoHighWater == TRUE

FillHighWater == Len(buf) <= BufHigh

(* The audio branch: avcodec_decode_audio4, then switch_buffer_write of   *)
(* the decoded (or resampled) samples under the mutex.                    *)
WriteFrame ==
    /\ buf' = Append(buf, fpos)
    /\ fpos' = fpos + 1

FillRead ==
    /\ rpc = "fill"
    /\ FillHighWater
    /\ \/ /\ fpos = FileLen
          /\ RGoto("exit")
          /\ UNCHANGED <<fpos, buf>>
       \/ /\ fpos < FileLen
          /\ DecodeMayFail
          /\ RGoto("exit")
          /\ fpos' = fpos + 1
          /\ UNCHANGED buf
       \/ /\ fpos < FileLen
          /\ WriteFrame
          /\ RGoto("loop")
    /\ UNCHANGED <<started, running, closed, seekTs, spc, ret, target,
                   pending>>

(* After the loop: file_read_thread_running = 0, and the thread returns.   *)
ThreadExit ==
    /\ rpc = "exit"
    /\ running' = 0
    /\ RGoto("done")
    /\ UNCHANGED <<started, closed, seekTs, fpos, buf, spc, ret, target,
                   pending>>

-----------------------------------------------------------------------------
(* The session thread's calls on the handle                                *)

ReadCall ==
    /\ spc = "idle"
    /\ SGoto("r_wait")
    /\ UNCHANGED <<started, running, closed, seekTs, fpos, buf, rpc, ret,
                   target, pending>>

(* Lock; while (!file_read_thread_started) cond_wait; unlock.             *)
ReadWait ==
    /\ spc = "r_wait"
    /\ started = 1
    /\ SGoto("r_check")
    /\ UNCHANGED <<started, running, closed, seekTs, fpos, buf, rpc, ret,
                   target, pending>>

(* closed, or no thread running and nothing buffered: *len = 0, FALSE.   *)
ReadCheck ==
    /\ spc = "r_check"
    /\ IF closed = 1 \/ (running = 0 /\ buf = <<>>)
         THEN SGoto("idle") /\ ret' = "false"
         ELSE SGoto("r_read") /\ UNCHANGED ret
    /\ UNCHANGED <<started, running, closed, seekTs, fpos, buf, rpc, target,
                   pending>>

(* switch_buffer_read under the mutex; an empty buffer gives silence.      *)
ReadBuffer ==
    /\ spc = "r_read"
    /\ buf' = SubSeq(buf, Taken + 1, Len(buf))
    /\ ret' = IF Taken = 0 THEN "blank" ELSE "audio"
    /\ SGoto("idle")
    /\ UNCHANGED <<started, running, closed, seekTs, fpos, rpc, target,
                   pending>>

(* seek_ts = ...; closed = 0; both plain stores.                          *)
SeekCall(s) ==
    /\ spc = "idle"
    /\ seekTs' = SeekTs(s)
    /\ target' = SeekTs(s)
    /\ pending' = TRUE
    /\ closed' = 0
    /\ SGoto("s_check")
    /\ UNCHANGED <<started, running, fpos, buf, rpc, ret>>

(* if (!file_read_thread_running): join the old thread and start another.  *)
SeekCheck ==
    /\ spc = "s_check"
    /\ SGoto(IF running = 0 THEN "s_join" ELSE "idle")
    /\ UNCHANGED <<started, running, closed, seekTs, fpos, buf, rpc, ret,
                   target, pending>>

SeekJoin ==
    /\ spc = "s_join"
    /\ rpc \in {"none", "done"}
    /\ RGoto("start")
    /\ SGoto("idle")
    /\ UNCHANGED <<started, running, closed, seekTs, fpos, buf, ret, target,
                   pending>>

(* av_file_command(SCFC_FLUSH_AUDIO): switch_buffer_zero under the mutex. *)
Flush ==
    /\ spc = "idle"
    /\ buf' = <<>>
    /\ UNCHANGED <<started, running, closed, seekTs, fpos, rpc, spc, ret,
                   target, pending>>

(* Mutant of CloseFlag: close does not set closed.                        *)
CloseFlagMissing ==
    /\ spc = "idle"
    /\ SGoto("c_run")
    /\ UNCHANGED <<started, running, closed, seekTs, fpos, buf, rpc, ret,
                   target, pending>>

(* av_file_close: closed = 1, then running = 0, then join the thread.     *)
CloseFlag ==
    /\ spc = "idle"
    /\ closed' = 1
    /\ SGoto("c_run")
    /\ UNCHANGED <<started, running, seekTs, fpos, buf, rpc, ret, target,
                   pending>>

CloseRunning ==
    /\ spc = "c_run"
    /\ running' = 0
    /\ SGoto("c_join")
    /\ UNCHANGED <<started, closed, seekTs, fpos, buf, rpc, ret, target,
                   pending>>

(* Join, then the buffer is destroyed with the handle.                     *)
CloseJoin ==
    /\ spc = "c_join"
    /\ rpc \in {"none", "done"}
    /\ buf' = <<>>
    /\ SGoto("closed")
    /\ UNCHANGED <<started, running, closed, seekTs, fpos, rpc, ret, target,
                   pending>>

-----------------------------------------------------------------------------
(* The session thread's calls on a handle opened for writing               *)

(* The silence av_file_write puts before the first data when               *)
(* context->offset is set: lead_frames = offset * fps / 1000 writes of     *)
(* *len samples each, fps = samplerate / *len.                             *)
Lead(n) == (offset \div n) * n

(* The outcomes of encoding one audio frame: encoding fails (continue),    *)
(* the encoder holds the frame back (got_packet 0), or write_frame of the  *)
(* packet succeeds or fails.                                               *)
Outcomes == IF EncodeMayFail THEN {"enc_fail", "no_pkt", "ok", "wr_fail"}
                             ELSE {"ok", "no_pkt"}

(* A header has been written to the file: by av_file_write (aud_ready)    *)
(* or by av_file_write_video.                                              *)
Header == audReady = 1 \/ vhdr

(* The if (!context->vid_ready) block at the top of av_file_write: a video *)
(* recording drops the audio and returns while no image has come (or      *)
(* since a pause); an audio-only one writes the header on its first call, *)
(* and a failure returns FALSE; otherwise the call goes on.               *)
AudioDropped == vidReady = 0 /\ video
HeaderFails == vidReady = 0 /\ ~video /\ audReady = 0 /\ HeaderMayFail
Proceeds ==
    /\ vidReady = 1 \/ ~video
    /\ audReady' = IF video THEN audReady ELSE 1

(* av_file_write(handle, data, len): past the block above, the lead        *)
(* silence and the data are appended to audio_buffer and the encode loop   *)
(* starts.  The soft audio timer it initialises carries no state here.    *)
WriteCall(n) ==
    /\ mode = "write" /\ spc = "idle"
    /\ wbuf + Lead(n) + n <= MaxBacklog
    /\ \/ /\ AudioDropped
          /\ wbuf' = 0
          /\ wret' = "true"
          /\ UNCHANGED <<audReady, offset, wdata, spc>>
       \/ /\ HeaderFails
          /\ wret' = "false"
          /\ UNCHANGED <<audReady, wbuf, offset, wdata, spc>>
       \/ /\ Proceeds
          /\ wbuf' = wbuf + Lead(n) + n
          /\ offset' = 0
          /\ wdata' = TRUE
          /\ wret' = "true"
          /\ SGoto("w_loop")
    /\ UNCHANGED <<errs, trailer, lost, closed, vvars>>

(* Mutant of AfterFrame: the flush at close also stops after one frame.   *)
AfterFrameOnce == SGoto(IF wdata THEN "idle" ELSE "w_end")

(* Where the loop goes once this frame is done: a call with data encodes   *)
(* one frame (if (data) break;), the flush at close encodes them all.      *)
AfterFrame == SGoto(IF wdata THEN "idle" ELSE "w_loop")

(* write_frame of a packet, under context->mutex when a video thread      *)
(* exists; the muxer is used whether or not the header was written.       *)
PacketWritten == headless' = (headless \/ ~Header)

(* One pass of while (inuse >= bytes): the frame is read out of the       *)
(* buffer first, so a failure loses it.  More than ErrLimit failed packet  *)
(* writes in a row end the call with FALSE.                                 *)
EncodeFrame ==
    /\ spc = "w_loop"
    /\ \/ /\ wbuf < Frame
          /\ SGoto(IF wdata THEN "idle" ELSE "w_end")
          /\ UNCHANGED <<wbuf, errs, wret, headless>>
       \/ /\ wbuf >= Frame
          /\ wbuf' = wbuf - Frame
          /\ \E o \in Outcomes :
               CASE o = "enc_fail" -> SGoto("w_loop") /\ UNCHANGED <<errs, wret, headless>>
                 [] o = "no_pkt" -> AfterFrame /\ UNCHANGED <<errs, wret, headless>>
                 [] o = "ok" -> errs' = 0 /\ PacketWritten /\ AfterFrame /\ UNCHANGED wret
                 [] o = "wr_fail" ->
                      \* counted up to ErrLimit + 1: above it every count acts alike
                      /\ errs' = IF errs > ErrLimit THEN errs ELSE errs + 1
                      /\ PacketWritten
                      /\ IF errs + 1 > ErrLimit
                           THEN wret' = "false"
                                /\ SGoto(IF wdata THEN "idle" ELSE "w_end")
                           ELSE AfterFrame /\ UNCHANGED wret
    /\ UNCHANGED <<audReady, offset, wdata, trailer, lost, closed, pvars, vq,
                   finalize, tvars, thvars>>

(* if (context->closed): a buffer holding less than a frame is padded     *)
(* with silence up to one frame.                                           *)
Padded == IF wbuf < Frame THEN Frame ELSE wbuf

(* Mutant of PushEnd: close does not queue the NULL that ends the thread. *)
PushEndMissing == vq' = vq

(* switch_queue_push(context->eh.video_queue, NULL), if the queue exists: *)
(* it is created with the video thread.                                    *)
PushEnd == vq' = IF vth = "none" THEN vq ELSE Append(vq, "end")

(* av_file_close of a recording: closed = 1 and eh.finalize = 1, the NULL  *)
(* queued, then the join of the video thread.  The video caller has        *)
(* stopped calling av_file_write_video before the file is closed.          *)
CloseWrite ==
    /\ mode = "write" /\ spc = "idle" /\ vpc = "idle"
    /\ closed' = 1
    /\ finalize' = TRUE
    /\ PushEnd
    /\ SGoto("c_vjoin")
    /\ UNCHANGED <<audReady, wbuf, offset, errs, wdata, wret, trailer, lost,
                   pvars, tvars, headless, thvars>>

(* The join returns once the thread has, and close calls                  *)
(* av_file_write(handle, NULL, NULL): past the vid_ready block, and since *)
(* closed is set, a short buffer is padded before the loop.                *)
CloseFlushCall ==
    /\ spc = "c_vjoin"
    /\ vth \in {"none", "done"}
    /\ wdata' = FALSE
    /\ \/ /\ AudioDropped
          /\ wbuf' = 0
          /\ SGoto("w_end")
          /\ UNCHANGED <<audReady, wret>>
       \/ /\ HeaderFails
          /\ wret' = "false"
          /\ SGoto("w_end")
          /\ UNCHANGED <<audReady, wbuf>>
       \/ /\ Proceeds
          /\ wbuf' = Padded
          /\ SGoto("w_loop")
          /\ UNCHANGED wret
    /\ UNCHANGED <<closed, offset, errs, trailer, lost, vvars>>

(* flush_video_queue(q, 0): every entry still queued is freed.           *)
FlushVideoQueue == vq' = <<>>

(* The rest of av_file_close: the queue is flushed, av_write_trailer is    *)
(* called if context->has_video (which only av_file_write_video sets),     *)
(* and the output context and audio_buffer are destroyed with what is left *)
(* in it.                                                                  *)
CloseWriteEnd ==
    /\ spc = "w_end"
    /\ FlushVideoQueue
    /\ trailer' = (hasVideo = 1)
    /\ headless' = (headless \/ (hasVideo = 1 /\ ~Header))
    /\ lost' = wbuf
    /\ wbuf' = 0
    /\ SGoto("closed")
    /\ UNCHANGED <<closed, audReady, offset, errs, wdata, wret, pvars,
                   finalize, tvars, thvars>>

-----------------------------------------------------------------------------
(* The video caller, av_file_command and the clock                        *)

(* av_file_write_video of an image: the first call adds the video stream   *)
(* (add_stream, open_video), sets has_video and only then writes the       *)
(* header; a failure of either returns FALSE.  With has_video set, the     *)
(* first call creates the queue, the video timer (samplecount 0) and the    *)
(* thread, and every call queues a copy of the image.                      *)
VideoWrite ==
    /\ mode = "write" /\ video /\ closed = 0 /\ vpc = "idle" /\ vleft > 0
    /\ vleft' = vleft - 1
    /\ \/ /\ hasVideo = 0 /\ HeaderMayFail
          /\ UNCHANGED <<hasVideo, vhdr, vq, vth, shift, vpc>>
       \/ /\ hasVideo = 0 /\ HeaderMayFail
          /\ hasVideo' = 1
          /\ UNCHANGED <<vhdr, vq, vth, shift, vpc>>
       \/ /\ hasVideo' = 1
          /\ vhdr' = (vhdr \/ hasVideo = 0)
          /\ vq' = Append(vq, "img")
          /\ vth' = IF vth = "none" THEN "pop" ELSE vth
          /\ shift' = IF vth = "none" THEN real ELSE shift
          /\ vpc' = IF vidReady = 0 THEN "ready" ELSE "idle"
    /\ UNCHANGED <<audReady, wbuf, offset, errs, wdata, wret, trailer, lost,
                   closed, spc, video, vidReady, finalize, real, pausedAt,
                   headless, skip, skipCount, skipTotalCount, skipFreq,
                   lastTs, fpts, deltaSum, deltaI, dAvg, ptsOk>>

(* if (!context->vid_ready): switch_buffer_zero(audio_buffer) under the    *)
(* mutex, then vid_ready = 1.                                              *)
VideoReady ==
    /\ vpc = "ready"
    /\ wbuf' = 0
    /\ vidReady' = 1
    /\ vpc' = "idle"
    /\ UNCHANGED <<audReady, offset, errs, wdata, wret, trailer, lost, closed,
                   spc, video, hasVideo, vhdr, vleft, vq, finalize, tvars,
                   headless, thvars>>

(* av_file_command(SCFC_PAUSE_WRITE): vid_ready = 0, so audio is dropped   *)
(* until the next image, and record_timer_paused = now.                     *)
PauseWrite ==
    /\ mode = "write" /\ video /\ spc = "idle"
    /\ vidReady' = 0
    /\ pausedAt' = real
    /\ UNCHANGED <<audReady, wbuf, offset, errs, wdata, wret, trailer, lost,
                   closed, spc, video, hasVideo, vhdr, vpc, vleft, vq,
                   finalize, real, shift, headless, thvars>>

(* SCFC_RESUME_WRITE, if paused: last_ts = 0, the timers' start moves on   *)
(* by the time paused, and record_timer_paused = 0.                         *)
ResumeWrite ==
    /\ mode = "write" /\ video /\ spc = "idle" /\ pausedAt # 0
    /\ lastTs' = 0
    /\ shift' = shift + (real - pausedAt)
    /\ pausedAt' = 0
    /\ UNCHANGED <<audReady, wbuf, offset, errs, wdata, wret, trailer, lost,
                   closed, spc, pvars, vq, finalize, real, headless, vth, skip,
                   skipCount, skipTotalCount, skipFreq, fpts, deltaSum,
                   deltaI, dAvg, ptsOk>>

(* Time passes: the soft timer's samplecount is real - shift.              *)
Tick ==
    /\ mode = "write" /\ video /\ spc # "closed" /\ real < MaxTime
    /\ real' = real + 1
    /\ UNCHANGED <<audReady, wbuf, offset, errs, wdata, wret, trailer, lost,
                   closed, spc, pvars, vq, finalize, shift, pausedAt,
                   headless, thvars>>

-----------------------------------------------------------------------------
(* video_thread_run                                                        *)

(* While skipping, an image is dropped when                                *)
(*   (skip_total_count > 0 && !--skip_total_count)                         *)
(*     || ++skip_count >= skip_freq                                         *)
(* with C's short circuit: the decrement only when the count is positive,  *)
(* the increment only when the first part is false.                        *)
Decremented == IF skipTotalCount > 0 THEN skipTotalCount - 1 ELSE 0
FirstHit == skipTotalCount > 0 /\ Decremented = 0
Counted == IF FirstHit THEN skipCount ELSE skipCount + 1
Drops == FirstHit \/ Counted >= skipFreq

(* switch_queue_pop blocks until an entry is queued; NULL ends the loop.   *)
(* A dropped image sets skip_total_count = skip_total (1), skip_count = 0  *)
(* and counts skip down.  Without skipping, a queue holding more than      *)
(* SkipAbove entries after the pop starts skipping (skip = size, one frame *)
(* in 3 above SkipHard, else in 2) unless finalize is set.                  *)
VideoPop ==
    /\ vth = "pop" /\ vq # <<>>
    /\ vq' = Tail(vq)
    /\ \/ /\ Head(vq) = "end"
          /\ vth' = "flush"
          /\ UNCHANGED <<skip, skipCount, skipTotalCount, skipFreq>>
       \/ /\ Head(vq) = "img" /\ skip > 0 /\ Drops
          /\ skipTotalCount' = 1
          /\ skipCount' = 0
          /\ skip' = skip - 1
          /\ UNCHANGED <<vth, skipFreq>>
       \/ /\ Head(vq) = "img" /\ skip > 0 /\ ~Drops
          /\ skipTotalCount' = Decremented
          /\ skipCount' = Counted
          /\ vth' = "enc"
          /\ UNCHANGED <<skip, skipFreq>>
       \/ /\ Head(vq) = "img" /\ skip = 0
          /\ LET size == Len(vq) - 1 IN
               IF size > SkipAbove /\ ~finalize
                 THEN /\ skip' = size
                      /\ skipFreq' = IF size > SkipHard THEN 3 ELSE 2
                 ELSE UNCHANGED <<skip, skipFreq>>
          /\ vth' = "enc"
          /\ UNCHANGED <<skipCount, skipTotalCount>>
    /\ UNCHANGED <<audReady, wbuf, offset, errs, wdata, wret, trailer, lost,
                   closed, spc, pvars, finalize, tvars, headless, lastTs, fpts,
                   deltaSum, deltaI, dAvg, ptsOk>>

(* delta_avg = (int)(double)(delta_sum / delta_i), kept by its sign: the   *)
(* uint64 sum of negative deltas is a huge value whose cast gives INT_MIN *)
(* (cvttsd2si on x86-64), a negative delta.                                *)
AvgOf(s, i) == IF s < 0 THEN -1 ELSE IF s \div i = 0 THEN 0 ELSE 1

Samplecount == real - shift

(* With finalize set, pts += delta: delta_avg, computed once from          *)
(* delta_sum / delta_i while it is 0, else 1000 / fps or 33.  Only the     *)
(* sign of delta is kept: in this phase pts is only compared with pts.     *)
StampFinal ==
    LET recompute == deltaI # 0 /\ dAvg = 0
        avg == IF recompute THEN AvgOf(deltaSum, deltaI) ELSE dAvg
    IN /\ dAvg' = avg
       /\ deltaI' = IF recompute THEN 1 ELSE deltaI
       /\ deltaSum' = IF recompute THEN avg ELSE deltaSum
       /\ fpts' = fpts + (IF avg # 0 THEN avg ELSE 1)

(* Otherwise switch_core_timer_sync, delta_tmp = samplecount - last_ts     *)
(* (uint64): a non-zero delta is summed (delta_avg every 10th) and pts is  *)
(* samplecount; a zero delta gives pts samplecount + 1.                    *)
StampTimer ==
    LET d == Samplecount - lastTs IN
    IF d # 0
      THEN /\ deltaSum' = deltaSum + d
           /\ deltaI' = deltaI + 1
           /\ dAvg' = IF (deltaI + 1) % 10 = 0
                        THEN AvgOf(deltaSum + d, deltaI + 1) ELSE dAvg
           /\ fpts' = Samplecount
      ELSE /\ fpts' = Samplecount + 1
           /\ UNCHANGED <<deltaSum, deltaI, dAvg>>

(* The rest of the loop body: av_frame_make_writable may fail (continue); *)
(* while the recording is paused last_ts = 0 and the image is skipped;     *)
(* otherwise the frame is stamped, last_ts = pts, and                       *)
(* avcodec_encode_video2 may give a packet, written with write_frame under *)
(* the mutex (its result is not looked at).                                 *)
VideoEncode ==
    /\ vth = "enc"
    /\ vth' = "pop"
    /\ \/ /\ EncodeMayFail
          /\ UNCHANGED <<lastTs, fpts, deltaSum, deltaI, dAvg, ptsOk, headless>>
       \/ /\ pausedAt # 0
          /\ lastTs' = 0
          /\ UNCHANGED <<fpts, deltaSum, deltaI, dAvg, ptsOk, headless>>
       \/ /\ pausedAt = 0
          /\ IF finalize THEN StampFinal ELSE StampTimer
          /\ lastTs' = fpts'
          /\ ptsOk' = (ptsOk /\ (fpts = NoPts \/ fpts' > fpts))
          /\ \/ PacketWritten
             \/ UNCHANGED headless
    /\ UNCHANGED <<audReady, wbuf, offset, errs, wdata, wret, trailer, lost,
                   closed, spc, pvars, vq, finalize, tvars, skip, skipCount,
                   skipTotalCount, skipFreq>>

(* After the NULL: avcodec_encode_video2(NULL) drains the encoder, each    *)
(* packet written under the mutex, until none is left or a write fails;    *)
(* the queue is then emptied up to a NULL (nothing follows the NULL, the   *)
(* caller having stopped) and the thread returns.                           *)
VideoFlush ==
    /\ vth = "flush"
    /\ vth' = "done"
    /\ \/ PacketWritten
       \/ UNCHANGED headless
    /\ UNCHANGED <<audReady, wbuf, offset, errs, wdata, wret, trailer, lost,
                   closed, spc, pvars, vq, finalize, tvars, skip, skipCount,
                   skipTotalCount, skipFreq, lastTs, fpts, deltaSum, deltaI,
                   dAvg, ptsOk>>

-----------------------------------------------------------------------------
(* av_file_open: context zeroed, seek_ts = -1, offset from av_video_offset,*)
(* the buffer created; for reading, the reader thread created, which has  *)
(* not yet run.                                                            *)
Init ==
    /\ mode \in Modes
    /\ started = 0 /\ running = 0 /\ closed = 0
    /\ seekTs = -1
    /\ fpos = 0
    /\ buf = <<>>
    /\ rpc = IF mode = "read" THEN "start" ELSE "none"
    /\ spc = "idle"
    /\ ret = "none"
    /\ target = -1
    /\ pending = FALSE
    /\ audReady = 0 /\ wbuf = 0 /\ offset \in Offsets /\ errs = 0
    /\ wdata = FALSE /\ wret = "none" /\ trailer = FALSE /\ lost = 0
    /\ video \in IF mode = "write" THEN VideoModes ELSE {FALSE}
    /\ hasVideo = 0 /\ vidReady = 0 /\ vhdr = FALSE /\ vpc = "idle"
    /\ vleft = IF video THEN VideoFrames ELSE 0
    /\ vq = <<>> /\ vth = "none" /\ finalize = FALSE
    /\ skip = 0 /\ skipCount = 0 /\ skipTotalCount = 0 /\ skipFreq = 0
    /\ real = 1 /\ shift = 0 /\ pausedAt = 0
    /\ lastTs = 0 /\ fpts = NoPts
    /\ deltaSum = 0 /\ deltaI = 0 /\ dAvg = 0
    /\ headless = FALSE /\ ptsOk = TRUE

Reader ==
    /\ \/ ThreadStart \/ LoopHead \/ SeekZero \/ SeekFile \/ SeekMark
       \/ FillYield \/ FillRead \/ ThreadExit
    /\ UNCHANGED <<mode, wvars>>

(* The steps of a session call once it has begun.                          *)
InCall ==
    \/ /\ \/ ReadWait \/ ReadCheck \/ ReadBuffer \/ SeekCheck \/ SeekJoin
          \/ CloseRunning \/ CloseJoin
       /\ UNCHANGED <<mode, wvars>>
    \/ /\ \/ EncodeFrame \/ CloseFlushCall \/ CloseWriteEnd \/ VideoReady
       /\ UNCHANGED <<mode, rvars>>

VideoThread ==
    /\ VideoPop \/ VideoEncode \/ VideoFlush
    /\ UNCHANGED <<mode, rvars>>

Calls ==
    \/ /\ mode = "read"
       /\ \/ ReadCall \/ (\E s \in Targets : SeekCall(s)) \/ Flush \/ CloseFlag
       /\ UNCHANGED <<mode, wvars>>
    \/ /\ \/ \E n \in WriteLens : WriteCall(n)
          \/ CloseWrite \/ VideoWrite \/ PauseWrite \/ ResumeWrite \/ Tick
       /\ UNCHANGED <<mode, rvars>>

(* The handle is closed and its thread joined: nothing more happens.       *)
Finished ==
    /\ spc = "closed"
    /\ UNCHANGED vars

Next == Reader \/ VideoThread \/ InCall \/ Calls \/ Finished

Spec == Init /\ [][Next]_vars /\ WF_vars(Reader) /\ WF_vars(VideoThread)
             /\ WF_vars(InCall)

-----------------------------------------------------------------------------
(* Properties                                                              *)

TypeOK ==
    /\ started \in {0, 1} /\ running \in {0, 1} /\ closed \in {0, 1}
    /\ seekTs \in {-1, -2} \cup {SeekTs(s) : s \in Targets}
    /\ fpos \in 0 .. FileLen
    /\ buf \in Seq(0 .. FileLen - 1) /\ Len(buf) <= BufHigh + 1
    /\ rpc \in ReaderLabels /\ spc \in SessionLabels
    /\ ret \in {"none", "false", "blank", "audio"}
    /\ target \in {-1} \cup {SeekTs(s) : s \in Targets}
    /\ pending \in BOOLEAN
    /\ mode \in {"read", "write"}
    /\ audReady \in {0, 1} /\ wbuf \in 0 .. MaxBacklog /\ offset \in Offsets \cup {0}
    /\ errs \in 0 .. ErrLimit + 1 /\ wdata \in BOOLEAN
    /\ wret \in {"none", "true", "false"} /\ trailer \in BOOLEAN
    /\ lost \in 0 .. MaxBacklog
    /\ video \in BOOLEAN /\ hasVideo \in {0, 1} /\ vidReady \in {0, 1}
    /\ vhdr \in BOOLEAN /\ vpc \in {"idle", "ready"} /\ vleft \in 0 .. VideoFrames
    /\ vq \in Seq({"img", "end"}) /\ vth \in VideoLabels
    /\ skip \in 0 .. VideoFrames /\ skipCount \in 0 .. 3
    /\ skipTotalCount \in {0, 1} /\ skipFreq \in {0, 2, 3}
    /\ finalize \in BOOLEAN /\ real \in 1 .. MaxTime
    /\ pausedAt \in 0 .. MaxTime /\ shift \in Int /\ lastTs \in Int
    /\ fpts \in Int /\ deltaSum \in Int /\ deltaI \in Nat
    /\ dAvg \in {-1, 0, 1} /\ headless \in BOOLEAN /\ ptsOk \in BOOLEAN

(* The audio buffer always holds frames in file order: the reader zeroes  *)
(* it (1599-1601) before avformat_seek_file moves the demuxer, so audio    *)
(* from before a seek is never followed by audio from after it.  (Frames  *)
(* may be missing: a decode error ends the thread after its packet.)       *)
AudioInFileOrder ==
    \A i \in 1 .. Len(buf) - 1 : buf[i] < buf[i + 1]

(* av_file_close returns: once it has set closed, the reader thread leaves *)
(* its loop, wherever it was, and the join at 2317 completes.              *)
CloseEndsThread == spc = "c_run" ~> spc = "closed"

(* Every av_file_seek is eventually carried out by the reader thread      *)
(* (avformat_seek_file with the position asked for), unless the handle is *)
(* closed first.                                                           *)
SeekApplied == pending ~> (~pending \/ spc = "closed")

EofAfterReader ==
    [][spc = "r_check" /\ ret' = "false" /\ closed = 0 => rpc = "done"]_vars

(* Closing a recording encodes all the audio written to it but for less   *)
(* than one frame: av_file_write(NULL, NULL) at close pads a short buffer  *)
(* and loops until less than a frame is left, unless more than ErrLimit    *)
(* packet writes in a row failed and it gave up.                           *)
TailBounded == spc = "closed" /\ mode = "write" => lost < Frame \/ errs > ErrLimit

(* A recording whose header was written is finalised at close:           *)
(* av_write_trailer is called, which FFmpeg requires after                 *)
(* avformat_write_header for the file to be complete.                      *)
TrailerWritten == spc = "closed" /\ mode = "write" /\ Header => trailer

(* Nothing reaches the muxer of a file whose header was not written:      *)
(* audio and video packets and av_write_trailer need a successful          *)
(* avformat_write_header first.  av_file_write_video sets has_video before *)
(* writing the header, so after a failed header the next image starts the  *)
(* video thread and vid_ready, and the audio loop, the video thread and    *)
(* close all go on writing to the file.                                    *)
PacketsAfterHeader == ~headless

(* Every frame video_thread_run gives avcodec_encode_video2 has a pts      *)
(* above the one before it, as the encoder and muxer require: last_ts must *)
(* keep the timer-based pts increasing across frames of one timer tick,    *)
(* pauses and the finalize phase.                                          *)
PtsIncreasing == ptsOk

(* av_file_close of a recording returns from its join of the video thread *)
(* (2296): the NULL it queues reaches the thread, which drains the encoder *)
(* and returns, whatever it was doing when close began.                    *)
VideoThreadJoined == spc = "c_vjoin" ~> spc # "c_vjoin"

=============================================================================
