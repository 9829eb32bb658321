---------------------------- MODULE RecordAv ----------------------------
(***************************************************************************)
(* mod_av's record_av application (avformat.c record_av_function).  The   *)
(* session thread ("app") sets up the output, then reads audio frames,    *)
(* buffers them and encodes and writes them with write_frame.  When the  *)
(* channel has video, it also creates video_thread_run ("vth") and        *)
(* installs video_read_callback, which the session's video reading calls  *)
(* with each image and which queues a copy in eh.video_queue.  The app    *)
(* holds the mutex eh.mutex while it encodes audio; the video thread      *)
(* takes it around each write_frame.  The output context fc, the streams  *)
(* and the av_file_context_t holding eh are locals of record_av_function. *)
(*                                                                         *)
(* Audio is counted in units of read_frame->datalen (ReadLen) and the     *)
(* encoder frame (bytes) in the same unit (Frame); images are "img", the  *)
(* NULL that ends the video thread is "end".  The encoder and muxer calls  *)
(* are abstracted to their outcomes.                                       *)
(***************************************************************************)
EXTENDS Integers, Sequences

CONSTANTS
    VideoModes,     \* whether the channel has video (has_video)
    Lead,           \* lead_frames: silence buffered before the first read
    ReadLen,        \* read_frame->datalen
    Frame,          \* bytes: audio_st.frame->nb_samples * 2 * channels
    EncodeMayFail,  \* whether avresample_convert / avcodec_encode_* may fail
    WriteMayFail,   \* whether write_frame of an audio packet may fail
    QLen,           \* SWITCH_CORE_QUEUE_LEN: the video queue blocks when full
    MaxReads,       \* bound on the frames read before the channel hangs up
    MaxImgs,        \* bound on the images the callback is given
    ThreadMayFail   \* whether switch_thread_create may fail (unchecked)

None == "none"

VARIABLES
    apc,        \* where record_av_function is
    hasVideo,   \* has_video
    inuse,      \* switch_buffer_inuse(buffer)
    mutex,      \* holder of eh.mutex: "app", "vth" or None
    vth,        \* where video_thread_run is ("none": not created)
    vq,         \* eh.video_queue
    cbOn,       \* video_read_callback is installed on the session
    trailer,    \* av_write_trailer was called
    reads,      \* frames read (bounded by MaxReads)
    imgs,       \* images given to the callback (bounded by MaxImgs)
    delayed     \* images the video encoder holds without a packet yet

vars == <<apc, hasVideo, inuse, mutex, vth, vq, cbOn, trailer,
          reads, imgs, delayed>>

AppLabels == {"start", "loop", "enc", "after", "join", "flush", "end", "done"}
VthLabels == {"none", "nothread", "pop", "enc", "write", "flush", "fwrite", "drain", "done"}

TypeOK ==
    /\ apc \in AppLabels
    /\ hasVideo \in BOOLEAN
    /\ inuse \in 0..(Lead + ReadLen + Frame)
    /\ mutex \in {"app", "vth", None}
    /\ vth \in VthLabels
    /\ vq \in Seq({"img", "end"}) /\ Len(vq) <= QLen
    /\ cbOn \in BOOLEAN /\ trailer \in BOOLEAN
    /\ reads \in 0..MaxReads /\ imgs \in 0..MaxImgs
    /\ delayed \in 0..MaxImgs

Init ==
    /\ apc = "start"
    /\ hasVideo = FALSE
    /\ inuse = 0
    /\ mutex = None
    /\ vth = "none"
    /\ vq = <<>>
    /\ cbOn = FALSE
    /\ trailer = FALSE
    /\ reads = 0
    /\ imgs = 0
    /\ delayed = 0

-----------------------------------------------------------------------------
(* record_av_function                                                      *)

(* Setup.  A channel that is not ready goes to done.  A failure of the     *)
(* codec, buffer, output context, avio_open, open_audio or                 *)
(* avformat_write_header goes to end, as does a failure of the video       *)
(* timer, after has_video and the mutex are set.  Otherwise, with video,  *)
(* the queue is created, the callback installed and the thread created;    *)
(* lead_frames of silence are buffered.  The result of                    *)
(* switch_thread_create is not checked: a failed one leaves                *)
(* context.eh.video_thread NULL and the app goes on.                       *)
NotReady ==
    /\ apc' = "done"
    /\ UNCHANGED <<hasVideo, inuse, vth, cbOn>>

SetupFails ==
    /\ apc' = "end"
    /\ \E v \in VideoModes : hasVideo' = v
    /\ UNCHANGED <<inuse, vth, cbOn>>

SetupDone ==
    /\ apc' = "loop"
    /\ \E v \in VideoModes :
          /\ hasVideo' = v
          /\ cbOn' = v
          /\ vth' \in IF v THEN {"pop"} \cup (IF ThreadMayFail THEN {"nothread"} ELSE {})
                         ELSE {"none"}
    /\ inuse' = Lead

Setup ==
    /\ apc = "start"
    /\ NotReady \/ SetupFails \/ SetupDone
    /\ UNCHANGED <<mutex, vq, trailer, reads, imgs, delayed>>

(* while (switch_channel_ready): read a frame.  CF_BREAK, a terminator     *)
(* DTMF and an unacceptable status break the loop, as does a hangup; a    *)
(* CNG frame is skipped.  Otherwise the app locks the mutex (if any),      *)
(* buffers the frame and encodes while inuse >= bytes.                    *)
ReadFrame ==
    /\ apc = "loop"
    /\ \/ /\ apc' = "after"
          /\ UNCHANGED <<inuse, mutex, reads>>
       \/ /\ reads < MaxReads
          /\ reads' = reads + 1
          /\ UNCHANGED <<apc, inuse, mutex>>
       \/ /\ reads < MaxReads
          /\ hasVideo => mutex = None
          /\ mutex' = IF hasVideo THEN "app" ELSE None
          /\ inuse' = inuse + ReadLen
          /\ reads' = reads + 1
          /\ apc' = "enc"
    /\ UNCHANGED <<hasVideo, vth, vq, cbOn, trailer, imgs, delayed>>

(* One pass of while (inuse >= bytes): bytes are read from the buffer,     *)
(* then a conversion or encode error continues, no packet continues, and   *)
(* a packet is written.  A failed write_frame jumps to end with the mutex  *)
(* still locked.  Once inuse < bytes the mutex is unlocked.                *)
EncodeOutcomes ==
    {"packet", "nopkt"} \cup (IF EncodeMayFail THEN {"err"} ELSE {})
        \cup (IF WriteMayFail THEN {"wfail"} ELSE {})

EncodeAudio ==
    /\ apc = "enc"
    /\ \/ /\ inuse >= Frame
          /\ inuse' = inuse - Frame
          /\ \E o \in EncodeOutcomes :
                apc' = IF o = "wfail" THEN "end" ELSE "enc"
          /\ UNCHANGED mutex
       \/ /\ inuse < Frame
          /\ mutex' = IF hasVideo THEN None ELSE mutex
          /\ apc' = "loop"
          /\ UNCHANGED inuse
    /\ UNCHANGED <<hasVideo, vth, vq, cbOn, trailer, reads, imgs, delayed>>

(* After the loop: remove the callback, and with video queue NULL (a push   *)
(* that blocks while the queue is full).                                   *)
PushNullDropped ==
    /\ Len(vq) < QLen
    /\ UNCHANGED vq
    /\ apc' = "join"

PushNull ==
    /\ Len(vq) < QLen
    /\ vq' = Append(vq, "end")
    /\ apc' = "join"

AfterLoop ==
    /\ apc = "after"
    /\ cbOn' = FALSE
    /\ IF hasVideo THEN PushNull
                   ELSE /\ apc' = "flush" /\ UNCHANGED vq
    /\ UNCHANGED <<hasVideo, inuse, mutex, vth, trailer, reads, imgs, delayed>>

(* switch_thread_join returns once video_thread_run has returned.  Given   *)
(* the NULL handle of a thread that was never created it does not return  *)
(* (the join is core code, not in this repository; it faults or waits).   *)
JoinNoWait ==
    /\ apc = "join"
    /\ apc' = "flush"
    /\ UNCHANGED <<hasVideo, inuse, mutex, vth, vq, cbOn, trailer,
                   reads, imgs, delayed>>

Join ==
    /\ apc = "join"
    /\ vth = "done"
    /\ apc' = "flush"
    /\ UNCHANGED <<hasVideo, inuse, mutex, vth, vq, cbOn, trailer,
                   reads, imgs, delayed>>

(* again: with video, flush the video encoder (an error goes to end        *)
(* without the trailer; a packet is written and the flush repeats), then   *)
(* av_write_trailer.                                                       *)
Flush ==
    /\ apc = "flush"
    /\ \/ /\ hasVideo /\ EncodeMayFail
          /\ apc' = "end"
          /\ UNCHANGED trailer
       \/ /\ apc' = "end"
          /\ trailer' = TRUE
    /\ UNCHANGED <<hasVideo, inuse, mutex, vth, vq, cbOn, reads, imgs, delayed>>

(* end: close the streams and fc, destroy the timer, codec and buffer, and *)
(* return; the locals fc, video_st and context go out of scope.            *)
End ==
    /\ apc = "end"
    /\ apc' = "done"
    /\ UNCHANGED <<hasVideo, inuse, mutex, vth, vq, cbOn, trailer, reads, imgs, delayed>>

App == Setup \/ ReadFrame \/ EncodeAudio \/ AfterLoop \/ Join \/ Flush \/ End

-----------------------------------------------------------------------------
(* video_thread_run, as record_av starts it                                *)

(* switch_queue_pop blocks until an entry is queued; NULL goes to endfor.  *)
(* Skipping, pts stamping and encoding are as in the file interface        *)
(* (AvFile); here they are abstracted to whether a packet comes out.       *)
VideoPopSkipsNull ==
    /\ vth = "pop" /\ vq # <<>>
    /\ vq' = Tail(vq)
    /\ vth' = IF Head(vq) = "end" THEN "pop" ELSE "enc"
    /\ UNCHANGED <<mutex, delayed>>

VideoPop ==
    /\ vth = "pop" /\ vq # <<>>
    /\ vq' = Tail(vq)
    /\ vth' = IF Head(vq) = "end" THEN "flush" ELSE "enc"
    /\ UNCHANGED <<mutex, delayed>>

(* An image that gives no packet (skipped, paused, an encode error, or    *)
(* held by the encoder) goes back to the pop; a packet is written under   *)
(* eh.mutex.                                                               *)
VideoEncode ==
    /\ vth = "enc"
    /\ \/ /\ vth' = "pop" /\ UNCHANGED mutex
          /\ delayed' \in {delayed, delayed + 1}
       \/ /\ mutex = None
          /\ mutex' = "vth"
          /\ vth' = "write"
          /\ UNCHANGED delayed
    /\ UNCHANGED vq

VideoWrite ==
    /\ vth \in {"write", "fwrite"}
    /\ mutex' = None
    /\ \/ vth = "write" /\ vth' = "pop"
       \/ vth = "fwrite" /\ vth' \in {"flush", "drain"}
    /\ UNCHANGED <<vq, delayed>>

(* endfor: flush the encoder, each packet (one per held image) written    *)
(* under eh.mutex; an error, no packet or a failed write ends the flush.   *)
VideoFlush ==
    /\ vth = "flush"
    /\ \/ /\ vth' = "drain" /\ UNCHANGED <<mutex, delayed>>
       \/ /\ mutex = None /\ delayed > 0
          /\ delayed' = delayed - 1
          /\ mutex' = "vth"
          /\ vth' = "fwrite"
    /\ UNCHANGED vq

(* switch_queue_trypop frees what is left up to a NULL, then the thread   *)
(* returns.                                                                *)
RECURSIVE UpToNull(_)
UpToNull(q) ==
    IF q = <<>> THEN <<>>
    ELSE IF Head(q) = "end" THEN Tail(q) ELSE UpToNull(Tail(q))

VideoDrain ==
    /\ vth = "drain"
    /\ vq' = UpToNull(vq)
    /\ vth' = "done"
    /\ UNCHANGED <<mutex, delayed>>

VideoThread ==
    /\ VideoPop \/ VideoEncode \/ VideoWrite \/ VideoFlush \/ VideoDrain
    /\ UNCHANGED <<apc, hasVideo, inuse, cbOn, trailer, reads, imgs>>

(* video_read_callback: the session's video reading hands it each image    *)
(* while it is installed; a copy is pushed, blocking while the queue is   *)
(* full.                                                                   *)
VideoReadCallbackNoBlock ==
    /\ cbOn /\ imgs < MaxImgs
    /\ vq' = Append(vq, "img")
    /\ imgs' = imgs + 1
    /\ UNCHANGED <<apc, hasVideo, inuse, mutex, vth, cbOn, trailer,
                   reads, delayed>>

VideoReadCallback ==
    /\ cbOn /\ imgs < MaxImgs
    /\ Len(vq) < QLen
    /\ vq' = Append(vq, "img")
    /\ imgs' = imgs + 1
    /\ UNCHANGED <<apc, hasVideo, inuse, mutex, vth, cbOn, trailer,
                   reads, delayed>>

(* record_av_function has returned and its thread with it.                 *)
Finished ==
    /\ apc = "done" /\ vth \in {"none", "done"}
    /\ UNCHANGED vars

Next == App \/ VideoThread \/ VideoReadCallback \/ Finished

(* The session thread and the video thread are scheduled by the OS; each   *)
(* step that is enabled is eventually taken.  The callback runs only as    *)
(* the call delivers video and is not fair.                                *)
Spec == Init /\ [][Next]_vars /\ WF_vars(App) /\ WF_vars(VideoThread)

-----------------------------------------------------------------------------
(* Properties                                                              *)

(* When record_av_function has returned, nothing still refers to its      *)
(* locals: video_thread_run (which uses context, fc and video_st) has     *)
(* returned and video_read_callback (whose user_data is &context.eh) is    *)
(* no longer installed.  This is what the join after the read loop and    *)
(* set_video_read_callback(NULL) are for, on every path to end.            *)
NothingOutlivesApp ==
    apc = "done" => vth \in {"none", "done"} /\ ~cbOn

(* A video thread that was started eventually returns: the NULL pushed     *)
(* after the read loop reaches it, and neither its writes nor its flush   *)
(* wait forever on eh.mutex.                                               *)
VideoThreadEnds == vth \notin {"none", "nothread"} ~> vth = "done"

(* Once the call has ended (the read loop is bounded by MaxReads),         *)
(* record_av_function returns: none of its waits (the mutex, the NULL     *)
(* push into a full queue, the thread join) lasts forever.                 *)
AppReturns == apc # "start" ~> apc = "done"

=============================================================================
