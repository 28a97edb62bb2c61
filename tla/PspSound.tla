------------------------------ MODULE PspSound ------------------------------
(***************************************************************************)
(* The sound output of the PSP: sound.c on the main thread writes samples  *)
(* into the FIFO, the audio thread of pl_snd.c takes them out through      *)
(* psp_sound_callback.  The audio thread has the higher priority: the main *)
(* thread runs only while the audio thread sleeps, either in               *)
(* sceAudioOutputBlocking or, when paused, in sceKernelDelayThread; the    *)
(* audio thread may wake up between any two steps of the main thread.      *)
(* Samples, their number in sound.c's own buffer, the speed adjustment and *)
(* the recording device are left out, as are a failing malloc in           *)
(* psp_sound_init and the SuspendTime resource.                            *)
(***************************************************************************)
EXTENDS Sfifo

CONSTANTS
  Fragment,  \* the bytes the audio thread asks for at a time
  Lengths,   \* the bytes sound_flush writes at a time
  MaxSids    \* the SIDs a snapshot may have

ASSUME SoundAssumption == /\ Fragment \in 1..Size
                          /\ Lengths \subseteq Nat \ {0}
                          /\ MaxSids \in Nat \ {0}

VARIABLES
  paused,           \* the audio thread sleeps until this is false (pl_snd.c)
  sound_rendering,  \* psp_sound_write goes on while this is true
  sound_initted,    \* psp_sound_init was called, psp_sound_close was not
  playdev,          \* sound.c has the device open
  issuspended,      \* sound.c has suspended the device
  menu,             \* the main thread is in the menu of the UI
  task,             \* what the main thread is doing
  sids,             \* the SIDs sid_snapshot_read_module still has to open
  left              \* the bytes psp_sound_write still has to write

driver  == <<paused, sound_rendering, sound_initted>>
engine  == <<playdev, issuspended>>
control == <<driver, engine, menu, task, sids, left>>
vars    == <<fifoVars, control>>

Init == /\ FifoInit
        /\ paused = TRUE /\ sound_rendering = FALSE /\ sound_initted = FALSE
        /\ playdev = FALSE /\ issuspended = FALSE
        /\ menu = FALSE /\ task = "none" /\ sids = 0 /\ left = 0

AudioSleeps == rpc = "out"
MainIsFree  == task = "none" /\ sids = 0

-----------------------------------------------------------------------------
(* The audio thread: channel_thread and psp_sound_callback.  A callback    *)
(* that finds nothing plays silence and changes nothing.                   *)
Callback == ~paused /\ ReadBegin(Fragment) /\ UNCHANGED control

Audio == \/ Callback
         \/ (CopyOut \/ ReadEnd) /\ UNCHANGED control

-----------------------------------------------------------------------------
(* psp_sound_suspend, psp_sound_resume                                     *)
PspSuspendPlays == /\ sound_rendering' = (sound_rendering /\ ~sound_initted)
                   /\ UNCHANGED paused
PspSuspend == /\ paused' = (paused \/ sound_initted)
              /\ sound_rendering' = (sound_rendering /\ ~sound_initted)

PspResumePaused == /\ sound_rendering' = (sound_rendering \/ sound_initted)
                   /\ UNCHANGED paused
PspResume == /\ paused' = (paused /\ ~sound_initted)
             /\ sound_rendering' = (sound_rendering \/ sound_initted)

(* sound_suspend, sound_resume                                             *)
SoundSuspendForgets == \/ /\ playdev /\ ~issuspended
                          /\ PspSuspend
                          /\ UNCHANGED <<sound_initted, engine>>
                       \/ /\ ~(playdev /\ ~issuspended)
                          /\ UNCHANGED <<driver, engine>>
SoundSuspend == \/ /\ playdev /\ ~issuspended
                   /\ PspSuspend
                   /\ issuspended' = TRUE
                   /\ UNCHANGED <<sound_initted, playdev>>
                \/ /\ ~(playdev /\ ~issuspended)
                   /\ UNCHANGED <<driver, engine>>

SoundResume == \/ /\ playdev /\ issuspended
                  /\ PspResume
                  /\ issuspended' = FALSE
                  /\ UNCHANGED <<sound_initted, playdev>>
               \/ /\ ~(playdev /\ issuspended)
                  /\ UNCHANGED <<driver, engine>>

(* vsync_suspend_speed_eval, sound_set_warp_mode(1)                        *)
Suspend == /\ MainIsFree /\ SoundSuspend
           /\ UNCHANGED <<fifoVars, menu, task, sids, left>>

(* sound_set_warp_mode(0), when warp mode ends                             *)
Resume == /\ MainIsFree /\ ~menu /\ SoundResume
          /\ UNCHANGED <<fifoVars, menu, task, sids, left>>

(* pause_trap, before and after psp_display_menu                           *)
EnterMenu == /\ MainIsFree /\ ~menu /\ menu' = TRUE /\ SoundSuspend
             /\ UNCHANGED <<fifoVars, task, sids, left>>

LeaveMenu == /\ MainIsFree /\ menu /\ menu' = FALSE /\ SoundResume
             /\ UNCHANGED <<fifoVars, task, sids, left>>

-----------------------------------------------------------------------------
(* sound_flush_psp, only called from the menu                              *)
FlushPsp == /\ MainIsFree /\ menu /\ sound_initted
            /\ task' = "flush"
            /\ ResetRead
            /\ UNCHANGED <<driver, engine, menu, sids, left>>

FlushEnd == /\ task = "flush" /\ task' = "none"
            /\ ResetWrite(buffer)
            /\ UNCHANGED <<driver, engine, menu, sids, left>>

(* sound_close of an open device; snapshot is the number of times it will  *)
(* be opened again at once.                                                *)
SoundClose(snapshot) ==
  /\ MainIsFree /\ playdev
  /\ task' = "close"
  /\ sids' = snapshot
  /\ PspSuspend
  /\ UNCHANGED <<fifoVars, sound_initted, engine, menu, left>>

(* The settings of sound.c have changed, or a snapshot is without sound.   *)
Close == SoundClose(0)

CloseReset == /\ task = "close"
              /\ ResetRead
              /\ UNCHANGED control

CloseEnd == /\ task = "close" /\ task' = "none"
            /\ ResetWrite(buffer)
            /\ sound_initted' = FALSE /\ playdev' = FALSE
            /\ UNCHANGED <<paused, sound_rendering, issuspended, menu, sids, left>>

(* sid_snapshot_read_module, also from the menu: it closes the device and  *)
(* opens it, in a version 1.3 snapshot once for every SID although it is   *)
(* closed only for the first.                                              *)
ReadSids == \E n \in 1..MaxSids :
              \/ SoundClose(n)
              \/ /\ MainIsFree /\ ~playdev
                 /\ sids' = n
                 /\ UNCHANGED <<fifoVars, driver, engine, menu, task, left>>

(* sound_open, also called by sound_run_sound when the device is not open. *)
Open == /\ task = "none"
        /\ ~playdev \/ sids > 0
        /\ task' = "open"
        /\ SoundSuspend
        /\ UNCHANGED <<fifoVars, menu, sids, left>>

OpenReset == /\ task = "open"
             /\ ResetRead
             /\ UNCHANGED control

OpenEnd == /\ task = "open" /\ task' = "none"
           /\ \E ring \in [Cells -> Bytes] : ResetWrite(ring)
           /\ paused' = FALSE /\ sound_rendering' = TRUE /\ sound_initted' = TRUE
           /\ playdev' = TRUE /\ issuspended' = FALSE
           /\ sids' = IF sids > 0 THEN sids - 1 ELSE 0
           /\ UNCHANGED <<menu, left>>

-----------------------------------------------------------------------------
(* sound_flush, once the device is open and not in warp mode, resumes it   *)
(* and writes whole fragments with psp_sound_write.                        *)
SoundFlush == /\ MainIsFree /\ ~menu /\ playdev
              /\ task' = "write"
              /\ left' \in Lengths
              /\ SoundResume
              /\ UNCHANGED <<fifoVars, menu, sids>>

(* While there is no room it sleeps and tries again.                       *)
WriteSome == /\ task = "write" /\ left > 0 /\ sound_rendering
             /\ \E data \in [1..Least(Space, left) -> Bytes] : WriteBegin(data)
             /\ UNCHANGED control

WriteStep == /\ task = "write"
             /\ CopyIn
             /\ UNCHANGED control

WriteMore == /\ task = "write"
             /\ WriteEnd
             /\ left' = left - Len(wdata)
             /\ UNCHANGED <<driver, engine, menu, task, sids>>

WriteReturns == /\ task = "write" /\ wpc = "out"
                /\ left = 0 \/ ~sound_rendering
                /\ task' = "none" /\ left' = 0
                /\ UNCHANGED <<fifoVars, driver, engine, menu, sids>>

Writing == WriteSome \/ WriteStep \/ WriteMore \/ WriteReturns

Settings == \/ Suspend \/ Resume \/ EnterMenu \/ LeaveMenu
            \/ FlushPsp \/ FlushEnd
            \/ Close \/ CloseReset \/ CloseEnd \/ ReadSids
            \/ Open \/ OpenReset \/ OpenEnd
            \/ SoundFlush

Main == AudioSleeps /\ (Settings \/ Writing)

Next == Audio \/ Main

(* The audio thread is woken by the end of each fragment.  The main thread *)
(* gets the processor whenever the audio thread sleeps for the length of a *)
(* fragment, over and over but never for good: strong fairness.            *)
Fairness == WF_vars(Audio) /\ SF_vars(AudioSleeps /\ Writing)

Spec == Init /\ [][Next]_vars /\ Fairness

-----------------------------------------------------------------------------
TypeOK == /\ FifoTypeOK
          /\ paused \in BOOLEAN /\ sound_rendering \in BOOLEAN
          /\ sound_initted \in BOOLEAN
          /\ playdev \in BOOLEAN /\ issuspended \in BOOLEAN
          /\ menu \in BOOLEAN
          /\ task \in {"none", "write", "flush", "close", "open"}
          /\ sids \in 0..MaxSids /\ left \in Nat

(* sound.c, the driver and the audio thread agree whether sound is on: an  *)
(* open device that sound.c has not suspended renders and is not paused,   *)
(* so that psp_sound_write neither drops samples nor waits for a reader    *)
(* that sleeps.                                                            *)
SuspensionAgrees ==
  task \notin {"close", "open"} =>
    /\ sound_initted <=> playdev
    /\ sound_rendering <=> ~paused
    /\ sound_rendering <=> playdev /\ ~issuspended

(* The driver keeps what the FIFO asks of its users: no callback copies    *)
(* while the positions are reset, although the audio thread plays on in    *)
(* the menu after a snapshot was loaded there.                             *)
KeepsContract == FifoSpec

(* Whatever is written is played in the end: a write that waits for room   *)
(* is not left waiting.                                                    *)
WriteEnds == task = "write" ~> task = "none"
=============================================================================
