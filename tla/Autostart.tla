----------------------------- MODULE Autostart ------------------------------
(***************************************************************************)
(* Autostart (autostart.c): resets the machine, waits for its prompt by    *)
(* looking at the screen once a frame, types LOAD, follows the messages or *)
(* the traps of the serial bus, types RUN, and borrows warp mode and true  *)
(* drive emulation meanwhile.  Composed with the keyboard buffer and with  *)
(* the machine that is typed to.  Injection of programs into memory, the   *)
(* monitor, and the state of the drive carried over when true drive        *)
(* emulation comes back are left out.                                      *)
(***************************************************************************)
EXTENDS Integers, KbdBuf, Kernal

CONSTANTS
  Settings,   \* [warp, handle, devices, random]: the resources AutostartWarp,
              \* AutostartHandleTrueDriveEmulation, VirtualDevices, ...Random
  Delay,      \* min_cycles, in frames
  Budgets     \* bound: how often the user boots and does other things

ASSUME AutostartAssumption ==
  /\ Settings \subseteq [warp : BOOLEAN, handle : BOOLEAN,
                         devices : BOOLEAN, random : BOOLEAN]
  /\ Delay \in Nat /\ InitFrames < Delay /\ Delay < LastFrame
  /\ {LOAD, RUN, LOAD \o RUN} \subseteq Texts  \* both in one call, LoadsDisk
  /\ <<>> \in Contents                        \* as a reset leaves the buffer
  /\ Budgets \subseteq [boots : Nat, acts : Nat]

VARIABLES
  auto,       \* the state of autostart and of what it borrows
  kernal,     \* the machine that is typed to
  settings,
  user        \* what the user has done and wants; not a part of the code

vars == <<kbd, auto, kernal, settings, user>>

Modes == {"NONE", "ERROR", "HASTAPE", "PRESSPLAYONTAPE", "LOADINGTAPE",
          "HASDISK", "LOADINGDISK", "HASSNAPSHOT", "WAITLOADREADY",
          "WAITLOADING", "WAITSEARCHINGFOR", "DONE"}

AutoState == [autostartmode  : Modes,
              wait_for_reset : BOOLEAN,
              ignore_reset   : BOOLEAN,
              entered_rom    : BOOLEAN,
              initial_delay  : Delay..Delay + 1,
              orig_warp      : {-1, 0, 1},
              orig_tde       : {0, 1},
              warp           : {0, 1},         \* the resource WarpMode
              tde            : {0, 1},         \* the resource DriveTrueEmulation
              attention      : BOOLEAN,        \* the callbacks of the serial traps
              eof            : BOOLEAN,
              play           : BOOLEAN,        \* datasette_control(START)
              trap           : BOOLEAN,        \* load_snapshot_trap is pending
              reset          : {"none", "asked", "due"}]  \* machine_trigger_reset

InProgress == auto.autostartmode \notin {"NONE", "ERROR", "DONE"}

-----------------------------------------------------------------------------
(* The functions of autostart.c take and give the keyboard buffer and the  *)
(* state of autostart.                                                     *)
Become(s) == kbd' = s.kbd /\ auto' = s.auto

InMode(s, mode) == [s EXCEPT !.auto.autostartmode = mode]
Types(s, text, delayed) == [s EXCEPT !.kbd = Feed(@, text, delayed)]

EnableWarp(a) == IF settings.warp THEN [a EXCEPT !.orig_warp = a.warp, !.warp = 1]
                                  ELSE a

DisableWarp(s) == IF settings.warp /\ s.auto.orig_warp = 0
                  THEN [s EXCEPT !.auto.warp = 0] ELSE s

Finish(s) == Types(s, RUN, settings.random)
Done(s)   == InMode(s, "DONE")
GivesUp(s) == InMode(DisableWarp(s), "ERROR")
Leaves(s) == Done(Finish(DisableWarp(s)))

DiskEofForgetsWarp(s) ==
  LET t == IF settings.handle THEN [s EXCEPT !.auto.tde = s.auto.orig_tde] ELSE s
      f == IF t.auto.autostartmode = "NONE" THEN t ELSE Finish(t)
  IN  [Done(f) EXCEPT !.auto.eof = FALSE]
DiskEofKeepsDriveOnReset(s) ==
  LET t == IF settings.handle THEN [s EXCEPT !.auto.tde = s.auto.orig_tde] ELSE s
      f == IF s.auto.autostartmode = "NONE" THEN s ELSE Finish(t)
  IN  DisableWarp([Done(f) EXCEPT !.auto.eof = FALSE])
DiskEof(s) ==
  LET t == IF settings.handle THEN [s EXCEPT !.auto.tde = s.auto.orig_tde] ELSE s
      f == IF t.auto.autostartmode = "NONE" THEN t ELSE Finish(t)
  IN  DisableWarp([Done(f) EXCEPT !.auto.eof = FALSE])

(* The screen against a text: the characters that differ are spaces on a   *)
(* screen that is still being written.                                     *)
Check(s, text) ==
  LET waits == text = "READY."
      line  == IF waits THEN LineAbove(kernal) ELSE Line(kernal)
  IN  IF s.kbd.buffer # <<>> \/ (waits /\ ~Blinking(kernal)) THEN "NOT_YET"
      ELSE IF line = text THEN "YES" ELSE IF line = "blank" THEN "NOT_YET" ELSE "NO"

Answer(s, text, yes, no, notYet) ==
  CASE Check(s, text) = "YES" -> yes
    [] Check(s, text) = "NO"  -> no
    [] OTHER                  -> notYet

CheckRomArea(s) ==
  IF ~s.auto.entered_rom
  THEN [s EXCEPT !.auto.entered_rom = InRom(kernal)]
  ELSE IF InRam(kernal) THEN Done(DisableWarp(s)) ELSE s

(* LOAD"...",8,1 -- by the traps, by the drive followed on the screen, or  *)
(* by the drive and not followed.                                          *)
LoadsDisk(s) ==
  LET a     == s.auto
      traps == IF settings.handle THEN settings.devices ELSE a.tde = 0
      typed == Types([s EXCEPT !.auto.orig_tde = a.tde,
                               !.auto.tde = IF ~settings.handle THEN a.tde
                                            ELSE IF traps THEN 0 ELSE 1],
                     LOAD, FALSE)
  IN  IF traps THEN [InMode(typed, "LOADINGDISK") EXCEPT !.auto.attention = TRUE]
      ELSE IF settings.warp THEN InMode(typed, "WAITSEARCHINGFOR")
      ELSE Done(Finish(typed))

Advanced(s) ==
  CASE s.auto.autostartmode = "HASTAPE" ->
         Answer(s, "READY.",
                [InMode(Types(s, LOAD, FALSE), "PRESSPLAYONTAPE")
                   EXCEPT !.auto.entered_rom = FALSE],
                GivesUp(s), s)
    [] s.auto.autostartmode = "PRESSPLAYONTAPE" ->
         Answer(s, "PRESS PLAY ON TAPE",
                [InMode(s, "LOADINGTAPE") EXCEPT !.auto.play = TRUE],
                GivesUp(s), s)
    [] s.auto.autostartmode \in {"LOADINGTAPE", "WAITLOADREADY"} ->
         Answer(s, "READY.", Leaves(s), GivesUp(s), CheckRomArea(s))
    [] s.auto.autostartmode = "HASDISK" ->
         Answer(s, "READY.", LoadsDisk(s),
                GivesUp([s EXCEPT !.auto.orig_tde = s.auto.tde]), s)
    [] s.auto.autostartmode = "HASSNAPSHOT" ->
         Answer(s, "READY.", [Done(s) EXCEPT !.auto.trap = TRUE],
                InMode(s, "ERROR"), s)
    [] s.auto.autostartmode = "WAITSEARCHINGFOR" ->
         Answer(s, "SEARCHING FOR", InMode(s, "WAITLOADING"), GivesUp(s), s)
    [] s.auto.autostartmode = "WAITLOADING" ->
         Answer(s, "LOADING",
                [InMode(s, "WAITLOADREADY") EXCEPT !.auto.entered_rom = FALSE],
                IF Check(s, "SEARCHING FOR") = "YES" THEN s ELSE GivesUp(s), s)
    [] OTHER -> s

(* A boot that has just failed gives true drive emulation back.            *)
Restored(s, t) ==
  IF t.auto.autostartmode = "ERROR" /\ s.auto.autostartmode # "ERROR" /\ settings.handle
  THEN [t EXCEPT !.auto.tde = t.auto.orig_tde] ELSE t

Advance(s) ==
  IF s.kbd.frame < s.auto.initial_delay
  THEN [s EXCEPT !.auto.wait_for_reset = FALSE]
  ELSE IF s.auto.wait_for_reset THEN s
  ELSE Restored(s, Advanced(s))

AutostartReset(s) ==
  LET off == InMode(s, "NONE")
      ended == IF s.auto.autostartmode = "DONE" THEN off
               ELSE InMode(DiskEof(off), "NONE")
      t == IF s.auto.ignore_reset \/ s.auto.autostartmode \in {"NONE", "ERROR"}
           THEN s ELSE ended
  IN  [t EXCEPT !.auto.ignore_reset = FALSE]

-----------------------------------------------------------------------------
AutostartInit ==
  /\ kbd = [Idle EXCEPT !.frame = LastFrame]
  /\ kernal = Ready(Off)
  /\ settings \in Settings
  /\ \E tde \in {0, 1}, left \in Budgets :
       /\ settings.devices \/ settings.handle \/ tde = 1
       /\ auto = [autostartmode |-> "NONE", wait_for_reset |-> FALSE,
                  ignore_reset |-> FALSE, entered_rom |-> FALSE,
                  initial_delay |-> Delay, orig_warp |-> -1, orig_tde |-> tde,
                  warp |-> 0, tde |-> tde, attention |-> FALSE, eof |-> FALSE,
                  play |-> FALSE, trap |-> FALSE, reset |-> "none"]
       /\ user = [left |-> left, overlapped |-> FALSE, disturbed |-> TRUE,
                  wanted |-> tde]

Now == [kbd |-> kbd, auto |-> auto]

(* The end of a frame: kbdbuf_flush comes first (vsyncarch_presync), then  *)
(* autostart_advance (machine_vsync_hook).  The KERNAL reaches its prompt  *)
(* before the delay is over, which is what the delay is for; a reset is    *)
(* made an instruction or two after it was asked for, which is time for    *)
(* one end of a frame at the most.                                         *)
EndOfFrameHookFirst ==
  LET s == Advance([Now EXCEPT !.kbd = Passed(@)])
  IN  [s EXCEPT !.kbd = Flush(@)]
EndOfFrame ==
  Advance([kbd  |-> Flush(Passed(kbd)),
           auto |-> [auto EXCEPT !.reset = IF @ = "asked" THEN "due" ELSE @]])

Vsync == /\ MayPass(kbd)
         /\ auto.reset # "due"
         /\ kernal.doing = "starting" => kbd.frame + 1 < Delay
         /\ Become(EndOfFrame)
         /\ kernal' = Shown(kernal)
         /\ UNCHANGED <<settings, user>>

TypesReturn == FlushAlarm /\ UNCHANGED <<auto, kernal, settings, user>>

(* maincpu_reset.                                                          *)
MachineReset ==
  /\ auto.reset # "none"
  /\ Become(AutostartReset([kbd  |-> [Restarted(kbd) EXCEPT !.buffer = <<>>],
                            auto |-> [auto EXCEPT !.reset = "none",
                                                  !.trap = FALSE]]))
  /\ kernal' = [At(kernal, "starting") EXCEPT !.program = FALSE]
  /\ UNCHANGED <<settings, user>>

-----------------------------------------------------------------------------
(* The machine.                                                            *)
Start == /\ kernal.doing = "starting"
         /\ kernal' = Ready(kernal)
         /\ UNCHANGED <<kbd, auto>>

ReadKey == /\ kernal.doing = "prompt"
           /\ TakeKey
           /\ kernal' \in Enter(kernal, Head(kbd.buffer), auto.tde = 1,
                                settings.devices)
           /\ UNCHANGED auto

GoOn == kernal' \in Goes(kernal, auto.play) /\ UNCHANGED <<kbd, auto>>

(* serial_trap_attention: the file is opened.                              *)
Attention ==
  /\ kernal.doing = "searching" /\ kernal.via = "trap" /\ kernal.medium = "disk"
  /\ auto' = IF auto.attention THEN [auto EXCEPT !.attention = FALSE, !.eof = TRUE]
                                ELSE auto
  /\ kernal' = IF kernal.file = "missing" THEN Ready(kernal) ELSE At(kernal, "loading")
  /\ UNCHANGED kbd

(* serial_trap_receive: the last byte.                                     *)
ReceiveEof ==
  /\ kernal.doing = "loading" /\ kernal.via = "trap" /\ kernal.medium = "disk"
  /\ Become(IF auto.eof THEN DiskEof(Now) ELSE Now)
  /\ kernal' \in Loaded(kernal)

LoadSnapshot ==
  /\ auto.trap
  /\ auto' = [auto EXCEPT !.trap = FALSE]
  /\ kernal' \in IF kernal.file = "missing" THEN {kernal} ELSE Runs(kernal)
  /\ UNCHANGED kbd

Machine == /\ Start \/ ReadKey \/ GoOn \/ Attention \/ ReceiveEof \/ LoadSnapshot
           /\ UNCHANGED <<settings, user>>

-----------------------------------------------------------------------------
(* The user, at the keyboard or in the menu.                               *)
Disturbs == /\ user.left.acts > 0
            /\ user' = [user EXCEPT !.left.acts = @ - 1, !.disturbed = TRUE]
            /\ UNCHANGED settings

UserTypes == /\ kernal.doing \notin {"cleared", "starting"}
             /\ PressKey
             /\ Disturbs
             /\ UNCHANGED <<auto, kernal>>

UserLoads == /\ kernal.doing = "prompt" /\ kernal.line = <<>> /\ kbd.buffer = <<>>
             /\ kernal' = [Loads(kernal, auto.tde = 1, settings.devices)
                             EXCEPT !.line = <<>>]
             /\ Disturbs
             /\ UNCHANGED <<kbd, auto>>

UserResets == /\ auto' = [auto EXCEPT !.reset = "asked"]
              /\ Disturbs
              /\ UNCHANGED <<kbd, kernal>>

UserChanges == /\ ~InProgress /\ kernal.doing \in {"prompt", "running"}
               /\ settings.devices \/ settings.handle
               /\ user.left.acts > 0
               /\ auto' = [auto EXCEPT !.tde = 1 - @]
               /\ user' = [user EXCEPT !.left.acts = @ - 1, !.disturbed = TRUE,
                                       !.wanted = 1 - auto.tde]
               /\ UNCHANGED <<kbd, kernal, settings>>

(* reboot_for_autostart.                                                   *)
Mode(medium) == CASE medium = "disk" -> "HASDISK"
                  [] medium = "tape" -> "HASTAPE"
                  [] OTHER           -> "HASSNAPSHOT"

Rebooted(mode, delay) ==
  LET a == [auto EXCEPT !.autostartmode = mode, !.ignore_reset = TRUE,
                        !.wait_for_reset = TRUE, !.initial_delay = delay,
                        !.play = FALSE, !.reset = "asked"]
  IN  IF mode = "HASSNAPSHOT" THEN a ELSE EnableWarp(a)

Boot == \E medium \in {"disk", "tape", "snapshot"}, file \in {"basic", "auto", "missing"} :
  /\ user.left.boots > 0
  /\ \E delay \in IF settings.random THEN {Delay, Delay + 1} ELSE {Delay} :
       auto' = Rebooted(Mode(medium), delay)
  /\ kernal' = [Off EXCEPT !.medium = medium, !.file = file]
  /\ \E b \in Contents : kbd' = [kbd EXCEPT !.buffer = b]
  /\ user' = [user EXCEPT !.left.boots = @ - 1,
                          !.overlapped = @ \/ InProgress,
                          !.disturbed = kbd.queue # <<>>]
  /\ UNCHANGED settings

(* The image cannot be attached.                                           *)
BootFails == /\ kernal.doing \in {"starting", "prompt", "running"}
             /\ user.left.boots > 0
             /\ auto' = [auto EXCEPT !.autostartmode = "ERROR"]
             /\ kernal' = [kernal EXCEPT !.file = "missing"]
             /\ user' = [user EXCEPT !.left.boots = @ - 1, !.disturbed = TRUE,
                                     !.overlapped = @ \/ InProgress]
             /\ UNCHANGED <<kbd, settings>>

AutostartNext ==
  \/ Vsync \/ TypesReturn \/ MachineReset \/ Machine
  \/ UserTypes \/ UserLoads \/ UserResets \/ UserChanges \/ Boot \/ BootFails

(* Frames pass, the alarm is dispatched, a reset that was asked for is     *)
(* made, and the program in ROM goes on; the user need not do anything.    *)
AutostartSpec ==
  /\ AutostartInit /\ [][AutostartNext]_vars
  /\ WF_vars(Vsync) /\ WF_vars(TypesReturn)
  /\ WF_vars(MachineReset) /\ WF_vars(Machine)

-----------------------------------------------------------------------------
TypeOK == KbdTypeOK /\ auto \in AutoState /\ kernal \in Kernel(Chars \union Keys)

(* Warp mode is off again when a boot has ended, however it has ended,     *)
(* unless another boot was asked for while it was in progress              *)
(* (disable_warp_if_was_requested).                                        *)
WarpGivenBack == ~InProgress /\ ~user.overlapped => auto.warp = 0

(* So is true drive emulation, if what autostart remembers of it is still  *)
(* what the user has chosen, and if there are virtual devices to load from *)
(* (disk_eof_callback, autostart_advance).                                 *)
TdeGivenBack == (/\ ~InProgress /\ ~user.overlapped /\ settings.devices
                 /\ auto.orig_tde = user.wanted) => auto.tde = user.wanted

(* What a boot cannot be held to its promise for.                          *)
Disturbed == user.disturbed \/ kernal.file = "missing"

(* A boot that nobody disturbs and that finds its file starts the program, *)
(* whatever the timing of frames, alarm and machine (autostart_advance).   *)
BootRuns == InProgress /\ ~Disturbed ~> kernal.doing = "running" \/ Disturbed
=============================================================================
