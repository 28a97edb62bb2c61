------------------------------- MODULE Kernal -------------------------------
(***************************************************************************)
(* The machine that is being typed to, as far as autostart.c looks at it:  *)
(* the screen editor of the KERNAL, LOAD and RUN, and the messages they    *)
(* leave on the screen.  External: the program in ROM, modelled by what    *)
(* the emulator reads of its memory and by the traps it runs into.         *)
(***************************************************************************)
EXTENDS Naturals, Sequences

CONSTANTS LOAD, RUN    \* lines that end with a RETURN

Body(text) == SubSeq(text, 1, Len(text) - 1)
EndsLine(c) == c = LOAD[Len(LOAD)]

\* The machine, whose screen shows the given characters.
Kernel(C) == [doing   : {"cleared", "starting", "prompt", "press", "searching",
                         "loading", "failing", "running"},
              line    : Seq(C),                        \* the cursor's line
              above   : {"READY.", "blank", "other"},  \* the line above it
              program : BOOLEAN,                       \* there is one in memory
              seen    : BOOLEAN,                       \* a frame has shown this
              via     : {"drive", "trap"},             \* who serves the LOAD
              medium  : {"disk", "tape", "snapshot"},
              file    : {"basic", "auto", "missing"}]  \* what is on it

Off == [doing |-> "cleared", line |-> <<>>, above |-> "blank",
        program |-> FALSE, seen |-> FALSE, via |-> "drive",
        medium |-> "disk", file |-> "basic"]

At(m, doing) == [m EXCEPT !.doing = doing, !.seen = FALSE]
Ready(m) == [At(m, "prompt") EXCEPT !.line = <<>>, !.above = "READY."]

Runs(m) == {[At(m, "running") EXCEPT !.above = x] : x \in {"blank", "other"}}

(* RETURN.  A disk is served by the drive, by traps or by nobody.          *)
Loads(m, truedrive, traps) ==
  IF m.medium = "tape" THEN At(m, "press")
  ELSE IF truedrive THEN [At(m, "searching") EXCEPT !.via = "drive"]
  ELSE IF traps THEN [At(m, "searching") EXCEPT !.via = "trap"]
  ELSE Ready(m)

Execute(m, truedrive, traps) ==
  CASE m.line = Body(LOAD)              -> {Loads(m, truedrive, traps)}
    [] m.line = Body(RUN) /\ m.program  -> Runs(m)
    [] m.line = <<>>                    -> {[m EXCEPT !.above = "blank"]}
    [] OTHER                            -> {Ready(m)}

(* The screen editor takes a character.  "HOME" moves the cursor.          *)
Enter(m, c, truedrive, traps) ==
  IF EndsLine(c) THEN {[n EXCEPT !.line = <<>>] : n \in Execute(m, truedrive, traps)}
  ELSE IF c = "HOME" THEN {[m EXCEPT !.line = <<>>, !.above = "other"]}
  ELSE {[m EXCEPT !.line = Append(@, c)]}

(* The end of a LOAD: a program that starts itself leaves the ROM.         *)
Loaded(m) == IF m.file = "auto" THEN Runs(m)
             ELSE {[Ready(m) EXCEPT !.program = TRUE]}

MayGoOn(m) == \/ m.medium = "tape"
              \/ m.via = "drive" /\ m.seen

(* A LOAD goes on without the emulator noticing: from a tape once its      *)
(* motor runs, and from a drive, whose messages stay for a frame at least, *)
(* but not that of an error.                                               *)
Goes(m, play) ==
  CASE m.doing = "press"   -> IF play THEN {At(m, "searching")} ELSE {}
    [] m.doing = "failing" -> {Ready(m)}
    [] m.doing = "searching" /\ MayGoOn(m)
         -> IF m.file = "missing" THEN {At(m, "failing"), Ready(m)}
                                  ELSE {At(m, "loading")}
    [] m.doing = "loading" /\ MayGoOn(m)
         -> Loaded(m)
    [] OTHER -> {}

-----------------------------------------------------------------------------
InRam(m) == m.doing = "running"
InRom(m) == m.doing \notin {"running", "cleared"}

(* What check() makes of the screen.  The message a LOAD shows is on the   *)
(* cursor's line, READY. on the line above.                                *)
Line(m) == CASE m.doing = "press"     -> "PRESS PLAY ON TAPE"
             [] m.doing = "searching" -> "SEARCHING FOR"
             [] m.doing = "loading"   -> "LOADING"
             [] m.doing = "prompt"    -> IF m.line = <<>> THEN "blank" ELSE "other"
             [] m.doing = "running"   -> m.above
             [] m.doing = "starting"  -> "blank"
             [] OTHER                 -> "other"

Blinking(m) == \/ m.doing = "cleared"
               \/ m.doing = "prompt" /\ m.line = <<>>
LineAbove(m) == IF m.doing = "cleared" THEN "other" ELSE m.above

Shown(m) == [m EXCEPT !.seen = TRUE]
=============================================================================
