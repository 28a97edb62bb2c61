-------------------------------- MODULE MCCia --------------------------------
EXTENDS CiaComparison

(* Run, one shot, force load; timer B counting the clock or timer A.       *)
Run == {"START"}
OneShot == {"START", "CR_ONESHOT"}
Load == {"START", "FLOAD"}
Cascade == {"START", "COUNTTA"}

Setup(la, lb, mask, cra, crb) ==
  [la |-> la, lb |-> lb, mask |-> mask, cra |-> cra, crb |-> crb]

(* Both timers run and one of them may interrupt; timer B counts timer A;  *)
(* a timer is left to be started.                                          *)
MCSetups == {Setup(2, 1, {"TA"}, Run, Run),
             Setup(1, 2, {"TB"}, Run, Run),
             Setup(1, 1, {"TB"}, Run, Cascade),
             Setup(0, 1, {"TA"}, Run, Cascade),
             Setup(3, 2, {}, {}, OneShot)}

MCControlA == {Run, OneShot, {}}
MCControlB == {Load, Cascade, {}}
MCWrittenMasks == {{"IR", "TA"}, {"IR", "TB"}, {"TA", "TB"}}
=============================================================================
