---------------------------- MODULE MCAutostart -----------------------------
EXTENDS Autostart

MCLOAD == <<"L", "D", "RET">>
MCRUN  == <<"RUN", "RET">>
MCTexts == {MCLOAD, MCRUN, MCLOAD \o MCRUN}
MCContents == {<<>>, <<"X">>}
Setting(w, h, d, r) == [warp |-> w, handle |-> h, devices |-> d, random |-> r]
MCSettings == {Setting(TRUE, TRUE, TRUE, TRUE), Setting(TRUE, FALSE, TRUE, FALSE),
               Setting(FALSE, FALSE, TRUE, FALSE), Setting(TRUE, TRUE, FALSE, FALSE)}
MCBudgets == {[boots |-> 2, acts |-> 1], [boots |-> 1, acts |-> 2]}
=============================================================================
