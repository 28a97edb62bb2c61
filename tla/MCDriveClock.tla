---------------------------- MODULE MCDriveClock ----------------------------
EXTENDS DriveClock
=============================================================================
