------------------------------ MODULE MCCpuClock ------------------------------
EXTENDS CpuClock
=============================================================================
