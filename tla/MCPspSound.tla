----------------------------- MODULE MCPspSound -----------------------------
EXTENDS PspSound
=============================================================================
