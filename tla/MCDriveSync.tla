---------------------------- MODULE MCDriveSync ----------------------------
EXTENDS DriveSync
=============================================================================
