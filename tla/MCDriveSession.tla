--------------------------- MODULE MCDriveSession ---------------------------
EXTENDS DriveSession
=============================================================================
