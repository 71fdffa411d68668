---------------------------- MODULE MCHostBridge ----------------------------
EXTENDS HostBridge
=============================================================================
