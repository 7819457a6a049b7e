---------------------------- MODULE MCStackLock ----------------------------
EXTENDS StackLock
=============================================================================
