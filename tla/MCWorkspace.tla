---------------------------- MODULE MCWorkspace ----------------------------
EXTENDS Workspace, TLC
=============================================================================
