------------------------------ MODULE MCDaemon -------------------------------
EXTENDS Daemon
=============================================================================
