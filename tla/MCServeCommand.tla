---------------------------- MODULE MCServeCommand ----------------------------
EXTENDS ServeCommand
=============================================================================
