-------------------------- MODULE MCSerialSession --------------------------
EXTENDS SerialSession, TLC
=============================================================================
