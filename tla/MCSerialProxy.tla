---------------------------- MODULE MCSerialProxy ----------------------------
EXTENDS SerialProxy
=============================================================================
