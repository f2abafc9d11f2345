---------------------------- MODULE MCSercdLoop ----------------------------
\* Sizes in the proportions of the code: an escaped byte and a notification
\* fit twice into a buffer, a reply to a command once.
EXTENDS SercdLoop
=============================================================================
