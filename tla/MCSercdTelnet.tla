--------------------------- MODULE MCSercdTelnet ---------------------------
\* Three options stand for all: one offered and asked for (binary), one asked
\* for (the COM port option) and one that is not supported.
EXTENDS SercdTelnet

CONSTANTS binary, comport, other

MCInitialOffers == <<Msg("WILL", binary), Msg("DO", binary), Msg("DO", comport)>>
=============================================================================
