----------------------------- MODULE SercdPort -----------------------------
(***************************************************************************)
(* The settings of the port in the numbers of RFC 2217, unix.c: the flags  *)
(* of struct termios that sercd changes, what Set* does to them and what   *)
(* Get* and Termios2Tncom* make of them.  A speed is the four bytes of its *)
(* value in network order; the control lines that go in are external.      *)
(***************************************************************************)
EXTENDS Integers, Sequences

CONSTANTS Speeds, Speed9600

\* Reported for a speed that sercd does not know.
NoSpeed == <<0, 0, 0, 0>>

\* The table of unix.c has no speed with a byte CR or 255.
ASSUME PortAssumption ==
    /\ Speeds \subseteq [1..4 -> 0..255 \ {13, 255}]
    /\ Speed9600 \in Speeds /\ NoSpeed \notin Speeds

Termios == [speed : Speeds \cup {NoSpeed}, size : 5..8, PARENB : BOOLEAN,
            PARODD : BOOLEAN, CSTOPB : BOOLEAN, IXON : BOOLEAN, IXOFF : BOOLEAN,
            CRTSCTS : BOOLEAN, DTR : BOOLEAN, RTS : BOOLEAN]

\* After OpenPort: cfmakeraw sets eight bits without parity and clears IXON; the
\* rest is as the last user of the device left it.  The driver raises the lines.
InitialPorts ==
    {p \in Termios : p.size = 8 /\ ~p.PARENB /\ ~p.IXON /\ p.DTR /\ p.RTS}

SetPortSpeed(p, v) == [p EXCEPT !.speed = IF v \in Speeds THEN v ELSE Speed9600]
GetPortSpeed(p) == p.speed

SetPortDataSize(p, v) == [p EXCEPT !.size = IF v \in 5..8 THEN v ELSE 8]
GetPortDataSize(p) == p.size

SetPortParityBug(p, v) ==                               \* even keeps the odd bit
    [p EXCEPT !.PARENB = v \in {2, 3}, !.PARODD = @ \/ v = 2]

\* 2 is odd, 3 is even; mark and space are set to none.
SetPortParity(p, v) ==
    [p EXCEPT !.PARENB = v \in {2, 3},
              !.PARODD = IF v \in {2, 3} THEN v = 2 ELSE @]
GetPortParity(p) == IF ~p.PARENB THEN 1 ELSE IF p.PARODD THEN 2 ELSE 3

SetPortStopSize(p, v) == [p EXCEPT !.CSTOPB = v = 2]
GetPortStopSize(p) == IF p.CSTOPB THEN 2 ELSE 1

\* 1, 2 and 3 are no flow control, XON/XOFF and hardware, both ways; 8, 9, 11 and
\* 12 set a line; everything else is ignored.
SetPortFlowControl(p, how) ==
    [p EXCEPT !.IXON = IF how \in 1..3 THEN how = 2 ELSE @,
              !.IXOFF = IF how \in 1..3 THEN how = 2 ELSE @,
              !.CRTSCTS = IF how \in 1..3 THEN how = 3 ELSE @,
              !.DTR = IF how \in {8, 9} THEN how = 8 ELSE @,
              !.RTS = IF how \in {11, 12} THEN how = 11 ELSE @]

\* DSR and CTS are the lines that come in.
GetPortFlowControl(p, which, DSR, CTS) ==
    CASE which = 7 -> IF DSR THEN 8 ELSE 9
      [] which = 10 -> IF CTS THEN 11 ELSE 12
      [] which = 13 -> IF p.IXOFF THEN 15 ELSE IF p.CRTSCTS THEN 16 ELSE 14
      [] OTHER -> IF p.IXON THEN 2 ELSE IF p.CRTSCTS THEN 3 ELSE 1
=============================================================================
