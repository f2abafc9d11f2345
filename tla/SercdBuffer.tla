---------------------------- MODULE SercdBuffer ----------------------------
(***************************************************************************)
(* The ring buffer of sercd.c, as operators on one BufferType.  The loop   *)
(* keeps two: ToNetBuf and ToDevBuf.  One place always stays free, to tell *)
(* a full buffer from an empty one.                                        *)
(***************************************************************************)
EXTENDS Integers, Sequences

CONSTANT BufferSize

ASSUME BufferAssumption == BufferSize \in Nat /\ BufferSize > 1

Positions == 0 .. BufferSize - 1
BufferType(Cell) == [RdPos : Positions, WrPos : Positions,
                     Buffer : [Positions -> Cell]]

InitBuffer(B) == [B EXCEPT !.RdPos = 0, !.WrPos = 0]

BufferLength(B) == (B.WrPos - B.RdPos + BufferSize) % BufferSize
BufferRoomLeft(B) == BufferSize - 1 - BufferLength(B)
BufferHasRoomFor(B, x) == BufferRoomLeft(B) >= x
IsBufferEmpty(B) == BufferLength(B) = 0

\* AddToBuffer of each of Cs in turn.  The assertion, that there is room, is up
\* to the caller.
AddToBuffer(B, Cs) ==
    LET Offset(p) == (p - B.WrPos + BufferSize) % BufferSize
    IN  [RdPos  |-> B.RdPos,
         WrPos  |-> (B.WrPos + Len(Cs)) % BufferSize,
         Buffer |-> [p \in Positions |-> IF Offset(p) < Len(Cs) THEN Cs[Offset(p) + 1]
                                                               ELSE B.Buffer[p]]]

\* How many bytes can be written at once: up to WrPos, or to the end.
GetBufferString(B) ==
    IF B.RdPos <= B.WrPos THEN B.WrPos - B.RdPos ELSE BufferSize - B.RdPos

BufferPopBytesBug(B, len) ==                            \* does not wrap
    [B EXCEPT !.RdPos = B.RdPos + len]
BufferPopBytes(B, len) == [B EXCEPT !.RdPos = (B.RdPos + len) % BufferSize]

\* What is in the buffer, in the order it was added.
Contents(B) ==
    [i \in 1 .. BufferLength(B) |-> B.Buffer[(B.RdPos + i - 1) % BufferSize]]
=============================================================================
