------------------------- MODULE SerialFrameParser -------------------------
(***************************************************************************)
(* SerialFrameParser.kt: frames cut out of the bytes that reads return, in *)
(* whatever pieces.  A frame is a header, a length field, a body, perhaps  *)
(* a checksum and a footer; what cannot be a frame is skipped.  Bytes are  *)
(* digits 0..Base-1 and an Int is four of them wide, so that a length of   *)
(* four bytes overflows here as it does there.                             *)
(***************************************************************************)
EXTENDS Integers, Sequences

SeqExt == INSTANCE SequencesExt
SetExt == INSTANCE FiniteSetsExt

CONSTANTS
    Base,           \* values of a byte
    Configs,        \* FrameConfig records
    MaxChunk,       \* bound: bytes of one offer
    MaxBytes        \* bound: bytes since the last reset or loss

Bytes == 0..(Base - 1)

\* init of FrameConfig.  checksum is whether there is one (a sum of bytes here);
\* checksumOffset -1 is null.
ConfigIsValid(c) ==
    /\ {c.lengthOffset, c.minimumFrameSize, c.maximumFrameSize, c.maximumBufferSize,
        c.checksumSize} \subseteq Int
    /\ c.header \in Seq(Bytes) /\ c.header # << >> /\ c.footer \in Seq(Bytes)
    /\ c.lengthOffset >= 0 /\ c.lengthSize \in 1..4
    /\ c.minimumFrameSize >= Len(c.header)
    /\ c.maximumFrameSize >= c.minimumFrameSize
    /\ c.maximumBufferSize >= c.maximumFrameSize
    /\ c.checksumSize >= 0

\* A length field beyond the buffer is accepted by the code, and then no frame can
\* ever come; such configurations are left out.
ASSUME FrameAssumption ==
    /\ Base \in Nat \ {0, 1} /\ MaxChunk \in Nat /\ MaxBytes \in Nat
    /\ \A c \in Configs : ConfigIsValid(c)
                          /\ c.lengthOffset + c.lengthSize <= c.maximumBufferSize

VARIABLES
    config, pending, lastErrors,
    stream,         \* history: bytes offered since the last reset or loss
    frames, errors  \* history: what was returned for them

vars == <<config, pending, lastErrors, stream, frames, errors>>

Init ==
    /\ config \in Configs /\ pending = << >> /\ lastErrors = << >>
    /\ stream = << >> /\ frames = << >> /\ errors = << >>

-----------------------------------------------------------------------------
(* helpers of the parser                                                   *)

TakeLastBug(s, n) == s                                  \* no limit
TakeLast(s, n) == IF Len(s) <= n THEN s ELSE SubSeq(s, Len(s) - n + 1, Len(s))
DropFirst(s, n) == SubSeq(s, n + 1, Len(s))

HeaderAt(s, i) == i + Len(config.header) - 1 <= Len(s)
                  /\ SubSeq(s, i, i + Len(config.header) - 1) = config.header

\* The first place of the header, counted from 1; 0 for the -1 of the code.
IndexOfHeaderBug(s) == IF s # << >> /\ HeaderAt(s, 1) THEN 1 ELSE 0
IndexOfHeader(s) == LET places == {i \in 1..Len(s) : HeaderAt(s, i)}
                    IN  IF places = {} THEN 0 ELSE SetExt!Min(places)

\* Without a header all is noise but for a header that has perhaps begun.
DropNoiseBug(s) == << >>                                \* a begun header too
DropNoise(s) == TakeLast(s, Len(config.header) - 1)

\* Arithmetic of Int.
Wrap(n) == LET m == Base * Base * Base * Base IN ((n + m \div 2) % m) - m \div 2

\* The value of a length field, from its highest byte on.
Unsigned(field) ==
    LET value[k \in 0..Len(field)] ==
            IF k = 0 THEN 0 ELSE Wrap(value[k - 1] * Base + field[k])
    IN  value[Len(field)]

ReadUnsigned(s) ==
    LET field == SubSeq(s, config.lengthOffset + 1, config.lengthOffset + config.lengthSize)
    IN  Unsigned(IF config.littleEndian THEN SeqExt!Reverse(field) ELSE field)

FrameSize(s) ==
    IF config.lengthIncludesHeader THEN ReadUnsigned(s)
    ELSE Wrap(ReadUnsigned(s) + Len(config.header) + config.lengthSize)

HasFooter(frame) == TakeLast(frame, Len(config.footer)) = config.footer

\* The checksum: a sum of bytes, which is a byte.
Sum8(body) ==
    LET sum[k \in 0..Len(body)] == IF k = 0 THEN 0 ELSE (sum[k - 1] + body[k]) % Base
    IN  sum[Len(body)]

\* The sum of the frame without the checksum, as checksumSize equal digits.
HasChecksumAt(frame) ==
    LET size == config.checksumSize
        position == IF config.checksumOffset = -1 THEN Len(frame) - size
                    ELSE config.checksumOffset
        body == SubSeq(frame, 1, position) \o DropFirst(frame, position + size)
    IN  /\ size > 0 /\ position >= 0 /\ position + size <= Len(frame)
        /\ SubSeq(frame, position + 1, position + size) = [i \in 1..size |-> Sum8(body)]

\* What a whole frame comes to.
Verdict(frame) ==
    IF config.footer # << >> /\ ~HasFooter(frame) THEN "FooterMismatch"
    ELSE IF config.checksum /\ ~HasChecksumAt(frame) THEN "ChecksumMismatch"
    ELSE "frame"

-----------------------------------------------------------------------------
(* the operations                                                          *)

PassBug(s) ==                                           \* waits for the longest frame
    IF Len(s) < config.maximumFrameSize THEN [consumed |-> 0, what |-> "break"]
    ELSE [consumed |-> FrameSize(s), what |-> Verdict(SubSeq(s, 1, FrameSize(s)))]

\* One pass of the loop over a buffer that starts with the header: the bytes it
\* consumes and what they are, or a break, which consumes none.
Pass(s) ==
    LET size == FrameSize(s)
        skip(e) == [consumed |-> Len(config.header), what |-> e]
        break == [consumed |-> 0, what |-> "break"]
    IN  IF Len(s) < config.lengthOffset + config.lengthSize THEN break
        ELSE IF size < config.minimumFrameSize THEN skip("InvalidLength")
        ELSE IF size > config.maximumFrameSize THEN skip("Oversized")
        ELSE IF Len(s) < size THEN break
        ELSE [consumed |-> size, what |-> Verdict(SubSeq(s, 1, size))]

\* The loop: what remains pending, the frames and the errors.
Loop[s \in Seq(Bytes)] ==
    LET start == IndexOfHeader(s)
        found == DropFirst(s, start - 1)
        pass == Pass(found)
        rest == Loop[DropFirst(found, pass.consumed)]
        stop(left) == [pending |-> left, frames |-> << >>, errors |-> << >>]
    IN  IF start = 0 THEN stop(DropNoise(s))
        ELSE IF pass.what = "break" THEN stop(found)
        ELSE IF pass.what = "frame"
          THEN [rest EXCEPT !.frames = <<SubSeq(found, 1, pass.consumed)>> \o @]
        ELSE [rest EXCEPT !.errors = <<pass.what>> \o @]

\* offerDetailed.  A buffer over its limit loses its oldest bytes, before they are
\* looked at: the history starts anew with those that are left.
OfferDetailed(bytes) ==
    LET buffer == TakeLast(pending \o bytes, config.maximumBufferSize)
        lost == Len(pending \o bytes) > config.maximumBufferSize
        result == Loop[buffer]
    IN  /\ pending' = result.pending /\ lastErrors' = result.errors
        /\ stream' = IF lost THEN buffer ELSE stream \o bytes
        /\ frames' = (IF lost THEN << >> ELSE frames) \o result.frames
        /\ errors' = (IF lost THEN << >> ELSE errors) \o result.errors
        /\ UNCHANGED config

Offer == \E n \in 0..MaxChunk : \E bytes \in [1..n -> Bytes] :
            Len(stream) + n <= MaxBytes /\ OfferDetailed(bytes)

Reset ==
    /\ pending' = << >> /\ lastErrors' = << >>
    /\ stream' = << >> /\ frames' = << >> /\ errors' = << >>
    /\ UNCHANGED config

Next == Offer \/ Reset

Spec == Init /\ [][Next]_vars

-----------------------------------------------------------------------------
(* Properties                                                              *)

Errors == {"InvalidLength", "Oversized", "ChecksumMismatch", "FooterMismatch"}

\* Every variable holds a value of its type; the buffer keeps its limit.
TypeOK ==
    /\ config \in Configs
    /\ pending \in Seq(Bytes) /\ Len(pending) <= config.maximumBufferSize
    /\ stream \in Seq(Bytes) /\ Len(stream) <= MaxBytes + config.maximumBufferSize
    /\ frames \in Seq(Seq(Bytes)) /\ {lastErrors, errors} \subseteq Seq(Errors)

\* The reference: the stream is read once, from place i on, with no buffer.
Reading[i \in 1..(Len(stream) + 1)] ==
    LET here == DropFirst(stream, i - 1)
        pass == Pass(here)
        rest == Reading[i + pass.consumed]
        nothing == [frames |-> << >>, errors |-> << >>]
    IN  IF i > Len(stream) THEN nothing
        ELSE IF ~HeaderAt(stream, i) THEN Reading[i + 1]
        ELSE IF pass.what = "break" THEN nothing
        ELSE IF pass.what = "frame"
          THEN [rest EXCEPT !.frames = <<SubSeq(here, 1, pass.consumed)>> \o @]
        ELSE [rest EXCEPT !.errors = <<pass.what>> \o @]

\* "Incremental frame parsing for fragmented and coalesced reads" (README.md:13):
\* however the stream is cut into offers, the frames and the errors returned are
\* those of the whole stream (offerDetailed:44-66).
FragmentationFree == frames = Reading[1].frames /\ errors = Reading[1].errors

\* Between two offers nothing is held back: the parser waits for more bytes of one
\* frame, and these fit its buffer (offerDetailed:48-63).
NothingHeldBack ==
    IF pending = << >> \/ ~HeaderAt(pending, 1)
      THEN Len(pending) < Len(config.header)
      ELSE LET wanted == IF Len(pending) < config.lengthOffset + config.lengthSize
                           THEN config.lengthOffset + config.lengthSize
                           ELSE FrameSize(pending)
           IN  Len(pending) < wanted /\ wanted <= config.maximumBufferSize

\* "noise before a header" (README.md:118) costs no frame: when the first header of
\* the stream begins a valid frame, that frame is the first one returned.
NoiseIsSkipped ==
    \A i \in 1..Len(stream) :
        LET pass == Pass(SubSeq(stream, i, Len(stream)))
        IN  /\ HeaderAt(stream, i) /\ \A j \in 1..(i - 1) : ~HeaderAt(stream, j)
            /\ pass.what = "frame"
            => /\ frames # << >>
               /\ frames[1] = SubSeq(stream, i, i + pass.consumed - 1)
=============================================================================
