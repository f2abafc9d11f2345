------------------------ MODULE MCSerialFrameParser ------------------------
EXTENDS SerialFrameParser

Plain == [header |-> <<2>>, lengthOffset |-> 1, lengthSize |-> 1, littleEndian |-> FALSE,
          lengthIncludesHeader |-> FALSE, footer |-> << >>, checksum |-> FALSE,
          checksumSize |-> 0, checksumOffset |-> -1,
          minimumFrameSize |-> 1, maximumFrameSize |-> 4, maximumBufferSize |-> 5]

MCConfigs ==
    { \* a header of two bytes that can overlap noise; a frame may be too short
      [Plain EXCEPT !.header = <<2, 2>>, !.lengthOffset = 2, !.minimumFrameSize = 4,
                    !.maximumBufferSize = 6],
      \* a footer; too long with the length 2
      [Plain EXCEPT !.footer = <<1>>, !.maximumFrameSize = 3],
      \* a checksum at the end, and one behind the length
      [Plain EXCEPT !.checksum = TRUE, !.checksumSize = 1],
      [Plain EXCEPT !.checksum = TRUE, !.checksumSize = 1, !.checksumOffset = 2,
                    !.footer = <<0>>],
      \* the length counts the whole frame, and may be less than its own field
      [Plain EXCEPT !.lengthOffset = 2, !.lengthIncludesHeader = TRUE],
      \* a length of four bytes, which overflows, in both orders
      [Plain EXCEPT !.lengthSize = 4, !.littleEndian = TRUE, !.maximumFrameSize = 6,
                    !.maximumBufferSize = 6],
      [Plain EXCEPT !.lengthSize = 4, !.maximumFrameSize = 6, !.maximumBufferSize = 6] }
=============================================================================
