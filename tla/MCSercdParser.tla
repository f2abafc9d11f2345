--------------------------- MODULE MCSercdParser ---------------------------
EXTENDS SercdParser

\* 9600 and 115200 baud; 123 is no speed.
MCSpeed9600 == <<0, 0, 37, 128>>
MCSpeeds == {MCSpeed9600, <<0, 1, 194, 0>>}

\* The bytes that an escape is about; 0 and 10 are plain but after a CR.
MCData == {0, 10, 13, 255}

\* The flags that the last user may have left all on, or all off at a speed that
\* sercd does not know.
MCOpened ==
    {p \in InitialPorts :
        /\ p.PARODD = p.CSTOPB /\ p.CSTOPB = p.IXOFF /\ p.IXOFF = p.CRTSCTS
        /\ IF p.IXOFF THEN p.speed = MCSpeed9600 ELSE p.speed = NoSpeed}

\* A question, a setting, one the port cannot take, an escaped one.
MCParams ==
    [c \in 0..12 |->
        CASE c = 0 -> {<< >>, <<65, 255>>}
          [] c = 1 -> {<<0, 0, 0, 0>>, <<0, 1, 194, 0>>, <<0, 0, 0, 123>>}
          [] c = 2 -> {<<0>>, <<5>>, <<9>>}
          [] c = 3 -> {<<1>>, <<2>>, <<3>>, <<4>>}
          [] c = 4 -> {<<0>>, <<2>>, <<3>>}
          [] c = 5 -> {<<0>>, <<2>>, <<3>>, <<4>>, <<5>>, <<7>>, <<9>>, <<10>>, <<13>>, <<15>>}
          [] c \in {8, 9} -> {<< >>}
          [] c = 10 -> {<<255>>, <<15>>}
          [] c = 11 -> {<<16>>, <<255>>}
          [] c = 12 -> {<<3>>}
          [] OTHER -> {}]
=============================================================================
