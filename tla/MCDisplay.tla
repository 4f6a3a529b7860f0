----------------------------- MODULE MCDisplay ------------------------------
\* For the packet no TCP flag, the first, the last, one list with gaps, and all
\* of them.  For the string both sides of every limit, the characters with a
\* meaning in JSON, and the letters and digits of escapes.  For the dump up to
\* three lines and a part of one, with offsets that get longer from line to line
\* up to the 16 digits of a 64-bit offset.  For the address zero, a short group
\* and the longest one, in each of the eight places.
EXTENDS Display

MCFlagSets == {{}, {"SYN"}, {"CWR"}, {"ACK", "PSH"},
               {"SYN", "ACK", "FIN", "RST", "PSH", "URG", "ECE", "CWR"}}
MCByte == {0, 9, 10, 13, 31, 32, 34, 48, 92, 110, 117, 126, 127, 128, 255}
MCLength == 0 .. 50
MCOffsetDigits(n) == IF n < 16 THEN 4 ELSE IF n < 32 THEN 9 ELSE 16
MCGroup == {0, 1, 65535}
=============================================================================
