--------------------------- MODULE MCCommandLine ----------------------------
\* Empty arguments, the longest that is kept, and one that is not.
EXTENDS CommandLine

MCTyped == {0, 255, 256}
MCPortValue == {-1, 0, 65535, 65536}
=============================================================================
