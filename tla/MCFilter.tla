------------------------------ MODULE MCFilter ------------------------------
\* No argument, one just short enough for piece[128] behind "host ", and the
\* longest that is stored; buffers around each check, and main()'s.
EXTENDS Filter

MCArgument == {0, 122, 255}
MCPort == {0, 65535}
MCSmallBuffer == {0, 1, 5, 8, 12, 13, 64, 256}
=============================================================================
