---------------------------- MODULE MCDnsMessage ----------------------------
\* Up to three questions and answers for arrays of two, a name buffer of 41
\* bytes, and lengths around each bounds check.
EXTENDS DnsMessage

MCLength == {0, 12, 17, 28, 50, 110}
MCWord == {0, 1, 3}
MCNameSize == {1, 18}
MCNameText == {1, 40, 41, 47}
MCRdLength == {0, 1, 4, 16, 50}
MCSegmentLength == {0, 24, 255}
=============================================================================
