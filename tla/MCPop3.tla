------------------------------- MODULE MCPop3 -------------------------------
EXTENDS Pop3

\* "U " and "P " stand for "USER " and "PASS ".
U == <<85, 32>>
P == <<80, 32>>
X == <<120>>

\* Commands in upper and lower case, ended with or without a CR, with a NUL
\* inside, as long as a line may be and longer.
MCChunks == {U, P, <<117, 32>>, X, <<LF>>, <<CR, LF>>, <<NUL, 120>>}
=============================================================================
