------------------------------ MODULE CStrings ------------------------------
(***************************************************************************)
(* What the C library makes of an array of bytes: strlen, strcmp, strcpy   *)
(* and their kin see the bytes before the first NUL.                       *)
(***************************************************************************)
EXTENDS Naturals, Sequences

NUL == 0

\* Mutant: the bytes behind a NUL are kept.
CString_Whole(f) == f

CString(f) ==
  LET nul == {i \in 1 .. Len(f) : f[i] = NUL}
      end == IF nul = {} THEN Len(f) + 1
             ELSE CHOOSE i \in nul : \A j \in nul : i <= j
  IN  SubSeq(f, 1, end - 1)

\* snprintf and strncpy into an array of size bytes, one of them for the NUL.
Truncated(f, size) == IF Len(f) < size THEN f ELSE SubSeq(f, 1, size - 1)

tolower(b) == IF b \in 65 .. 90 THEN b + 32 ELSE b

\* strncasecmp(f, prefix, strlen(prefix)) == 0
HasPrefix(f, prefix) ==
  /\ Len(f) >= Len(prefix)
  /\ \A i \in 1 .. Len(prefix) : tolower(f[i]) = tolower(prefix[i])

Behind(f, prefix) == SubSeq(f, Len(prefix) + 1, Len(f))
=============================================================================
