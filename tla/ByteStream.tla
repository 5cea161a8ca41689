----------------------------- MODULE ByteStream -----------------------------
(***************************************************************************)
(* What the proxy promises of one direction of a connection: the reader is *)
(* handed a prefix of what the writer wrote, and is told that the stream   *)
(* has ended only after all of it, unless a connection was reset.          *)
(***************************************************************************)
EXTENDS Naturals, Sequences

CONSTANTS Byte, Early   \* Early: what may be written before the stream opens

VARIABLES
  written,     \* what the writer wrote
  delivered,   \* what the reader was handed
  phase        \* open, closed by the writer, ended for the reader, or reset

streamVars == <<written, delivered, phase>>

StreamInit ==
  written \in Early /\ delivered = <<>> /\ phase = "open"

Write ==
  /\ phase \in {"open", "reset"}
  /\ \E b \in Byte : written' = Append(written, b)
  /\ UNCHANGED <<delivered, phase>>

Deliver ==
  /\ phase \in {"open", "closed", "reset"}
  /\ \E n \in Len(delivered) .. Len(written) :
       delivered' = SubSeq(written, 1, n)
  /\ UNCHANGED <<written, phase>>

WriterCloses ==
  /\ phase = "open" /\ phase' = "closed"
  /\ UNCHANGED <<written, delivered>>

ReaderSeesEnd ==
  /\ phase = "closed" /\ phase' = "ended"
  /\ delivered' = written
  /\ UNCHANGED written

Reset ==
  /\ phase' = "reset"
  /\ UNCHANGED <<written, delivered>>

StreamNext == Write \/ Deliver \/ WriterCloses \/ ReaderSeesEnd \/ Reset

StreamSpec == StreamInit /\ [][StreamNext]_streamVars
=============================================================================
