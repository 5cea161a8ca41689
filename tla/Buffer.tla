------------------------------- MODULE Buffer -------------------------------
(***************************************************************************)
(* The linear I/O buffer of src/buffer.c, as operators on a record:        *)
(*   size   the distance from data to limit, which never changes,          *)
(*   read   the offset of the read pointer,                                *)
(*   bytes  what lies between the read and the write pointer.              *)
(* The write pointer is read + Len(bytes).  Room is only made at the end   *)
(* of the buffer, and reading makes none until everything has been read.   *)
(***************************************************************************)
EXTENDS Naturals, Sequences

BufferOf(Byte, size) ==
  {b \in [size : {size}, read : 0 .. size, bytes : Seq(Byte)] :
     b.read + Len(b.bytes) <= size}

buffer_init(n) == [size |-> n, read |-> 0, bytes |-> <<>>]

\* *nbyte of buffer_write_ptr.
WriteSpace(b) == b.size - (b.read + Len(b.bytes))

buffer_can_write(b) == WriteSpace(b) > 0

buffer_can_read(b) == Len(b.bytes) > 0

\* Mutant: the pointers are not brought back to the start.
buffer_compact_Never(b) == b

\* The memmove moves the bytes to the start; they stay what they are.
buffer_compact(b) == [b EXCEPT !.read = 0]

\* The bytes were put at the write pointer, which now passes them.
buffer_write_adv(b, bytes) == [b EXCEPT !.bytes = @ \o bytes]

\* buffer_write once for each of the bytes: what finds no room is dropped.
buffer_write(b, bytes) ==
  buffer_write_adv(b, IF Len(bytes) <= WriteSpace(b) THEN bytes
                      ELSE SubSeq(bytes, 1, WriteSpace(b)))

buffer_reset(b) == [b EXCEPT !.read = 0, !.bytes = <<>>]

\* Mutant: one byte too many is passed over when some are left.
buffer_read_adv_OffByOne(b, n) ==
  LET m == IF n > 0 /\ n < Len(b.bytes) THEN n + 1 ELSE n
      rest == SubSeq(b.bytes, m + 1, Len(b.bytes))
      adv == [b EXCEPT !.read = @ + m, !.bytes = rest]
  IN  IF rest = <<>> THEN buffer_compact(adv) ELSE adv

buffer_read_adv(b, n) ==
  LET rest == SubSeq(b.bytes, n + 1, Len(b.bytes))
      adv == [b EXCEPT !.read = @ + n, !.bytes = rest]
  IN  IF rest = <<>> THEN buffer_compact(adv) ELSE adv
=============================================================================
