------------------------------- MODULE MCRelay ------------------------------
EXTENDS Relay, TLC

\* Nothing follows the request, or up to two bytes do.
MCPipelined == {q \in {<<>>} \cup [1 .. 1 -> Byte] \cup [1 .. 2 -> Byte] :
                  Len(q) < io_buffer_size}

ByteSymmetry == Permutations(Byte)
=============================================================================
