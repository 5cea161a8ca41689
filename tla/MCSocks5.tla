------------------------------ MODULE MCSocks5 ------------------------------
(* Socks5 with a few connection objects, descriptors and resolver threads. *)
EXTENDS Socks5, TLC

Symmetry == Permutations(Conns) \cup Permutations(Workers)
            \cup Permutations(BufferSizes)
=============================================================================
