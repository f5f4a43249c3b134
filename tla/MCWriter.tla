------------------------------ MODULE MCWriter ------------------------------
(* Writer on a small instance: pages, contents and threads are interchangeable. *)
EXTENDS Writer, TLC

Symmetry == Permutations(Key) \cup Permutations(Bytes) \cup Permutations(Thread)

=============================================================================
