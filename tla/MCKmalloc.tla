------------------------------ MODULE MCKmalloc ------------------------------
(* Layout on a small heap.  The lengths are chosen so that a request of     *)
(* zero bytes, an exact fit, a chunk too small for any request and a        *)
(* request that does not fit all occur.                                     *)
EXTENDS Layout

MCLens == {0, 1, 3}

=============================================================================
