---------------------------- MODULE MCMemSnoopBpf ----------------------------
(***************************************************************************)
(* A small instance of MemSnoopBpf.  The sizes are at the upper ends of    *)
(* the buckets, so that no two sums of sizes agree.                        *)
(***************************************************************************)
EXTENDS MemSnoopBpf

MCSizes == [a \in 1 .. NAllocs |-> 64 * 4 ^ (a - 1)]
=============================================================================
