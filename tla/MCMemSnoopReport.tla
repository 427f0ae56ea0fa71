-------------------------- MODULE MCMemSnoopReport --------------------------
(***************************************************************************)
(* A small instance of MemSnoopReport: three calls of kmalloc come, for    *)
(* three pointers in two buckets, one pointer twice; or none comes.        *)
(***************************************************************************)
EXTENDS MemSnoopReport

(* pointer, process, stack (or the error of bpf_get_stackid), size *)
Call(ptr, pid, stack, size) == [ptr |-> ptr, pid |-> pid, stack |-> stack, size |-> size]
MCCalls == {Call(1, 2, 1, 2), Call(2, 1, -17, 2), Call(3, 0, 2, 2), Call(3, 3, 3, 1)}

(* Every section of the report is shown if calls come; if not, either the  *)
(* stacks or the leaks. *)
MCSettings ==
    {[calls |-> 3, opts |-> [duration |-> 1, stack |-> TRUE, leak |-> TRUE]]}
    \cup {[calls |-> 0, opts |-> [duration |-> 0, stack |-> b, leak |-> ~b]] : b \in BOOLEAN}

(* several symbols at one address, and the zeros of kptr_restrict *)
Line(addr, name) == [addr |-> addr, name |-> name]
MCKallsyms ==
    {<<>>, <<Line(0, "a"), Line(0, "b")>>,
     <<Line(5, "c"), Line(2, "a"), Line(5, "d"), Line(3, "b")>>,
     <<Line(0, "a"), Line(4, "b"), Line(4, "c"), Line(1, "d"), Line(4, "e")>>}
MCAddresses == 0 .. 6
=============================================================================
