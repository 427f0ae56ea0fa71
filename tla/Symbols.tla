------------------------------- MODULE Symbols -------------------------------
(***************************************************************************)
(* Kernel symbols, ebpf-code/user/symbol.c: /proc/kallsyms is read into an *)
(* array that is sorted, stripped of equal addresses and searched for the  *)
(* function an address of a stack trace lies in.                           *)
(*                                                                         *)
(* A line of the file is an address and a name; lines that do not parse    *)
(* are left out.  Memory may run out while a name is copied, which skips   *)
(* the line, or while the array grows, which ends the loading.             *)
(***************************************************************************)
EXTENDS Integers, Sequences, SequencesExt

CONSTANTS
    Kallsyms,     (* bound: the files /proc/kallsyms may be *)
    Addresses     (* bound: the addresses asked for *)

ASSUME SymbolsAssumption ==
    /\ \A file \in Kallsyms : file \in Seq([addr : Nat, name : STRING])
    /\ Addresses \subseteq Nat

VARIABLES
    syms,         (* syms[0 .. sym_count - 1] *)
    loadStatus,   (* load_status *)
    stored        (* the lines that were stored *)

symbolVars == <<syms, loadStatus, stored>>

NoSymbol == "none"

SymbolsInit == syms = <<>> /\ loadStatus = 0 /\ stored = {}

-----------------------------------------------------------------------------
(* qsort: some order by address *)
Sorted(lines) ==
    {s \in SetToSeqs(lines) : \A i \in 1 .. Len(s) - 1 : s[i].addr <= s[i + 1].addr}

(* the first symbol of each address *)
KeepFirst(s) ==
    FoldLeft(LAMBDA kept, sym : IF Last(kept).addr # sym.addr THEN Append(kept, sym) ELSE kept,
             <<Head(s)>>, Tail(s))

(* symbols_load: nothing can be opened or allocated, or the lines up to    *)
(* `read` are read and those in `out` skipped for want of memory *)
SymbolsLoad(files) ==
    \/ syms' = <<>> /\ loadStatus' = -1 /\ stored' = {}
    \/ \E file \in files : \E read \in 0 .. Len(file) : \E out \in SUBSET (1 .. read) :
          LET lines == {file[i] : i \in (1 .. read) \ out}
              zero  == \A i \in 1 .. read : file[i].addr = 0
          IN  /\ stored' = lines
              /\ IF lines = {} THEN syms' = <<>> /\ loadStatus' = -1
                 ELSE /\ \E s \in Sorted(lines) : syms' = KeepFirst(s)
                      /\ loadStatus' = IF zero THEN -2 ELSE 1

(* symbols_free, which does nothing when the array was never allocated *)
SymbolsFree ==
    /\ syms' = <<>> /\ stored' = {}
    /\ loadStatus' = IF syms = <<>> THEN loadStatus ELSE 0

(* The binary search of symbol_resolve, with its variables from one turn   *)
(* of the loop to the next. *)
Loop == [lo : 1 .. Len(syms) + 1, hi : 0 .. Len(syms), result : 0 .. Len(syms)]
Entire == [lo |-> 1, hi |-> Len(syms), result |-> 0]
Mid(v) == v.lo + (v.hi - v.lo) \div 2

(* Mutation: the search ends one short of the last symbol it has left. *)
SearchShort(addr) ==
    LET find[v \in Loop] ==
            IF v.lo >= v.hi THEN v.result
            ELSE IF syms[Mid(v)].addr <= addr THEN find[[v EXCEPT !.lo = Mid(v) + 1, !.result = Mid(v)]]
            ELSE find[[v EXCEPT !.hi = Mid(v) - 1]]
    IN  find[Entire]

(* 0 stands for the result -1 *)
Search(addr) ==
    LET find[v \in Loop] ==
            IF v.lo > v.hi THEN v.result
            ELSE IF syms[Mid(v)].addr <= addr THEN find[[v EXCEPT !.lo = Mid(v) + 1, !.result = Mid(v)]]
            ELSE find[[v EXCEPT !.hi = Mid(v) - 1]]
    IN  find[Entire]

SymbolResolve(addr) ==
    IF syms = <<>> \/ addr = 0 \/ loadStatus = -2 \/ Search(addr) = 0 THEN NoSymbol
    ELSE syms[Search(addr)].name

-----------------------------------------------------------------------------
(* An address is resolved to a symbol of the greatest stored address that  *)
(* does not lie behind it, whatever the order of the file, equal addresses *)
(* and lines lost for want of memory; to none if there is no such symbol   *)
(* or the kernel hides its addresses.                                      *)
Nearest(addr) ==
    {l \in stored : l.addr <= addr /\ \A m \in stored : m.addr <= addr => m.addr <= l.addr}

ResolvesNearest ==
    \A addr \in Addresses :
        LET shown == SymbolResolve(addr) IN
        IF addr = 0 \/ loadStatus # 1 \/ Nearest(addr) = {} THEN shown = NoSymbol
        ELSE shown \in {l.name : l \in Nearest(addr)}
=============================================================================
