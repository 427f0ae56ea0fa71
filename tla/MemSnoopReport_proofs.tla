----------------------- MODULE MemSnoopReport_proofs ------------------------
(***************************************************************************)
(* Proofs about the user side of MemSnoop, for every set of calls of       *)
(* kmalloc, every number of buckets and every limit of the lists: a report *)
(* misses no entry that stays in the map while it is walked.  And about    *)
(* Symbols, for every file: an address is resolved to its nearest symbol.  *)
(***************************************************************************)
EXTENDS MemSnoopReport, FiniteSetTheorems, WellFoundedInduction, TLAPS

-----------------------------------------------------------------------------
(* The inductive invariant *)

PidEntries == [key : Nat, turn : Nat]
AllocEntries == [key : Nat \ {NoKey}, turn : Nat, at : Nat, stack : Int, size : Nat]
Walks == [over : {"none", "pids", "stacks", "leaks"}, pc : {"next", "lookup", "end"},
          at : Nat, since : Nat, groups : SUBSET Int, counted : SUBSET Nat,
          again : BOOLEAN, present : SUBSET (PidEntries \cup AllocEntries), moved : BOOLEAN]

Typed ==
    /\ left \in Nat /\ now \in Nat
    /\ pids \subseteq PidEntries /\ allocs \subseteq AllocEntries
    /\ walk \in Walks /\ IsFiniteSet(walk.groups)

(* a map has one entry for a key, and its entries were made in turns that  *)
(* have passed                                                             *)
Orderly(map) ==
    /\ \A e \in map : e.key \in Nat /\ e.turn \in Nat /\ e.turn > left
    /\ \A e, f \in map : e.key = f.key \/ e.turn = f.turn => e = f

(* the walk is behind e: e is in an earlier bucket than the key it stands  *)
(* on, or the key is there and e is not after it                           *)
Reached(e) ==
    \E f \in Map : f.key = walk.at /\ (Before(e, f) \/ (e = f /\ walk.pc # "lookup"))
Passed(e) == Bucket(e) < walk.at % Buckets \/ Reached(e)

Accounted(e) == Wanted(e) => e.turn \in walk.counted \/ Full(e) \/ BeforePid0(e)

(* whatever was there all the time is accounted for once the walk is       *)
(* behind it                                                               *)
Covers ==
    /\ walk.present \subseteq Map
    /\ \A e \in walk.present : Passed(e) \/ walk.pc = "end" => Accounted(e)

(* unless the key it stands on was removed, the walk only goes forward     *)
Forward ==
    /\ walk.again => walk.moved
    /\ \A turn \in walk.counted : turn > left
    /\ ~walk.moved /\ walk.pc # "end" =>
          /\ walk.counted = {} \/ walk.at \in Keys(Map)
          /\ \A e \in Map : e.turn \in walk.counted => Passed(e)

(* the list of processes has an entry for each it has counted              *)
Enlisted ==
    walk.over = "pids" =>
        \A key \in walk.groups : \E e \in pids : e.key = key /\ e.turn \in walk.counted

Inv ==
    /\ Typed /\ Orderly(pids) /\ Orderly(allocs)
    /\ walk.over # "none" => Covers /\ Forward /\ Enlisted

(* The invariant contains the property. *)
LEMMA InvIsEnough == Inv => WalksAreComplete
BY DEF Inv, Covers, Forward, Accounted, WalksAreComplete, Walking

-----------------------------------------------------------------------------
(* The order of a map *)

(* a non-empty set of numbers has a least one *)
LEMMA LeastNumber ==
    ASSUME NEW I \in SUBSET Nat, I # {}
    PROVE  \E x \in I : \A y \in I : x <= y
<1>. DEFINE R == {ss \in Nat \X Nat : ss[1] < ss[2]}
<1>1. IsWellFoundedOn(R, Nat)
  BY NatLessThanWellFounded DEF OpToRel
<1>2. \A x, y \in Nat : ~(<<y, x>> \in R) => x <= y
  <2>1. \A x, y \in Nat : <<y, x>> \in Nat \X Nat /\ <<y, x>>[1] = y /\ <<y, x>>[2] = x
    OBVIOUS
  <2>2. \A x, y \in Nat : y < x => <<y, x>> \in R
    BY <2>1
  <2>. QED
    BY <2>2
<1>. HIDE DEF R
<1>3. \E x \in I : \A y \in I : ~(<<y, x>> \in R)
  BY <1>1, WFMin
<1>. QED
  BY <1>2, <1>3

(* Buckets are numbered. *)
LEMMA BucketTyped ==
    ASSUME NEW key \in Nat
    PROVE  key % Buckets \in Nat /\ (key = 0 => key % Buckets = 0)
<1>1. Buckets \in Nat \ {0}
  BY ReportAssumption
<1>. QED
  BY <1>1

Numbered(map) == \A e \in map : Bucket(e) \in Nat /\ e.turn \in Nat

LEMMA OrderlyNumbered == ASSUME NEW map, Orderly(map) PROVE Numbered(map)
BY BucketTyped DEF Orderly, Numbered, Bucket

(* some entry of a map that is not empty comes before all others *)
LEMMA FirstEntry ==
    ASSUME NEW map, Numbered(map), map # {}
    PROVE  \E e \in map : \A f \in map : ~Before(f, e)
<1>1. PICK b \in {Bucket(e) : e \in map} : \A c \in {Bucket(e) : e \in map} : b <= c
  <2>1. {Bucket(e) : e \in map} \in SUBSET Nat /\ {Bucket(e) : e \in map} # {}
    BY DEF Numbered
  <2>. QED
    BY <2>1, LeastNumber
<1>. DEFINE same == {e \in map : Bucket(e) = b}
<1>2. PICK t \in {e.turn : e \in same} : \A u \in {e.turn : e \in same} : t <= u
  <2>1. {e.turn : e \in same} \in SUBSET Nat /\ {e.turn : e \in same} # {}
    BY DEF Numbered
  <2>. QED
    BY <2>1, LeastNumber
<1>3. PICK e \in same : e.turn = t
  OBVIOUS
<1>4. ASSUME NEW f \in map PROVE ~Before(f, e)
  <2>1. b <= Bucket(f) /\ (Bucket(f) = b => t <= f.turn)
    BY <1>1, <1>2
  <2>2. Bucket(f) \in Nat /\ f.turn \in Nat /\ Bucket(e) = b /\ b \in Nat /\ t \in Nat
    BY <1>3 DEF Numbered
  <2>. QED
    BY <1>3, <2>1, <2>2 DEF Before
<1>. QED
  BY <1>4

(* Two entries of a map are in order, and the order is one. *)
LEMMA EntriesOrdered ==
    ASSUME NEW map, Orderly(map)
    PROVE  /\ \A e, f \in map : e = f \/ Before(e, f) \/ Before(f, e)
           /\ \A e, f \in map : Before(e, f) => ~Before(f, e)
           /\ \A e, f, g \in map : Before(e, f) /\ Before(f, g) => Before(e, g)
<1>1. \A e \in map : Bucket(e) \in Nat /\ e.turn \in Nat
  BY OrderlyNumbered DEF Numbered
<1>2. \A e, f \in map : e.turn = f.turn => e = f
  BY DEF Orderly
<1>. QED
  BY <1>1, <1>2 DEF Before

Behind(map, key, e) == \E f \in map : f.key = key /\ (e = f \/ Before(e, f))

(* What get_next_key returns: at the end of the map all entries are behind *)
(* the key; if there is a next entry, those before it are.                 *)
LEMMA NextIsNext ==
    ASSUME NEW map, Orderly(map), NEW key
    PROVE  /\ NextEntry(map, key) = {} => \A e \in map : Behind(map, key, e)
           /\ \A n \in NextEntry(map, key) :
                 /\ n \in map
                 /\ \A f \in map : f.key = key => Before(f, n)
                 /\ \A e \in map : Before(e, n) => Behind(map, key, e)
<1>. DEFINE rest == {e \in map : \A f \in map : f.key = key => Before(f, e)}
<1>1. \A e \in map : e \notin rest => Behind(map, key, e)
  BY EntriesOrdered DEF Behind
<1>2. NextEntry(map, key) = {e \in rest : \A f \in rest : ~Before(f, e)}
  BY DEF NextEntry
<1>3. rest # {} => NextEntry(map, key) # {}
  <2>1. Numbered(rest)
    BY OrderlyNumbered DEF Numbered
  <2>. HIDE DEF rest
  <2>. QED
    BY <1>2, <2>1, FirstEntry
<1>4. \A n \in NextEntry(map, key) : n \in rest /\ \A f \in rest : ~Before(f, n)
  BY <1>2
<1>5. \A e \in rest : e \in map /\ \A f \in map : f.key = key => Before(f, e)
  OBVIOUS
<1>. HIDE DEF rest
<1>. QED
  BY <1>1, <1>3, <1>4, <1>5

-----------------------------------------------------------------------------
(* Steps that neither change a map nor go on with a walk *)

(* At first there is nothing to walk over. *)
LEMMA InitHolds == Init => Inv
<1>. SUFFICES ASSUME Init PROVE Inv
  OBVIOUS
<1>1. NoWalk \in Walks /\ NoWalk.over = "none" /\ IsFiniteSet(NoWalk.groups)
  BY FS_EmptySet DEF NoWalk, Walks, NoKey
<1>2. Typed
  <2>1. left \in Nat /\ now \in Nat
    BY ReportAssumption DEF Init
  <2>. QED
    BY <1>1, <2>1 DEF Init, Typed
<1>3. Orderly(pids) /\ Orderly(allocs)
  BY DEF Init, Orderly
<1>. QED
  BY <1>1, <1>2, <1>3 DEF Init, Inv

(* A step that touches neither. *)
LEMMA RestKeeps ==
    ASSUME Inv, UNCHANGED <<allocs, pids, left, walk>>, now' \in Nat
    PROVE  Inv'
<1>1. Typed'
  BY DEF Inv, Typed
<1>2. Orderly(pids)' /\ Orderly(allocs)'
  BY DEF Inv, Orderly
<1>3. ASSUME walk.over # "none" PROVE Covers' /\ Forward' /\ Enlisted'
  <2>1. Map' = Map /\ \A e : (Full(e)' <=> Full(e)) /\ (BeforePid0(e)' <=> BeforePid0(e))
                          /\ (Wanted(e)' <=> Wanted(e))
    BY DEF Map, Full, Group, BeforePid0, Before, Bucket, Wanted
  <2>2. \A e : (Passed(e)' <=> Passed(e)) /\ (Accounted(e)' <=> Accounted(e))
    BY <2>1 DEF Passed, Reached, Accounted, Before, Bucket
  <2>. QED
    BY <1>3, <2>1, <2>2 DEF Inv, Covers, Forward, Enlisted, Keys
<1>. QED
  BY <1>1, <1>2, <1>3 DEF Inv

(* A walk begins: nothing is behind it but pid 0. *)
LEMMA WalkStarts ==
    ASSUME Inv, UNCHANGED <<allocs, pids, left, now>>,
           \/ WalkOver(pids, "pids")
           \/ WalkOver(allocs, "stacks")
           \/ WalkOver(allocs, "leaks")
    PROVE  Inv'
<1>. USE DEF Inv
<1>1. /\ walk' \in Walks /\ walk'.over \in {"pids", "stacks", "leaks"}
      /\ walk'.pc = "next" /\ walk'.at = 0 /\ walk'.groups = {} /\ walk'.counted = {}
      /\ walk'.again = FALSE /\ walk'.present = Map' /\ walk'.moved = FALSE
  <2>1. /\ NoWalk \in Walks /\ NoWalk.pc = "next" /\ NoWalk.at = 0
        /\ NoWalk.groups = {} /\ NoWalk.counted = {} /\ NoWalk.again = FALSE /\ NoWalk.moved = FALSE
    BY DEF NoWalk, Walks, NoKey
  <2>2. ASSUME NEW map \in SUBSET (PidEntries \cup AllocEntries),
               NEW name \in {"pids", "stacks", "leaks"}, WalkOver(map, name)
        PROVE  /\ walk' \in Walks /\ walk'.over = name
               /\ walk'.pc = "next" /\ walk'.at = 0 /\ walk'.groups = {} /\ walk'.counted = {}
               /\ walk'.again = FALSE /\ walk'.present = map /\ walk'.moved = FALSE
    <3>1. now \in Nat
      BY DEF Typed
    <3>. QED
      BY <2>1, <2>2, <3>1 DEF Walks, WalkOver
  <2>. QED
    BY <2>2 DEF Typed, Map
<1>2. Typed'
  BY <1>1, FS_EmptySet DEF Typed
<1>3. Orderly(pids)' /\ Orderly(allocs)'
  BY DEF Orderly
<1>4. \A e \in Map' : Passed(e)' => BeforePid0(e)'
  <2>1. SUFFICES ASSUME NEW e \in Map', Passed(e)' PROVE BeforePid0(e)'
    BY <2>1
  <2>2. Bucket(e) \in Nat /\ 0 % Buckets = 0
    BY <1>3, OrderlyNumbered, BucketTyped DEF Map, Numbered
  <2>3. PICK f \in Map' : f.key = 0 /\ (Before(e, f) \/ e = f)
    BY <1>1, <2>1, <2>2 DEF Passed, Reached, Before, Bucket
  <2>4. walk'.over = "pids"
    BY <1>1, <1>2, <2>3 DEF Map, Typed, AllocEntries, NoKey
  <2>5. ~Before(f, e)
    BY <1>3, <2>3, <2>4, EntriesOrdered DEF Map
  <2>. QED
    BY <2>3, <2>4, <2>5 DEF Map, BeforePid0, Before, Bucket
<1>5. Covers'
  BY <1>1, <1>4 DEF Covers, Accounted
<1>6. Forward' /\ Enlisted'
  BY <1>1 DEF Forward, Enlisted
<1>. QED
  BY <1>2, <1>3, <1>5, <1>6

-----------------------------------------------------------------------------
(* The steps of a walk *)

(* the walk moves: its place changes, not what it has counted *)
Moves ==
    /\ UNCHANGED <<allocs, pids, left, now>> /\ walk' \in Walks
    /\ walk'.over = walk.over /\ walk'.since = walk.since
    /\ walk'.groups = walk.groups /\ walk'.counted = walk.counted
    /\ walk'.again = walk.again /\ walk'.present = walk.present /\ walk'.moved = walk.moved

(* What is accounted for, and what the maps are, does not depend on the    *)
(* place.                                                                  *)
LEMMA MovesKeep ==
    ASSUME Inv, walk.over # "none", Moves
    PROVE  /\ Typed' /\ Orderly(pids)' /\ Orderly(allocs)' /\ Enlisted'
           /\ Map' = Map
           /\ \A e : Accounted(e)' <=> Accounted(e)
<1>1. Typed'
  BY DEF Inv, Typed, Moves
<1>2. Orderly(pids)' /\ Orderly(allocs)'
  BY DEF Inv, Orderly, Moves
<1>3. Enlisted'
  BY DEF Inv, Enlisted, Moves
<1>4. Map' = Map
  BY DEF Map, Moves
<1>5. ASSUME NEW e PROVE Accounted(e)' <=> Accounted(e)
  <2>1. Wanted(e)' <=> Wanted(e)
    <3>1. walk'.over = walk.over /\ walk'.since = walk.since
      BY DEF Moves
    <3>. QED
      BY <3>1, Zenon DEF Wanted
  <2>2. (Full(e)' <=> Full(e)) /\ (BeforePid0(e)' <=> BeforePid0(e))
    BY DEF Full, Group, BeforePid0, Before, Bucket, Moves
  <2>. QED
    BY <2>1, <2>2 DEF Accounted, Moves
<1>. QED
  BY <1>1, <1>2, <1>3, <1>4, <1>5

(* The map a walk goes over is in order. *)
LEMMA MapOrderly == ASSUME Inv PROVE Orderly(Map) /\ Numbered(Map)
BY OrderlyNumbered DEF Inv, Map

(* get_next_key *)
LEMMA WalkNextKeeps == ASSUME Inv, WalkNext PROVE Inv'
<1>. DEFINE found == NextEntry(Map, walk.at)
            full == walk.over = "pids" /\ Cardinality(walk.groups) >= MaxDisplay
<1>1. /\ walk.over # "none" /\ walk.pc = "next" /\ walk \in Walks
      /\ UNCHANGED <<allocs, pids, left, now>>
      /\ Covers /\ Forward /\ Enlisted
  BY DEF Inv, Typed, WalkNext, Walking, WalkStep, External, maps
<1>2. \A e \in walk.present : e \in Map /\ (Behind(Map, walk.at, e) => Accounted(e))
  BY <1>1 DEF Covers, Passed, Reached, Behind
<1>3. CASE (found = {} \/ full) /\ Goto("end")
  <2>1. Moves /\ walk'.pc = "end"
    BY <1>1, <1>3 DEF Moves, Goto, Walks
  <2>2. ASSUME NEW e \in walk.present PROVE Accounted(e)
    <3>1. CASE found = {}
      BY <1>2, <3>1, MapOrderly, NextIsNext
    <3>2. CASE full
      <4>1. e \in pids
        BY <1>2, <3>2 DEF Map
      <4>2. e.key \in walk.groups => e.turn \in walk.counted
        BY <1>1, <3>2, <4>1 DEF Enlisted, Inv, Orderly
      <4>. QED
        BY <3>2, <4>2 DEF Accounted, Full, Group
    <3>. QED
      BY <1>3, <3>1, <3>2
  <2>3. Covers' /\ Forward'
    BY <1>1, <2>1, <2>2, MovesKeep DEF Covers, Forward, Moves
  <2>. QED
    BY <1>1, <2>1, <2>3, MovesKeep DEF Inv
<1>4. CASE \E e \in found : walk' = [walk EXCEPT !.pc = "lookup", !.at = e.key]
  <2>1. PICK n \in found : walk' = [walk EXCEPT !.pc = "lookup", !.at = n.key]
    BY <1>4
  <2>2. n \in Map /\ n.key \in Nat /\ Bucket(n) \in Nat
    BY MapOrderly, NextIsNext DEF Orderly, Numbered
  <2>3. Moves /\ walk'.pc = "lookup" /\ walk'.at = n.key
    BY <1>1, <2>1, <2>2 DEF Moves, Walks
  <2>4. Map' = Map
    BY <1>1, <2>3, MovesKeep
  <2>5. ASSUME NEW e \in Map PROVE Passed(e)' <=> Before(e, n)
    <3>1. \A f \in Map : f.key = n.key <=> f = n
      BY <2>2, MapOrderly DEF Orderly
    <3>2. Bucket(e) < n.key % Buckets => Before(e, n)
      BY DEF Before, Bucket
    <3>. QED
      BY <2>2, <2>3, <2>4, <3>1, <3>2 DEF Passed, Reached, Before, Bucket
  <2>6. ASSUME NEW e \in walk.present, Before(e, n) PROVE Accounted(e)
    BY <1>2, <2>6, MapOrderly, NextIsNext
  <2>7. Covers'
    BY <1>1, <2>3, <2>4, <2>5, <2>6, MovesKeep DEF Covers, Moves
  <2>8. ASSUME ~walk.moved, NEW e \in Map, e.turn \in walk.counted PROVE Before(e, n)
    <3>1. Passed(e) /\ walk.at \in Keys(Map)
      BY <1>1, <2>8 DEF Forward
    <3>2. PICK f \in Map : f.key = walk.at
      BY <3>1 DEF Keys
    <3>3. Before(f, n)
      BY <3>2, MapOrderly, NextIsNext
    <3>4. e = f \/ Before(e, f)
      <4>1. Bucket(e) < walk.at % Buckets => Before(e, f)
        BY <3>2 DEF Before, Bucket
      <4>2. \A g \in Map : g.key = walk.at => g = f
        BY <3>2, MapOrderly DEF Orderly
      <4>. QED
        BY <3>1, <4>1, <4>2 DEF Passed, Reached
    <3>. QED
      BY <2>2, <3>3, <3>4, MapOrderly, EntriesOrdered
  <2>9. Forward'
    BY <1>1, <2>2, <2>3, <2>4, <2>5, <2>8 DEF Forward, Moves, Keys
  <2>. QED
    BY <1>1, <2>3, <2>7, <2>9, MovesKeep DEF Inv
<1>. QED
  BY <1>1, <1>3, <1>4 DEF WalkNext

(* the length of a list is a number, and so is its limit *)
LEMMA GroupsCounted ==
    ASSUME Inv
    PROVE  Cardinality(walk.groups) >= MaxDisplay <=> ~(Cardinality(walk.groups) < MaxDisplay)
<1>1. Cardinality(walk.groups) \in Nat /\ MaxDisplay \in Nat
  BY FS_CardinalityType, ReportAssumption DEF Inv, Typed
<1>. QED
  BY <1>1

(* the entry a walk stands on *)
Standing(e) == e \in Map /\ e.key = walk.at

(* When the walk goes on from the key whose entry was looked up, it is     *)
(* behind that entry and those that it was behind before.                  *)
LEMMA LookupPasses ==
    ASSUME Inv, walk.pc = "lookup", Map' = Map, walk'.pc = "next", walk'.at = walk.at,
           NEW e \in Map
    PROVE  /\ Passed(e)' <=> Passed(e) \/ Standing(e)
           /\ Standing(e) => ~Passed(e)
<1>1. \A f \in Map : Standing(e) /\ f.key = walk.at => f = e
  BY MapOrderly DEF Orderly, Standing
<1>2. Standing(e) => ~(Bucket(e) < walk.at % Buckets) /\ ~Before(e, e)
  <2>1. Bucket(e) \in Nat /\ e.turn \in Nat
    BY MapOrderly DEF Numbered
  <2>. QED
    BY <2>1 DEF Standing, Before, Bucket
<1>3. Passed(e)' <=> Bucket(e) < walk.at % Buckets
                      \/ \E f \in Map : f.key = walk.at /\ (Before(e, f) \/ e = f)
  BY DEF Passed, Reached, Before, Bucket
<1>4. Passed(e) <=> Bucket(e) < walk.at % Buckets
                     \/ \E f \in Map : f.key = walk.at /\ Before(e, f)
  BY DEF Passed, Reached
<1>. QED
  BY <1>1, <1>2, <1>3, <1>4 DEF Standing

(* the entry has gone, is not wanted, or finds the list full *)
LEMMA SkipKeeps ==
    ASSUME Inv, walk.over # "none", walk.pc = "lookup", Moves, walk'.pc = "next",
           walk'.at = walk.at, \A e \in Map : Standing(e) => Accounted(e)
    PROVE  Inv'
<1>1. Covers /\ Forward
  BY DEF Inv
<1>2. Map' = Map
  BY MovesKeep
<1>3. Covers'
  <2>1. \A e \in walk.present : Passed(e)' => Accounted(e)
    BY <1>1, <1>2, LookupPasses DEF Covers
  <2>. QED
    BY <1>1, <1>2, <2>1, MovesKeep DEF Covers, Moves
<1>4. Forward'
  BY <1>1, <1>2, LookupPasses DEF Forward, Moves, Keys
<1>. QED
  BY <1>3, <1>4, MovesKeep DEF Inv, Moves

(* the entry is counted: the list gets longer only if it has room, so what *)
(* found it full still does, and what was counted still is                 *)
LEMMA CountKeeps ==
    ASSUME Inv, walk.over # "none", walk.pc = "lookup",
           UNCHANGED <<allocs, pids, left, now>>,
           NEW n \in Map, Standing(n), Count(n),
           Group(n) \in walk.groups \/ Cardinality(walk.groups) < MaxDisplay
    PROVE  Inv'
<1>1. Covers /\ Forward /\ Enlisted /\ walk \in Walks
  BY DEF Inv, Typed
<1>2. n.turn \in Nat /\ n.turn > left /\ Group(n) \in Int
  <2>1. n.turn \in Nat /\ n.turn > left
    BY MapOrderly DEF Orderly
  <2>2. Group(n) \in Int
    BY DEF Group, Map, Inv, Typed, PidEntries, AllocEntries
  <2>. QED
    BY <2>1, <2>2
<1>3. /\ walk' \in Walks /\ walk'.over = walk.over /\ walk'.since = walk.since
      /\ walk'.pc = "next" /\ walk'.at = walk.at
      /\ walk'.groups = walk.groups \cup {Group(n)}
      /\ walk'.counted = walk.counted \cup {n.turn}
      /\ walk'.again <=> walk.again \/ n.turn \in walk.counted
      /\ walk'.present = walk.present /\ walk'.moved = walk.moved
  BY <1>1, <1>2 DEF Count, Advance, Walks
<1>4. Typed' /\ Map' = Map
  <2>1. IsFiniteSet(walk'.groups)
    BY <1>3, FS_AddElement DEF Inv, Typed
  <2>. QED
    BY <1>3, <2>1 DEF Inv, Typed, Map
<1>5. Orderly(pids)' /\ Orderly(allocs)'
  BY DEF Inv, Orderly
<1>6. ASSUME NEW e, Accounted(e) \/ e = n PROVE Accounted(e)'
  <2>1. Wanted(e)' <=> Wanted(e)
    BY <1>3, Zenon DEF Wanted
  <2>2. BeforePid0(e)' <=> BeforePid0(e)
    BY <1>3 DEF BeforePid0, Before, Bucket
  <2>3. Full(e) => Full(e)'
    <3>1. Group(n) \in walk.groups => walk'.groups = walk.groups
      BY <1>3
    <3>2. Full(e) => ~(Cardinality(walk.groups) < MaxDisplay) \/ walk'.groups = walk.groups
      BY GroupsCounted DEF Full
    <3>. QED
      BY <1>3, <3>1, <3>2 DEF Full, Group
  <2>. QED
    BY <1>3, <1>6, <2>1, <2>2, <2>3 DEF Accounted
<1>7. Covers'
  <2>1. \A e \in walk.present : Passed(e)' => Accounted(e)'
    <3>1. ASSUME NEW e \in Map, Standing(e) PROVE e = n
      BY <3>1, MapOrderly DEF Standing, Orderly
    <3>. QED
      BY <1>1, <1>3, <1>4, <1>6, <3>1, LookupPasses DEF Covers
  <2>. QED
    BY <1>1, <1>3, <1>4, <2>1 DEF Covers
<1>8. Forward'
  <2>1. ~walk.moved => n.turn \notin walk.counted
    BY <1>1, <1>3, <1>4, LookupPasses DEF Forward
  <2>2. walk'.at \in Keys(Map')
    BY <1>3, <1>4 DEF Keys, Standing
  <2>3. ASSUME ~walk.moved, NEW e \in Map, e.turn \in walk'.counted PROVE Passed(e)'
    <3>1. e.turn = n.turn => e = n
      BY MapOrderly DEF Orderly
    <3>. QED
      BY <1>1, <1>3, <1>4, <2>3, <3>1, LookupPasses DEF Forward
  <2>4. \A turn \in walk'.counted : turn > left
    BY <1>1, <1>2, <1>3 DEF Forward
  <2>. QED
    BY <1>1, <1>3, <1>4, <2>1, <2>2, <2>3, <2>4 DEF Forward
<1>9. Enlisted'
  BY <1>1, <1>3 DEF Enlisted, Group, Map
<1>. QED
  BY <1>4, <1>5, <1>7, <1>8, <1>9 DEF Inv

(* lookup_elem *)
LEMMA WalkLookupKeeps == ASSUME Inv, WalkLookup PROVE Inv'
<1>. DEFINE taken == {e \in Map : e.key = walk.at /\ Wanted(e)
                         /\ (Group(e) \in walk.groups \/ Cardinality(walk.groups) < MaxDisplay)}
<1>1. /\ walk.over # "none" /\ walk.pc = "lookup" /\ walk \in Walks
      /\ UNCHANGED <<allocs, pids, left, now>>
  BY DEF Inv, Typed, WalkLookup, Walking, WalkStep, External, maps
<1>2. CASE taken = {} /\ Skip
  <2>1. Moves /\ walk'.pc = "next" /\ walk'.at = walk.at
    BY <1>1, <1>2 DEF Moves, Skip, Advance, Walks
  <2>2. \A e \in Map : Standing(e) => Accounted(e)
    BY <1>2, GroupsCounted DEF Standing, Accounted, Full
  <2>. QED
    BY <1>1, <2>1, <2>2, SkipKeeps
<1>3. CASE \E e \in taken : Count(e)
  BY <1>1, <1>3, CountKeeps DEF Standing
<1>. QED
  BY <1>2, <1>3 DEF WalkLookup

(* the next section, or the end of the report *)
LEMMA WalkEndKeeps == ASSUME Inv, WalkEnd PROVE Inv'
<1>1. UNCHANGED <<allocs, pids, left, now>>
  BY DEF WalkEnd, External, maps
<1>2. CASE walk' = NoWalk
  <2>1. walk' \in Walks /\ walk'.over = "none" /\ IsFiniteSet(walk'.groups)
    BY <1>2, FS_EmptySet DEF NoWalk, Walks, NoKey
  <2>. QED
    BY <1>1, <2>1 DEF Inv, Typed, Orderly
<1>3. CASE WalkOver(allocs, "stacks") \/ WalkOver(allocs, "leaks")
  BY <1>1, <1>3, WalkStarts
<1>. QED
  BY <1>2, <1>3 DEF WalkEnd

-----------------------------------------------------------------------------
(* The handlers in the kernel *)

(* An entry that is inserted takes the place of the one of its key, and is *)
(* younger than all others.                                                *)
LEMMA InsertIsOrderly ==
    ASSUME NEW map, Orderly(map), left \in Nat, left > 0, left' = left - 1, NEW new,
           new.key \in Nat, new.turn = left, NEW next, next = Insert(map, new)
    PROVE  /\ \A e \in next : e.key \in Nat /\ e.turn \in Nat /\ e.turn > left'
           /\ \A e, f \in next : e.key = f.key \/ e.turn = f.turn => e = f
<1>1. \A e \in map : e.turn \in Nat /\ e.turn > left
  BY DEF Orderly
<1>. QED
  BY <1>1 DEF Orderly, Insert, Without

(* a handler changes alloc_table under a walk over it: `key` is removed,   *)
(* and a younger entry may take its place                                  *)
Replaced(key) ==
    /\ \A e \in allocs' : (e \in allocs /\ e.key # key) \/ (e.key = key /\ e.turn <= left)
    /\ \A e \in allocs : e.key # key => e \in allocs'
    /\ Churned(key, allocs')
    /\ left' <= left

LEMMA ChurnTyped ==
    ASSUME walk \in Walks, NEW key, Churned(key, allocs')
    PROVE  /\ walk' \in Walks /\ walk'.over = walk.over /\ walk'.since = walk.since
           /\ walk'.pc = walk.pc /\ walk'.at = walk.at /\ walk'.groups = walk.groups
           /\ walk'.counted = walk.counted /\ walk'.again = walk.again
           /\ walk'.present \subseteq walk.present
           /\ walk.over = "pids" => walk' = walk
           /\ walk.over # "pids" =>
                 walk'.present \subseteq allocs' /\ (walk'.moved <=> walk.moved \/ walk.at = key)
BY DEF Churned, Walks

LEMMA ReplacedKeeps ==
    ASSUME Inv, NEW key, Replaced(key), walk.over \in {"stacks", "leaks"},
           left' \in Nat, Orderly(allocs)'
    PROVE  Covers' /\ Forward' /\ Enlisted'
<1>. USE DEF Inv
<1>1. Covers /\ Forward /\ walk \in Walks /\ left \in Nat
  BY DEF Typed
<1>2. /\ walk'.over = walk.over /\ walk'.since = walk.since
      /\ walk'.pc = walk.pc /\ walk'.at = walk.at /\ walk'.groups = walk.groups
      /\ walk'.counted = walk.counted /\ walk'.again = walk.again
      /\ walk'.present \subseteq walk.present /\ walk'.present \subseteq allocs'
      /\ walk'.moved <=> walk.moved \/ walk.at = key
  BY <1>1, ChurnTyped DEF Replaced
<1>3. Map = allocs /\ Map' = allocs'
  BY <1>2 DEF Map
<1>4. \A e \in allocs : e.turn \in Nat /\ e.turn > left /\ Bucket(e) \in Nat
  BY OrderlyNumbered DEF Numbered, Orderly
<1>5. \A e \in allocs' : e.turn \in Nat /\ Bucket(e) \in Nat
  BY BucketTyped DEF Bucket, Orderly
<1>6. ASSUME NEW e \in allocs, e \in allocs', Passed(e)' PROVE Passed(e)
  <2>1. CASE Bucket(e) < walk.at % Buckets
    BY <2>1 DEF Passed
  <2>2. CASE \E f \in allocs' : f.key = walk.at /\ (Before(e, f) \/ (e = f /\ walk.pc # "lookup"))
    <3>1. PICK f \in allocs' : f.key = walk.at /\ (Before(e, f) \/ (e = f /\ walk.pc # "lookup"))
      BY <2>2
    <3>2. CASE f \in allocs
      BY <1>3, <3>1, <3>2 DEF Passed, Reached
    <3>3. CASE f \notin allocs /\ f.turn <= left
      <4>1. Before(e, f) /\ ~(e.turn < f.turn)
        BY <1>1, <1>4, <1>5, <3>1, <3>3
      <4>2. Bucket(e) < Bucket(f)
        BY <4>1 DEF Before
      <4>. QED
        BY <3>1, <4>2 DEF Passed, Bucket
    <3>. QED
      BY <3>2, <3>3 DEF Replaced
  <2>. QED
    BY <1>2, <1>3, <1>6, <2>1, <2>2 DEF Passed, Reached, Before, Bucket
<1>7. ASSUME NEW e \in walk'.present, Accounted(e) PROVE Accounted(e)'
  <2>1. Wanted(e)' <=> Wanted(e)
    BY <1>2, Zenon DEF Wanted
  <2>2. (Full(e)' <=> Full(e)) /\ ~BeforePid0(e)
    BY <1>2 DEF Full, Group, BeforePid0
  <2>. QED
    BY <1>2, <1>7, <2>1, <2>2 DEF Accounted
<1>8. Covers'
  <2>1. \A e \in walk'.present : e \in allocs /\ e \in allocs'
    BY <1>1, <1>2, <1>3 DEF Covers
  <2>2. \A e \in walk'.present : Passed(e)' \/ walk.pc = "end" => Accounted(e)'
    BY <1>1, <1>2, <1>6, <1>7, <2>1 DEF Covers
  <2>. QED
    BY <1>2, <1>3, <2>2 DEF Covers
<1>9. Forward'
  <2>1. \A turn \in walk'.counted : turn > left'
    BY <1>1, <1>2 DEF Forward, Walks, Replaced
  <2>2. ASSUME ~walk'.moved, walk.pc # "end"
        PROVE  /\ walk.counted = {} \/ walk.at \in Keys(allocs')
               /\ \A e \in allocs' : e.turn \in walk.counted => Passed(e)'
    <3>1. ~walk.moved /\ walk.at # key
      BY <1>2, <2>2
    <3>2. walk.counted = {} \/ walk.at \in Keys(allocs)
      BY <1>1, <1>3, <2>2, <3>1 DEF Forward
    <3>3. walk.counted = {} \/ walk.at \in Keys(allocs')
      BY <3>1, <3>2 DEF Keys, Replaced
    <3>4. ASSUME NEW e \in allocs', e.turn \in walk.counted PROVE Passed(e)'
      <4>1. e.turn > left /\ e.turn \in Nat
        BY <1>1, <1>5, <3>4 DEF Forward
      <4>2. e \in allocs
        BY <1>1, <4>1 DEF Replaced
      <4>3. Passed(e)
        BY <1>1, <1>3, <2>2, <3>1, <3>4, <4>2 DEF Forward
      <4>. QED
        BY <1>2, <1>3, <3>1, <4>3 DEF Passed, Reached, Replaced, Before, Bucket
    <3>. QED
      BY <3>3, <3>4
  <2>. QED
    BY <1>1, <1>2, <1>3, <2>1, <2>2 DEF Forward
<1>10. Enlisted'
  BY <1>2 DEF Enlisted
<1>. QED
  BY <1>8, <1>9, <1>10

(* an allocation that enters its process under a walk over the processes   *)
LEMMA EnterKeeps ==
    ASSUME Inv, walk.over = "pids", UNCHANGED walk, left \in Nat, left' \in Nat, left' <= left,
           pids \subseteq pids', Orderly(pids)',
           \A e \in pids' : e \in pids \/ (e.turn <= left /\ e.key \notin Keys(pids))
    PROVE  Covers' /\ Forward' /\ Enlisted'
<1>. USE DEF Inv
<1>1. Covers /\ Forward /\ Enlisted /\ walk \in Walks
  BY DEF Typed
<1>2. Map = pids /\ Map' = pids'
  BY DEF Map
<1>3. \A e \in pids : e.turn \in Nat /\ e.turn > left
  BY DEF Orderly
<1>4. \A e \in pids' : e.turn \in Nat /\ Bucket(e) \in Nat
  BY BucketTyped DEF Bucket, Orderly
<1>5. ASSUME NEW e \in pids, Passed(e)' PROVE Passed(e)
  <2>1. CASE Bucket(e) < walk.at % Buckets
    BY <2>1 DEF Passed
  <2>2. CASE \E f \in pids' : f.key = walk.at /\ (Before(e, f) \/ (e = f /\ walk.pc # "lookup"))
    <3>1. PICK f \in pids' : f.key = walk.at /\ (Before(e, f) \/ (e = f /\ walk.pc # "lookup"))
      BY <2>2
    <3>2. CASE f \in pids
      BY <1>2, <3>1, <3>2 DEF Passed, Reached
    <3>3. CASE f \notin pids /\ f.turn <= left
      <4>1. Before(e, f) /\ ~(e.turn < f.turn)
        BY <1>3, <1>4, <3>1, <3>3
      <4>2. Bucket(e) < Bucket(f)
        BY <4>1 DEF Before
      <4>. QED
        BY <3>1, <4>2 DEF Passed, Bucket
    <3>. QED
      BY <3>2, <3>3
  <2>. QED
    BY <1>2, <1>5, <2>1, <2>2 DEF Passed, Reached, Before, Bucket
<1>6. ASSUME NEW e, Accounted(e) PROVE Accounted(e)'
  <2>1. Wanted(e)' <=> Wanted(e)
    BY Zenon DEF Wanted
  <2>2. (Full(e)' <=> Full(e)) /\ (BeforePid0(e) => BeforePid0(e)')
    BY DEF Full, Group, BeforePid0, Before, Bucket
  <2>. QED
    BY <1>6, <2>1, <2>2 DEF Accounted
<1>7. Covers'
  <2>1. \A e \in walk.present : e \in pids
    BY <1>1, <1>2 DEF Covers
  <2>2. \A e \in walk.present : Passed(e)' \/ walk.pc = "end" => Accounted(e)'
    BY <1>1, <1>5, <1>6, <2>1 DEF Covers
  <2>. QED
    BY <1>2, <2>1, <2>2 DEF Covers
<1>8. Forward'
  <2>1. \A turn \in walk.counted : turn > left'
    BY <1>1 DEF Forward, Walks
  <2>2. ASSUME ~walk.moved, walk.pc # "end"
        PROVE  /\ walk.counted = {} \/ walk.at \in Keys(pids')
               /\ \A e \in pids' : e.turn \in walk.counted => Passed(e)'
    <3>1. walk.counted = {} \/ walk.at \in Keys(pids')
      BY <1>1, <1>2, <2>2 DEF Forward, Keys
    <3>2. ASSUME NEW e \in pids', e.turn \in walk.counted PROVE Passed(e)'
      <4>1. e.turn > left /\ e.turn \in Nat
        BY <1>1, <1>4, <3>2 DEF Forward
      <4>2. e \in pids
        BY <4>1
      <4>3. Passed(e)
        BY <1>1, <1>2, <2>2, <3>2, <4>2 DEF Forward
      <4>. QED
        BY <1>2, <4>3 DEF Passed, Reached, Before, Bucket
    <3>. QED
      BY <3>1, <3>2
  <2>. QED
    BY <1>1, <1>2, <2>1, <2>2 DEF Forward
<1>9. Enlisted'
  BY <1>1 DEF Enlisted
<1>. QED
  BY <1>7, <1>8, <1>9

LEMMA RecordAllocKeeps == ASSUME Inv, RecordAlloc PROVE Inv'
<1>. USE DEF Inv
<1>1. left \in Nat /\ left > 0 /\ left' = left - 1 /\ left' \in Nat /\ now \in Nat /\ UNCHANGED now
  BY DEF Typed, RecordAlloc
<1>2. PICK c \in Calls :
        /\ pids' = IF c.pid \in Keys(pids) THEN pids ELSE Insert(pids, [key |-> c.pid, turn |-> left])
        /\ allocs' = Insert(allocs, [key |-> c.ptr, turn |-> left, at |-> now,
                                     stack |-> c.stack, size |-> c.size])
        /\ Churned(c.ptr, allocs')
  BY DEF RecordAlloc
<1>. DEFINE newPid == [key |-> c.pid, turn |-> left]
            newAlloc == [key |-> c.ptr, turn |-> left, at |-> now, stack |-> c.stack, size |-> c.size]
<1>3. /\ newPid \in PidEntries /\ newPid.key = c.pid /\ newPid.turn = left
      /\ newAlloc \in AllocEntries /\ newAlloc.key = c.ptr /\ newAlloc.turn = left
      /\ c.pid \in Nat /\ c.ptr \in Nat
  BY <1>1, ReportAssumption DEF PidEntries, AllocEntries
<1>4. pids' = (IF c.pid \in Keys(pids) THEN pids ELSE Insert(pids, newPid))
      /\ allocs' = Insert(allocs, newAlloc)
  BY <1>2
<1>. HIDE DEF newPid, newAlloc
<1>5. Orderly(allocs)'
  BY <1>1, <1>3, <1>4, InsertIsOrderly DEF Orderly
<1>6. Orderly(pids)'
  <2>1. CASE c.pid \in Keys(pids)
    BY <1>1, <1>4, <2>1 DEF Orderly
  <2>2. CASE c.pid \notin Keys(pids)
    BY <1>1, <1>3, <1>4, <2>2, InsertIsOrderly DEF Orderly
  <2>. QED
    BY <2>1, <2>2
<1>7. walk' \in Walks /\ walk'.groups = walk.groups /\ walk'.over = walk.over
  BY <1>2, ChurnTyped DEF Typed
<1>8. pids' \subseteq PidEntries /\ allocs' \subseteq AllocEntries
  BY <1>3, <1>4 DEF Typed, Insert, Without
<1>9. CASE walk.over = "pids"
  <2>1. UNCHANGED walk
    BY <1>2, <1>9, ChurnTyped DEF Typed
  <2>2. pids \subseteq pids'
    BY <1>3, <1>4 DEF Insert, Without, Keys
  <2>3. \A e \in pids' : e \in pids \/ (e.turn <= left /\ e.key \notin Keys(pids))
    BY <1>1, <1>3, <1>4 DEF Insert, Without
  <2>. QED
    BY <1>1, <1>5, <1>6, <1>7, <1>8, <1>9, <2>1, <2>2, <2>3, EnterKeeps DEF Typed
<1>10. CASE walk.over \in {"stacks", "leaks"}
  <2>1. Replaced(c.ptr)
    BY <1>1, <1>2, <1>3, <1>4 DEF Replaced, Insert, Without
  <2>. QED
    BY <1>1, <1>5, <1>6, <1>7, <1>8, <1>10, <2>1, ReplacedKeeps DEF Typed
<1>11. CASE walk.over = "none"
  BY <1>1, <1>5, <1>6, <1>7, <1>8, <1>11 DEF Typed
<1>. QED
  BY <1>9, <1>10, <1>11 DEF Typed, Walks

LEMMA RecordFreeKeeps == ASSUME Inv, RecordFree PROVE Inv'
<1>. USE DEF Inv
<1>1. UNCHANGED <<pids, left, now>> /\ left \in Nat
  BY DEF Typed, RecordFree
<1>2. PICK p \in Keys(allocs) : allocs' = Without(allocs, p) /\ Churned(p, allocs')
  BY DEF RecordFree
<1>3. Orderly(pids)' /\ Orderly(allocs)'
  BY <1>1, <1>2 DEF Orderly, Without
<1>4. walk' \in Walks /\ walk'.groups = walk.groups /\ walk'.over = walk.over
  BY <1>2, ChurnTyped DEF Typed
<1>5. Typed'
  BY <1>1, <1>2, <1>4 DEF Typed, Without
<1>6. CASE walk.over = "pids"
  <2>1. UNCHANGED walk
    BY <1>2, <1>6, ChurnTyped DEF Typed
  <2>2. Covers' /\ Forward' /\ Enlisted'
    BY <1>1, <1>3, <1>6, <2>1, EnterKeeps
  <2>. QED
    BY <1>3, <1>5, <2>2
<1>7. CASE walk.over \in {"stacks", "leaks"}
  <2>1. Replaced(p)
    BY <1>1, <1>2 DEF Replaced, Without
  <2>. QED
    BY <1>1, <1>3, <1>5, <1>7, <2>1, ReplacedKeeps
<1>8. CASE walk.over = "none"
  BY <1>3, <1>4, <1>5, <1>8
<1>. QED
  BY <1>6, <1>7, <1>8 DEF Typed, Walks

-----------------------------------------------------------------------------
(* All steps *)

(* What main does beside its reports, the clock and a signal. *)
LEMMA OthersKeep ==
    ASSUME Inv,
           \/ LoadSymbols \/ Prepare \/ Check \/ Poll \/ Due \/ Final \/ Cleanup
           \/ Tick \/ Signal \/ Exited \/ UNCHANGED vars
    PROVE  Inv'
<1>1. UNCHANGED <<allocs, pids, left>> /\ now' \in Nat
  <2>1. now \in Nat
    BY DEF Inv, Typed
  <2>2. CASE Tick
    BY <2>1, <2>2 DEF Tick, maps
  <2>3. CASE ~Tick
    BY <2>1, <2>3 DEF LoadSymbols, Prepare, SetUp, Check, Poll, Due, Final, Cleanup, Signal, Exited,
                      vars, maps, External
  <2>. QED
    BY <2>2, <2>3
<1>2. CASE UNCHANGED walk
  BY <1>1, <1>2, RestKeeps
<1>3. CASE walk' # walk
  <2>1. (Due \/ Final) /\ WalkOver(pids, "pids")
    BY <1>3 DEF LoadSymbols, Prepare, SetUp, Check, Poll, Due, Final, Cleanup, Tick, Signal, Exited,
                vars
  <2>2. UNCHANGED now
    BY <2>1 DEF Due, Final, External
  <2>. QED
    BY <1>1, <2>1, <2>2, WalkStarts
<1>. QED
  BY <1>2, <1>3

LEMMA InvStep == Inv /\ [Next]_vars => Inv'
<1>. SUFFICES ASSUME Inv, [Next]_vars PROVE Inv'
  OBVIOUS
<1>1. CASE WalkNext
  BY <1>1, WalkNextKeeps
<1>2. CASE WalkLookup
  BY <1>2, WalkLookupKeeps
<1>3. CASE WalkEnd
  BY <1>3, WalkEndKeeps
<1>4. CASE RecordAlloc
  BY <1>4, RecordAllocKeeps
<1>5. CASE RecordFree
  BY <1>5, RecordFreeKeeps
<1>. QED
  BY <1>1, <1>2, <1>3, <1>4, <1>5, OthersKeep DEF Next, Main

LEMMA InvHolds == Spec => []Inv
BY InitHolds, InvStep, PTL DEF Spec

-----------------------------------------------------------------------------
(* The binary search *)

Syms == [addr : Nat, name : STRING]

(* a table of symbols in the order of their addresses, each address once   *)
Increasing(s) ==
    /\ s \in Seq(Syms)
    /\ \A i, j \in DOMAIN s : i < j => s[i].addr < s[j].addr

(* the symbols up to an address are those up to some place                 *)
LEMMA UpToSomePlace ==
    ASSUME NEW s, Increasing(s), NEW addr \in Nat
    PROVE  \E k \in 0 .. Len(s) : \A i \in 1 .. Len(s) : s[i].addr <= addr <=> i <= k
<1>. DEFINE n == Len(s)
            ends == {k \in 0 .. n : \A i \in 1 .. n : i > k => s[i].addr > addr}
<1>1. n \in Nat /\ DOMAIN s = 1 .. n /\ \A i \in 1 .. n : s[i].addr \in Nat
  <2>1. s \in Seq(Syms)
    BY DEF Increasing
  <2>2. \A l \in Syms : l.addr \in Nat
    BY DEF Syms
  <2>. QED
    BY <2>1, <2>2
<1>2. n \in ends
  BY <1>1
<1>3. ends \in SUBSET Nat /\ ends # {}
  BY <1>1, <1>2
<1>4. PICK k \in ends : \A m \in ends : k <= m
  BY <1>3, LeastNumber
<1>5. k \in 0 .. n /\ \A i \in 1 .. n : i > k => s[i].addr > addr
  BY <1>4
<1>6. k > 0 => s[k].addr <= addr
  <2>1. SUFFICES ASSUME k > 0, ~(s[k].addr <= addr) PROVE k - 1 \in ends
    <3>1. k - 1 \in ends => k <= k - 1
      BY <1>4
    <3>. QED
      BY <1>5, <2>1, <3>1
  <2>2. \A i \in 1 .. n : i > k - 1 => i = k \/ i > k
    BY <1>1, <1>5
  <2>3. s[k].addr > addr
    BY <1>1, <1>5, <2>1
  <2>. QED
    BY <1>1, <1>5, <2>1, <2>2, <2>3
<1>7. ASSUME NEW i \in 1 .. n PROVE s[i].addr <= addr <=> i <= k
  <2>1. CASE i > k
    BY <1>1, <1>5, <2>1
  <2>2. CASE i <= k
    <3>1. s[i].addr <= s[k].addr
      <4>1. i = k \/ i < k
        BY <1>1, <1>5, <2>2
      <4>. QED
        BY <1>1, <1>5, <4>1, <2>2 DEF Increasing
    <3>2. k \in 1 .. n
      BY <1>1, <1>5, <2>2
    <3>. QED
      BY <1>1, <1>5, <1>6, <2>2, <3>1, <3>2
  <2>. QED
    BY <1>1, <1>5, <2>1, <2>2
<1>. QED
  BY <1>5, <1>7

(* The loop ends at that place.  It may look at any symbol between `lo`    *)
(* and `hi`, and what it is to find is one of these, or the result so far. *)
LEMMA SearchFinds ==
    ASSUME Increasing(syms), NEW addr \in Nat,
           NEW k \in 0 .. Len(syms), \A i \in 1 .. Len(syms) : syms[i].addr <= addr <=> i <= k
    PROVE  Search(addr) = k
<1>. DEFINE n == Len(syms)
            up(v) == [v EXCEPT !.lo = Mid(v) + 1, !.result = Mid(v)]
            down(v) == [v EXCEPT !.hi = Mid(v) - 1]
            Finds(f) == f = [v \in Loop |->
                IF v.lo > v.hi THEN v.result
                ELSE IF syms[Mid(v)].addr <= addr THEN f[up(v)] ELSE f[down(v)]]
            least(a, b) == IF a <= b THEN a ELSE b
            place == [v \in Loop |->
                IF v.lo > v.hi \/ k < v.lo THEN v.result ELSE least(k, v.hi)]
            find == CHOOSE f : Finds(f)
            sought == {v \in Loop : v.result = v.lo - 1 /\ v.lo <= k + 1 /\ k <= v.hi}
            missed == {v \in sought : find[v] # k}
<1>1. n \in Nat /\ k \in 0 .. n
  BY DEF Increasing
<1>2. ASSUME NEW v \in Loop
      PROVE  /\ v.lo \in 1 .. n + 1 /\ v.hi \in 0 .. n /\ v.result \in 0 .. n
             /\ v.lo <= v.hi =>
                   /\ Mid(v) \in v.lo .. v.hi /\ Mid(v) \in 1 .. n
                   /\ up(v) \in Loop /\ down(v) \in Loop
                   /\ up(v).lo = Mid(v) + 1 /\ up(v).hi = v.hi /\ up(v).result = Mid(v)
                   /\ down(v).lo = v.lo /\ down(v).hi = Mid(v) - 1 /\ down(v).result = v.result
                   /\ syms[Mid(v)].addr <= addr <=> Mid(v) <= k
  <2>1. v.lo \in 1 .. n + 1 /\ v.hi \in 0 .. n /\ v.result \in 0 .. n
    BY DEF Loop
  <2>2. ASSUME v.lo <= v.hi PROVE Mid(v) \in v.lo .. v.hi /\ Mid(v) \in 1 .. n
    BY <1>1, <2>1, <2>2 DEF Mid
  <2>3. ASSUME v.lo <= v.hi PROVE up(v) \in Loop /\ down(v) \in Loop
    <3>1. Mid(v) + 1 \in 1 .. n + 1 /\ Mid(v) \in 0 .. n /\ Mid(v) - 1 \in 0 .. n
      BY <1>1, <2>2, <2>3
    <3>. HIDE DEF Mid
    <3>. QED
      BY <1>1, <3>1 DEF Loop
  <2>4. /\ up(v).lo = Mid(v) + 1 /\ up(v).hi = v.hi /\ up(v).result = Mid(v)
        /\ down(v).lo = v.lo /\ down(v).hi = Mid(v) - 1 /\ down(v).result = v.result
    BY DEF Loop
  <2>. QED
    BY <2>1, <2>2, <2>3, <2>4
<1>3. Search(addr) = find[Entire]
  BY DEF Search
<1>. HIDE DEF n, up, down
<1>4. Finds(place)
  <2>1. ASSUME NEW v \in Loop
        PROVE  place[v] = IF v.lo > v.hi THEN v.result
                          ELSE IF syms[Mid(v)].addr <= addr THEN place[up(v)] ELSE place[down(v)]
    <3>1. CASE v.lo > v.hi
      BY <3>1
    <3>2. CASE v.lo <= v.hi /\ Mid(v) <= k
      BY SMTT(60), <1>1, <1>2, <3>2
    <3>3. CASE v.lo <= v.hi /\ Mid(v) > k
      BY SMTT(60), <1>1, <1>2, <3>3
    <3>. QED
      BY <1>1, <1>2, <3>1, <3>2, <3>3
  <2>. QED
    BY <2>1
<1>5. Finds(find)
  BY <1>4
<1>. HIDE DEF find, place
<1>6. \A v \in Loop : find[v] = IF v.lo > v.hi THEN v.result
                               ELSE IF syms[Mid(v)].addr <= addr THEN find[up(v)] ELSE find[down(v)]
  BY <1>5
<1>. HIDE DEF Finds
<1>7. missed = {}
  <2>. DEFINE sizes == {v.hi - v.lo + 1 : v \in missed}
  <2>1. SUFFICES ASSUME missed # {} PROVE FALSE
    BY <2>1
  <2>2. sizes \in SUBSET Nat /\ sizes # {}
    <3>1. \A v \in missed : v.hi - v.lo + 1 \in Nat
      BY <1>1, <1>2
    <3>. QED
      BY <2>1, <3>1
  <2>3. PICK v \in missed : \A w \in missed : v.hi - v.lo + 1 <= w.hi - w.lo + 1
    <3>1. PICK m \in sizes : \A q \in sizes : m <= q
      BY <2>2, LeastNumber
    <3>2. PICK v \in missed : m = v.hi - v.lo + 1
      BY <3>1
    <3>. QED
      BY <3>1, <3>2
  <2>4. v \in Loop /\ v \in sought /\ find[v] # k
    BY <2>3
  <2>5. CASE v.lo > v.hi
    BY <1>1, <1>2, <1>6, <2>4, <2>5
  <2>6. CASE v.lo <= v.hi /\ Mid(v) <= k
    <3>1. find[v] = find[up(v)]
      BY <1>1, <1>2, <1>6, <2>4, <2>6
    <3>2. up(v) \in sought
      BY SMTT(60), <1>1, <1>2, <2>4, <2>6
    <3>3. up(v).hi - up(v).lo + 1 < v.hi - v.lo + 1
      BY SMTT(60), <1>1, <1>2, <2>4, <2>6
    <3>. QED
      <4>1. up(v) \in missed
        BY <2>4, <3>1, <3>2
      <4>2. v.hi - v.lo + 1 <= up(v).hi - up(v).lo + 1
        BY <2>3, <4>1
      <4>3. up(v).hi - up(v).lo + 1 \in Int /\ v.hi - v.lo + 1 \in Int
        <5>1. \A w \in Loop : w.hi - w.lo + 1 \in Int
          BY <1>1, <1>2
        <5>. QED
          BY <2>4, <3>2, <5>1
      <4>. QED
        BY <3>3, <4>2, <4>3
  <2>7. CASE v.lo <= v.hi /\ Mid(v) > k
    <3>1. find[v] = find[down(v)]
      BY <1>1, <1>2, <1>6, <2>4, <2>7
    <3>2. down(v) \in sought
      BY <1>1, <1>2, <2>4, <2>7
    <3>3. down(v).hi - down(v).lo + 1 < v.hi - v.lo + 1
      BY <1>1, <1>2, <2>4, <2>7
    <3>. QED
      <4>1. down(v) \in missed
        BY <2>4, <3>1, <3>2
      <4>2. v.hi - v.lo + 1 <= down(v).hi - down(v).lo + 1
        BY <2>3, <4>1
      <4>3. down(v).hi - down(v).lo + 1 \in Int /\ v.hi - v.lo + 1 \in Int
        <5>1. \A w \in Loop : w.hi - w.lo + 1 \in Int
          BY <1>1, <1>2
        <5>. QED
          BY <2>4, <3>2, <5>1
      <4>. QED
        BY <3>3, <4>2, <4>3
  <2>. QED
    BY <1>1, <1>2, <2>4, <2>5, <2>6, <2>7
<1>8. Entire \in sought
  BY <1>1 DEF Entire, Loop, n
<1>. QED
  BY <1>3, <1>7, <1>8

-----------------------------------------------------------------------------
(* Sorting, and keeping the first symbol of each address *)

(* a fold over the elements of S, as a function of the set that is folded  *)
FoldsOver(h, S, base, pick, g) ==
    \A u \in SUBSET S : h[u] = IF u = {} THEN base ELSE g[pick[u]][h[u \ {pick[u]}]]

Picks(pick, S) == \A u \in SUBSET S : u # {} => pick[u] \in u

(* A fold over a finite set exists: there is a function that takes an      *)
(* element out of a set by `pick` and goes on with the rest.               *)
LEMMA FoldExists ==
    ASSUME NEW S, IsFiniteSet(S), NEW V, NEW base \in V,
           NEW pick, Picks(pick, S),
           NEW g \in [S -> [V -> V]]
    PROVE  \E h \in [SUBSET S -> V] : FoldsOver(h, S, base, pick, g)
<1>. DEFINE Up(h, u) == IF u = {} THEN base ELSE g[pick[u]][h[u \ {pick[u]}]]
            FoldsTo(h, n) == \A u \in SUBSET S : Cardinality(u) <= n => h[u] = Up(h, u)
            bad == {n \in Nat : ~ \E h \in [SUBSET S -> V] : FoldsTo(h, n)}
<1>1. \A u \in SUBSET S : IsFiniteSet(u) /\ Cardinality(u) \in Nat /\ Cardinality(u) <= Cardinality(S)
  BY FS_Subset, FS_CardinalityType
<1>2. \A u \in SUBSET S : u # {} => /\ pick[u] \in S /\ u \ {pick[u]} \in SUBSET S
                                   /\ Cardinality(u \ {pick[u]}) = Cardinality(u) - 1
  BY <1>1, FS_RemoveElement DEF Picks
<1>3. \A h \in [SUBSET S -> V] : \A u \in SUBSET S : Up(h, u) \in V
  <2>1. ASSUME NEW h \in [SUBSET S -> V], NEW u \in SUBSET S, u # {}
        PROVE  g[pick[u]][h[u \ {pick[u]}]] \in V
    <3>1. pick[u] \in S /\ u \ {pick[u]} \in SUBSET S
      BY <1>2, <2>1
    <3>2. g[pick[u]] \in [V -> V] /\ h[u \ {pick[u]}] \in V
      BY <3>1
    <3>. QED
      BY <3>2
  <2>. QED
    BY <2>1
<1>4. \A u \in SUBSET S : Cardinality(u) <= 0 => u = {}
  BY <1>1, FS_EmptySet
<1>5. bad = {}
  <2>1. SUFFICES ASSUME bad # {} PROVE FALSE
    BY <2>1
  <2>2. PICK n \in bad : \A m \in bad : n <= m
    <3>1. bad \in SUBSET Nat
      OBVIOUS
    <3>. HIDE DEF bad
    <3>. QED
      BY <2>1, <3>1, LeastNumber
  <2>. HIDE DEF FoldsTo
  <2>5. n \in Nat /\ ~ \E h \in [SUBSET S -> V] : FoldsTo(h, n)
    BY <2>2
  <2>3. CASE n = 0
    <3>. DEFINE const == [u \in SUBSET S |-> base]
    <3>1. FoldsTo(const, n)
      BY <1>4, <2>3 DEF FoldsTo
    <3>2. const \in [SUBSET S -> V]
      OBVIOUS
    <3>. HIDE DEF const
    <3>. QED
      BY <2>5, <3>1, <3>2
  <2>4. CASE n # 0
    <3>1. n - 1 \in Nat /\ n - 1 \notin bad
      <4>. HIDE DEF bad
      <4>1. n - 1 \in bad => n <= n - 1
        BY <2>2
      <4>. QED
        BY <2>4, <2>5, <4>1
    <3>2. PICK h \in [SUBSET S -> V] : FoldsTo(h, n - 1)
      BY <3>1
    <3>. DEFINE next == [u \in SUBSET S |-> Up(h, u)]
    <3>3. next \in [SUBSET S -> V]
      BY <1>3
    <3>4. ASSUME NEW u \in SUBSET S, Cardinality(u) <= n PROVE next[u] = Up(next, u)
      <4>1. CASE u = {}
        BY <4>1
      <4>2. CASE u # {}
        <5>1. Cardinality(u \ {pick[u]}) <= n - 1
          BY <1>1, <1>2, <2>5, <3>4, <4>2
        <5>2. u \ {pick[u]} \in SUBSET S
          OBVIOUS
        <5>3. h[u \ {pick[u]}] = Up(h, u \ {pick[u]})
          BY <3>2, <5>1, <5>2 DEF FoldsTo
        <5>4. next[u \ {pick[u]}] = Up(h, u \ {pick[u]})
          BY <5>2
        <5>5. next[u] = g[pick[u]][h[u \ {pick[u]}]]
          BY <4>2
        <5>6. Up(next, u) = g[pick[u]][next[u \ {pick[u]}]]
          BY <4>2
        <5>. HIDE DEF next, Up
        <5>. QED
          BY <5>3, <5>4, <5>5, <5>6
      <4>. QED
        BY <4>1, <4>2
    <3>5. FoldsTo(next, n)
      BY <3>4 DEF FoldsTo
    <3>. HIDE DEF next
    <3>. QED
      BY <2>5, <3>3, <3>5
  <2>. QED
    BY <2>3, <2>4
<1>6. Cardinality(S) \in Nat
  BY FS_CardinalityType
<1>7. PICK h \in [SUBSET S -> V] : FoldsTo(h, Cardinality(S))
  BY <1>5, <1>6
<1>. QED
  BY <1>1, <1>7 DEF FoldsOver

(* the greatest element of a set of places *)
LEMMA GreatestPlace ==
    ASSUME NEW n \in Nat, NEW u \in SUBSET (1 .. n), u # {}
    PROVE  Max(u) \in u /\ \A i \in u : Max(u) >= i
<1>. DEFINE I == {n - i : i \in u}
<1>1. I \in SUBSET Nat /\ I # {}
  <2>1. \A i \in u : i \in Int /\ n - i \in Nat
    OBVIOUS
  <2>. QED
    BY <2>1
<1>2. PICK x \in I : \A y \in I : x <= y
  BY <1>1, LeastNumber
<1>3. PICK i \in u : x = n - i
  BY <1>2
<1>4. \A j \in u : n - i <= n - j
  BY <1>2, <1>3
<1>5. \A j \in u : i >= j
  BY <1>4
<1>. QED
  BY <1>5 DEF Max

(* what is kept of the first k symbols *)
KeptOf(s, k, kept) ==
    /\ Increasing(kept) /\ kept # <<>>
    /\ kept[Len(kept)].addr = s[k].addr
    /\ \A i \in DOMAIN kept : \E j \in 1 .. k : kept[i] = s[j]
    /\ \A j \in 1 .. k : \E i \in DOMAIN kept : kept[i].addr = s[j].addr

(* one turn of the loop *)
LEMMA KeepsOneMore ==
    ASSUME NEW s \in Seq(Syms), NEW k \in 1 .. Len(s) - 1, s[k].addr <= s[k + 1].addr,
           NEW kept, KeptOf(s, k, kept)
    PROVE  KeptOf(s, k + 1, IF kept[Len(kept)].addr # s[k + 1].addr
                            THEN Append(kept, s[k + 1]) ELSE kept)
<1>. SUFFICES ASSUME NEW n, n = Len(kept), NEW new, new = s[k + 1],
                     NEW next, next = Append(kept, new)
              PROVE  KeptOf(s, k + 1, IF kept[n].addr # new.addr THEN next ELSE kept)
  OBVIOUS
<1>1. /\ kept \in Seq(Syms) /\ n \in Nat /\ n >= 1 /\ DOMAIN kept = 1 .. n
      /\ new \in Syms /\ s[k] \in Syms /\ \A i \in 1 .. n : kept[i] \in Syms
  <2>1. kept \in Seq(Syms) /\ kept # <<>>
    BY DEF KeptOf, Increasing
  <2>. QED
    BY <2>1
<1>2. \A l \in Syms : l.addr \in Nat
  BY DEF Syms
<1>3. \A i, j \in 1 .. n : i < j => kept[i].addr < kept[j].addr
  BY <1>1 DEF KeptOf, Increasing
<1>4. /\ kept[n].addr = s[k].addr
      /\ \A i \in 1 .. n : \E j \in 1 .. k : kept[i] = s[j]
      /\ \A j \in 1 .. k : \E i \in 1 .. n : kept[i].addr = s[j].addr
  BY <1>1 DEF KeptOf
<1>5. CASE kept[n].addr = new.addr
  <2>1. \A j \in 1 .. k + 1 : j \in 1 .. k \/ j = k + 1
    OBVIOUS
  <2>2. KeptOf(s, k + 1, kept)
    <3>1. kept[n].addr = s[k + 1].addr
      BY <1>5
    <3>2. \A i \in 1 .. n : \E j \in 1 .. k + 1 : kept[i] = s[j]
      BY <1>4
    <3>3. \A j \in 1 .. k + 1 : \E i \in 1 .. n : kept[i].addr = s[j].addr
      <4>1. n \in 1 .. n
        BY <1>1
      <4>2. \A j \in 1 .. k : \E i \in 1 .. n : kept[i].addr = s[j].addr
        BY <1>4
      <4>. QED
        BY <2>1, <3>1, <4>1, <4>2, Zenon
    <3>. QED
      BY <1>1, <3>1, <3>2, <3>3 DEF KeptOf
  <2>. QED
    BY <1>5, <2>2
<1>6. CASE kept[n].addr # new.addr
  <2>1. kept[n].addr < new.addr
    <3>1. s[k].addr \in Nat /\ new.addr \in Nat /\ s[k].addr <= new.addr
      BY <1>1, <1>2
    <3>. QED
      <4>1. kept[n].addr = s[k].addr
        BY <1>4
      <4>. QED
        BY <1>6, <3>1, <4>1
  <2>2. /\ next \in Seq(Syms) /\ Len(next) = n + 1 /\ DOMAIN next = 1 .. n + 1 /\ next # <<>>
        /\ \A i \in 1 .. n : next[i] = kept[i]
        /\ next[n + 1] = new
    BY <1>1
  <2>3. \A i \in 1 .. n : kept[i].addr < new.addr
    <3>1. ASSUME NEW i \in 1 .. n PROVE kept[i].addr = kept[n].addr \/ kept[i].addr < kept[n].addr
      <4>1. i = n \/ i < n
        BY <1>1
      <4>. QED
        BY <1>1, <1>3, <4>1
    <3>2. \A i \in 1 .. n : kept[i].addr \in Nat
      BY <1>1, <1>2
    <3>3. kept[n].addr \in Nat /\ new.addr \in Nat
      BY <1>1, <1>2
    <3>4. \A a \in Nat, b \in Nat, c \in Nat : a < b /\ b < c => a < c
      OBVIOUS
    <3>. QED
      BY <2>1, <3>1, <3>2, <3>3, <3>4
  <2>4. \A i \in 1 .. n + 1 : i \in 1 .. n \/ i = n + 1
    BY <1>1
  <2>5. Increasing(next)
    <3>1. ASSUME NEW i \in 1 .. n + 1, NEW j \in 1 .. n + 1, i < j
          PROVE  next[i].addr < next[j].addr
      <4>1. i \in 1 .. n
        BY <1>1, <3>1
      <4>. QED
        BY <1>3, <2>2, <2>3, <2>4, <3>1, <4>1
    <3>. QED
      BY <2>2, <3>1 DEF Increasing
  <2>6. \A i \in 1 .. n + 1 : \E j \in 1 .. k + 1 : next[i] = s[j]
    <3>1. \A j \in 1 .. k : j \in 1 .. k + 1
      OBVIOUS
    <3>2. k + 1 \in 1 .. k + 1
      OBVIOUS
    <3>3. \A i \in 1 .. n : \E j \in 1 .. k + 1 : next[i] = s[j]
      <4>1. \A i \in 1 .. n : \E j \in 1 .. k : kept[i] = s[j]
        BY <1>4
      <4>. QED
        BY <2>2, <3>1, <4>1, Zenon
    <3>4. next[n + 1] = s[k + 1]
      BY <2>2
    <3>. QED
      BY <2>4, <3>2, <3>3, <3>4
  <2>7. \A j \in 1 .. k + 1 : \E i \in 1 .. n + 1 : next[i].addr = s[j].addr
    <3>1. \A j \in 1 .. k + 1 : j \in 1 .. k \/ j = k + 1
      OBVIOUS
    <3>2. n + 1 \in 1 .. n + 1 /\ \A i \in 1 .. n : i \in 1 .. n + 1
      BY <1>1
    <3>3. \A j \in 1 .. k : \E i \in 1 .. n + 1 : next[i].addr = s[j].addr
      BY <1>4, <2>2, <3>2
    <3>4. next[n + 1].addr = s[k + 1].addr
      BY <2>2
    <3>. QED
      BY <3>1, <3>2, <3>3, <3>4
  <2>8. KeptOf(s, k + 1, next)
    <3>1. next[Len(next)].addr = s[k + 1].addr
      BY <2>2
    <3>. QED
      <4>1. \A i \in DOMAIN next : \E j \in 1 .. k + 1 : next[i] = s[j]
        BY <2>2, <2>6, Zenon
      <4>2. \A j \in 1 .. k + 1 : \E i \in DOMAIN next : next[i].addr = s[j].addr
        BY <2>2, <2>7, Zenon
      <4>. QED
        BY <2>2, <2>5, <3>1, <4>1, <4>2, Zenon DEF KeptOf
  <2>. QED
    BY <1>6, <2>8
<1>. QED
  BY <1>5, <1>6

(* the loop *)
LEMMA KeepsFirst ==
    ASSUME NEW s \in Seq(Syms), s # <<>>, \A i \in 1 .. Len(s) - 1 : s[i].addr <= s[i + 1].addr
    PROVE  KeptOf(s, Len(s), KeepFirst(s))
<1>. DEFINE rest == Tail(s)
            D == DOMAIN rest
            n == Len(rest)
            V == Seq(Syms)
            pick == [u \in SUBSET D |-> Max(u)]
            g == [x \in D |-> [v \in V |-> IF Last(v).addr # rest[x].addr THEN Append(v, rest[x]) ELSE v]]
            Folds(it) == it = [u \in SUBSET D |->
                IF u = {} THEN <<Head(s)>>
                ELSE IF Last(it[u \ {Max(u)}]).addr # rest[Max(u)].addr
                     THEN Append(it[u \ {Max(u)}], rest[Max(u)]) ELSE it[u \ {Max(u)}]]
            iter == CHOOSE it : Folds(it)
<1>1. /\ rest \in V /\ n \in Nat /\ D = 1 .. n /\ Len(s) = n + 1
      /\ <<Head(s)>> \in V /\ Head(s) = s[1] /\ s[1] \in Syms
      /\ \A i \in 1 .. n : rest[i] = s[i + 1] /\ rest[i] \in Syms
  OBVIOUS
<1>2. KeepFirst(s) = iter[D]
  BY Zenon DEF KeepFirst, FoldLeft, MapThenFoldSet
<1>3. \E it : Folds(it)
  <2>1. Picks(pick, D)
    BY <1>1, GreatestPlace DEF Picks
  <2>2. g \in [D -> [V -> V]]
    BY <1>1
  <2>3. IsFiniteSet(D)
    BY <1>1, FS_Interval
  <2>. HIDE DEF pick, g, D, V
  <2>4. PICK h \in [SUBSET D -> V] : FoldsOver(h, D, <<Head(s)>>, pick, g)
    <3>1. <<Head(s)>> \in V
      BY <1>1
    <3>. HIDE DEF n, rest
    <3>. QED
      BY <2>1, <2>2, <2>3, <3>1, FoldExists
  <2>5. ASSUME NEW u \in SUBSET D, u # {}
        PROVE  g[pick[u]][h[u \ {pick[u]}]] =
                  IF Last(h[u \ {Max(u)}]).addr # rest[Max(u)].addr
                  THEN Append(h[u \ {Max(u)}], rest[Max(u)]) ELSE h[u \ {Max(u)}]
    <3>1. pick[u] = Max(u) /\ Max(u) \in D /\ u \ {Max(u)} \in SUBSET D
      BY <2>1, <2>5 DEF Picks, pick
    <3>2. h[u \ {Max(u)}] \in V
      BY <3>1
    <3>. QED
      BY <3>1, <3>2 DEF g
  <2>6. Folds(h)
    BY <2>4, <2>5 DEF FoldsOver
  <2>. QED
    BY <2>6
<1>4. Folds(iter)
  BY <1>3
<1>. HIDE DEF iter
<1>5. /\ iter[{}] = <<Head(s)>>
      /\ \A u \in SUBSET D : u # {} => iter[u] =
            IF Last(iter[u \ {Max(u)}]).addr # rest[Max(u)].addr
            THEN Append(iter[u \ {Max(u)}], rest[Max(u)]) ELSE iter[u \ {Max(u)}]
  BY <1>4
<1>. HIDE DEF Folds, rest, n, D
<1>. DEFINE missed == {k \in 0 .. n : ~KeptOf(s, k + 1, iter[1 .. k])}
<1>6. missed = {}
  <2>1. SUFFICES ASSUME missed # {} PROVE FALSE
    BY <2>1
  <2>2. PICK k \in missed : \A m \in missed : k <= m
    <3>1. missed \in SUBSET Nat
      BY <1>1
    <3>. HIDE DEF missed
    <3>. QED
      BY <2>1, <3>1, LeastNumber
  <2>3. CASE k = 0
    <3>. DEFINE one == <<Head(s)>>
    <3>1. iter[1 .. k] = one
      BY <1>5, <2>3
    <3>2. one \in Seq(Syms) /\ Len(one) = 1 /\ DOMAIN one = {1} /\ one[1] = s[1] /\ one # <<>>
      BY <1>1
    <3>3. 1 .. k + 1 = {1}
      BY <2>3
    <3>. HIDE DEF one
    <3>4. Increasing(one)
      BY <3>2 DEF Increasing
    <3>5. KeptOf(s, 1, one)
      BY <3>2, <3>4 DEF KeptOf
    <3>. QED
      BY <2>2, <2>3, <3>1, <3>5
  <2>4. CASE k # 0
    <3>1. k - 1 \in 0 .. n /\ k - 1 \notin missed /\ k \in 1 .. n
      BY <1>1, <2>2, <2>4
    <3>2. KeptOf(s, k, iter[1 .. k - 1])
      BY <3>1
    <3>3. 1 .. k \in SUBSET D /\ 1 .. k # {} /\ Max(1 .. k) = k /\ (1 .. k) \ {k} = 1 .. k - 1
      <4>1. Max(1 .. k) = k
        <5>1. 1 .. k \in SUBSET (1 .. k) /\ k \in 1 .. k /\ k \in Nat
          BY <1>1, <3>1
        <5>2. Max(1 .. k) \in 1 .. k /\ Max(1 .. k) >= k
          BY <5>1, GreatestPlace
        <5>. QED
          BY <5>2
      <4>2. k \in Nat /\ k >= 1 /\ k <= n /\ n \in Nat /\ D = 1 .. n
        BY <1>1, <3>1
      <4>. HIDE DEF missed
      <4>3. 1 .. k \subseteq 1 .. n /\ k \in 1 .. k
        BY <4>2
      <4>4. (1 .. k) \ {k} = 1 .. k - 1
        BY <4>2
      <4>. QED
        BY <4>1, <4>2, <4>3, <4>4
    <3>4. iter[1 .. k] = IF Last(iter[1 .. k - 1]).addr # s[k + 1].addr
                         THEN Append(iter[1 .. k - 1], s[k + 1]) ELSE iter[1 .. k - 1]
      <4>1. rest[k] = s[k + 1]
        BY <1>1, <3>1
      <4>2. iter[1 .. k] = IF Last(iter[1 .. k - 1]).addr # rest[k].addr
                           THEN Append(iter[1 .. k - 1], rest[k]) ELSE iter[1 .. k - 1]
        BY <1>5, <3>3
      <4>. QED
        BY <4>1, <4>2
    <3>5. KeptOf(s, k + 1, iter[1 .. k])
      <4>1. k \in 1 .. Len(s) - 1 /\ s[k].addr <= s[k + 1].addr
        BY <1>1, <3>1
      <4>. HIDE DEF missed
      <4>. DEFINE prev == iter[1 .. k - 1]
      <4>2. KeptOf(s, k, prev) /\ iter[1 .. k] = IF prev[Len(prev)].addr # s[k + 1].addr
                                                 THEN Append(prev, s[k + 1]) ELSE prev
        BY <3>2, <3>4 DEF Last
      <4>. HIDE DEF prev
      <4>3. KeptOf(s, k + 1, IF prev[Len(prev)].addr # s[k + 1].addr
                             THEN Append(prev, s[k + 1]) ELSE prev)
        BY <4>1, <4>2, KeepsOneMore
      <4>. QED
        BY <4>2, <4>3
    <3>. QED
      BY <2>2, <3>5
  <2>. QED
    BY <2>3, <2>4
<1>. QED
  BY <1>1, <1>2, <1>6

-----------------------------------------------------------------------------
(* The table of symbols *)

(* an ordering of a finite set names each of its elements once *)
LEMMA OrderingIsComplete ==
    ASSUME NEW S, IsFiniteSet(S), NEW s \in SetToSeqs(S)
    PROVE  /\ s \in Seq(S) /\ DOMAIN s = 1 .. Len(s)
           /\ \A i, j \in 1 .. Len(s) : i # j => s[i] # s[j]
           /\ \A x \in S : \E i \in 1 .. Len(s) : s[i] = x
<1>. DEFINE n == Cardinality(S)
<1>1. n \in Nat
  BY FS_CardinalityType
<1>2. s \in [1 .. n -> S] /\ \A i, j \in 1 .. n : i # j => s[i] # s[j]
  BY DEF SetToSeqs
<1>. HIDE DEF n
<1>3. s \in Seq(S) /\ Len(s) = n /\ DOMAIN s = 1 .. n
  BY <1>1, <1>2
<1>4. s \in Injection(1 .. n, S)
  BY <1>2 DEF Injection, IsInjective
<1>5. Cardinality(1 .. n) = n
  BY <1>1, FS_Interval
<1>6. s \in Surjection(1 .. n, S)
  BY <1>4, <1>5, FS_Injection DEF n
<1>7. \A x \in S : \E i \in 1 .. n : s[i] = x
  BY <1>6 DEF Surjection
<1>. QED
  BY <1>2, <1>3, <1>7

(* the table made of a set of lines *)
TableOf(lines, table) ==
    /\ Increasing(table) /\ table # <<>>
    /\ \A i \in DOMAIN table : table[i] \in lines
    /\ \A l \in lines : \E i \in DOMAIN table : table[i].addr = l.addr

LEMMA TableIsMade ==
    ASSUME NEW lines \in SUBSET Syms, IsFiniteSet(lines), lines # {}, NEW s \in Sorted(lines)
    PROVE  TableOf(lines, KeepFirst(s))
<1>1. /\ s \in Seq(lines) /\ DOMAIN s = 1 .. Len(s)
      /\ \A l \in lines : \E i \in 1 .. Len(s) : s[i] = l
      /\ \A i \in 1 .. Len(s) - 1 : s[i].addr <= s[i + 1].addr
  BY OrderingIsComplete DEF Sorted
<1>2. s \in Seq(Syms) /\ s # <<>> /\ \A i \in 1 .. Len(s) : s[i] \in lines
  BY <1>1
<1>. DEFINE kept == KeepFirst(s)
<1>3. KeptOf(s, Len(s), kept)
  BY <1>1, <1>2, KeepsFirst
<1>. HIDE DEF kept
<1>4. \A i \in DOMAIN kept : kept[i] \in lines
  BY <1>2, <1>3 DEF KeptOf
<1>5. ASSUME NEW l \in lines PROVE \E i \in DOMAIN kept : kept[i].addr = l.addr
  <2>1. PICK j \in 1 .. Len(s) : s[j] = l
    BY <1>1
  <2>2. \E i \in DOMAIN kept : kept[i].addr = s[j].addr
    BY <1>3 DEF KeptOf
  <2>. QED
    BY <2>1, <2>2
<1>6. TableOf(lines, kept)
  BY <1>3, <1>4, <1>5, Zenon DEF KeptOf, TableOf
<1>. QED
  BY <1>6 DEF kept

(* What is known of the table.  A table that shows only zeros is there,    *)
(* but nothing is looked up in it.                                         *)
Tabulated ==
    /\ loadStatus \in {0, -1, 1, -2}
    /\ loadStatus \in {0, -1} => syms = <<>>
    /\ loadStatus = 1 => stored \subseteq Syms /\ TableOf(stored, syms)

LEMMA LoadTabulates ==
    ASSUME NEW files, \A file \in files : file \in Seq(Syms), SymbolsLoad(files)
    PROVE  Tabulated'
<1>1. CASE syms' = <<>> /\ loadStatus' = -1
  BY <1>1 DEF Tabulated
<1>2. CASE ~(syms' = <<>> /\ loadStatus' = -1)
  <2>. DEFINE linesOf(file, some) == {file[i] : i \in some}
  <2>1. PICK file \in files : \E read \in 0 .. Len(file) : \E out \in SUBSET (1 .. read) :
           /\ stored' = linesOf(file, (1 .. read) \ out) /\ stored' # {}
           /\ \E s \in Sorted(stored') : syms' = KeepFirst(s)
           /\ loadStatus' \in {1, -2}
    BY <1>2 DEF SymbolsLoad
  <2>2. PICK some \in SUBSET (1 .. Len(file)) :
           /\ stored' = linesOf(file, some) /\ stored' # {}
           /\ \E s \in Sorted(stored') : syms' = KeepFirst(s)
           /\ loadStatus' \in {1, -2}
    <3>1. PICK read \in 0 .. Len(file) : \E out \in SUBSET (1 .. read) :
             /\ stored' = linesOf(file, (1 .. read) \ out) /\ stored' # {}
             /\ \E s \in Sorted(stored') : syms' = KeepFirst(s)
             /\ loadStatus' \in {1, -2}
      BY <2>1
    <3>2. (1 .. read) \subseteq 1 .. Len(file)
      OBVIOUS
    <3>. QED
      BY <3>1, <3>2
  <2>3. file \in Seq(Syms) /\ some \subseteq 1 .. Len(file) /\ stored' = {file[i] : i \in some}
    BY <2>2
  <2>4. IsFiniteSet(some)
    <3>1. IsFiniteSet(1 .. Len(file))
      <4>1. 1 \in Int /\ Len(file) \in Int
        BY <2>3
      <4>. QED
        BY <4>1, FS_Interval
    <3>. QED
      BY <2>3, <3>1, FS_Subset
  <2>5. stored' \subseteq Syms
    BY <2>3
  <2>6. IsFiniteSet(stored')
    <3>1. [i \in some |-> file[i]] \in Surjection(some, stored')
      BY <2>3 DEF Surjection
    <3>. QED
      BY <2>4, <3>1, FS_Surjection
  <2>7. TableOf(stored', syms')
    BY <2>2, <2>5, <2>6, TableIsMade
  <2>. QED
    BY <2>2, <2>5, <2>7 DEF Tabulated
<1>. QED
  BY <1>1, <1>2

LEMMA TabulatedStep == Tabulated /\ [Next]_vars => Tabulated'
<1>. SUFFICES ASSUME Tabulated, [Next]_vars PROVE Tabulated'
  OBVIOUS
<1>1. CASE LoadSymbols
  <2>1. \A file \in Kallsyms : file \in Seq(Syms)
    BY SymbolsAssumption DEF Syms
  <2>2. \A file \in {<<>>} : file \in Seq(Syms)
    OBVIOUS
  <2>. QED
    BY <1>1, <2>1, <2>2, LoadTabulates DEF LoadSymbols
<1>2. CASE Cleanup
  BY <1>2 DEF Cleanup, SymbolsFree, Tabulated, TableOf
<1>3. CASE UNCHANGED symbolVars
  BY <1>3 DEF symbolVars, Tabulated, TableOf, Increasing
<1>4. LoadSymbols \/ Cleanup \/ UNCHANGED symbolVars
  BY DEF Next, Main, Prepare, SetUp, Check, Poll, Due, Final, WalkNext, WalkLookup, WalkEnd, WalkStep,
         External, RecordAlloc, RecordFree, Tick, Signal, Exited, vars
<1>. QED
  BY <1>1, <1>2, <1>3, <1>4

LEMMA TabulatedIsEnough == Tabulated => ResolvesNearest
<1>. SUFFICES ASSUME Tabulated, NEW addr \in Addresses
              PROVE  IF addr = 0 \/ loadStatus # 1 \/ Nearest(addr) = {}
                     THEN SymbolResolve(addr) = NoSymbol
                     ELSE SymbolResolve(addr) \in {l.name : l \in Nearest(addr)}
  BY DEF ResolvesNearest
<1>1. CASE addr = 0 \/ loadStatus # 1
  BY <1>1 DEF Tabulated, SymbolResolve
<1>2. CASE addr # 0 /\ loadStatus = 1
  <2>1. /\ stored \subseteq Syms /\ Increasing(syms) /\ syms # <<>>
        /\ \A i \in DOMAIN syms : syms[i] \in stored
        /\ \A l \in stored : \E i \in DOMAIN syms : syms[i].addr = l.addr
    BY <1>2 DEF Tabulated, TableOf
  <2>2. addr \in Nat
    BY SymbolsAssumption
  <2>3. PICK k \in 0 .. Len(syms) : \A i \in 1 .. Len(syms) : syms[i].addr <= addr <=> i <= k
    BY <2>1, <2>2, UpToSomePlace
  <2>4. Search(addr) = k
    BY <2>1, <2>2, <2>3, SearchFinds
  <2>5. Len(syms) \in Nat /\ DOMAIN syms = 1 .. Len(syms)
    BY <2>1 DEF Increasing
  <2>6. \A l \in stored : l.addr \in Nat
    BY <2>1 DEF Syms
  <2>7. CASE k = 0
    <3>1. \A l \in stored : ~(l.addr <= addr)
      BY <2>1, <2>3, <2>5, <2>7
    <3>2. Nearest(addr) = {}
      BY <3>1 DEF Nearest
    <3>. QED
      BY <2>4, <2>7, <3>2 DEF SymbolResolve
  <2>8. CASE k # 0
    <3>1. k \in 1 .. Len(syms) /\ syms[k] \in stored /\ syms[k].addr <= addr
      BY <2>1, <2>3, <2>5, <2>8
    <3>2. ASSUME NEW l \in stored, l.addr <= addr PROVE l.addr <= syms[k].addr
      <4>1. PICK i \in 1 .. Len(syms) : syms[i].addr = l.addr
        BY <2>1, <2>5
      <4>2. i = k \/ i < k
        BY <2>3, <2>5, <3>2, <4>1
      <4>3. i < k => syms[i].addr < syms[k].addr
        BY <2>1, <2>5, <3>1 DEF Increasing
      <4>. QED
        BY <2>6, <3>1, <4>1, <4>2, <4>3
    <3>3. syms[k] \in Nearest(addr)
      BY <3>1, <3>2 DEF Nearest
    <3>4. SymbolResolve(addr) = syms[k].name
      BY <1>2, <2>1, <2>4, <2>8 DEF SymbolResolve
    <3>. QED
      BY <1>2, <3>3, <3>4
  <2>. QED
    BY <2>7, <2>8
<1>. QED
  BY <1>1, <1>2

LEMMA TabulatedHolds == Spec => []Tabulated
<1>1. Init => Tabulated
  BY DEF Init, SymbolsInit, Tabulated
<1>. QED
  BY <1>1, TabulatedStep, PTL DEF Spec

-----------------------------------------------------------------------------
(* The theorems *)

(* While the handlers insert, replace and remove entries, a walk misses no *)
(* entry that stays in its map (but processes up to pid 0) unless the list *)
(* is full, and counts one twice only if the key it stood on was removed.  *)
THEOREM WalksMissNothing == Spec => []WalksAreComplete
BY InvHolds, InvIsEnough, PTL

(* Whatever the file says and whichever lines memory did not suffice for,  *)
(* the search in the sorted and stripped table of symbols finds a symbol   *)
(* of the greatest stored address that is not behind the one asked for.    *)
THEOREM SymbolsAreNearest == Spec => []ResolvesNearest
BY TabulatedHolds, TabulatedIsEnough, PTL
=============================================================================
