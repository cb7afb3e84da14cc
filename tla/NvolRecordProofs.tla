-------------------------- MODULE NvolRecordProofs ---------------------------
(***************************************************************************)
(* What the records of a sector are worth, for every number of slots, keys *)
(* and values: WritesErasedSlots, EntriesAreGood and WriteHasRoom.  Power  *)
(* may be lost anywhere but inside an erase, and erases may fail; writes   *)
(* do not.                                                                 *)
(***************************************************************************)
EXTENDS NvolIndexProofs

\* The faults that are excluded: the code does not cope with them.
WritesWork == {"writeFail", "headerFail", "tornErase"} \cap Faults = {}

Unused(s, i) == slot[s][i].flags = "EMPTY"

\* The first n slots of a sector are used, the others are not.
FilledTo(s, n) == \A i \in Idx : Unused(s, i) <=> i >= n

GoodIn(s, k) ==
    LET r == slot[s][idx[k]] IN r.flags = "VALID" /\ r.sum /\ r.key = k

Good(k) == GoodIn(sector, k) /\ local[k] = Cache(slot[sector][idx[k]].val)

\* Slots are used from the first on, and a sector is erased with its header.
SlotInv ==
    \A s \in Sectors :
        /\ \A i \in Idx, j \in Idx : i <= j /\ Unused(s, i) => Unused(s, j)
        /\ hdr[s].flags \in {"EMPTY", "GARBAGE"} => \A i \in Idx : Unused(s, i)

\* Places where init_sectors has not yet got a sector to use.
EarlyPCs == {"off", "reset1", "reset2", "scrub1", "scrub2", "plan",
             "formatErase", "formatValid"}

\* The header of the sector in use has been written, and how far the other one is.
HeadersInv ==
    /\ pc \notin EarlyPCs => hdr[sector].flags \in {"INIT", "VALID"}
    /\ pc \in {"moveInit", "swapInit"} => hdr[Dst].flags = "EMPTY"
    /\ pc \in {"moveCopy", "swapCopy"} => hdr[Dst].flags = "INIT" /\ FilledTo(Dst, dst_i)
    /\ pc = "switch" => hdr[Dst].flags = "VALID"

\* Places of calls on a loaded volume, where RAM describes the sector in use.
LoadedPCs == {"idle", "swapErase", "swapInit", "swapCopy", "eraseSource",
              "write", "commit", "retire", "remove", "forget"}
Loaded == pc \in LoadedPCs \/ (pc \in {"moveErase", "moveInit", "moveCopy"} /\ call.op = "repair")

\* Keys whose entry does not describe their record: copied or marked already.
Exempt ==
    CASE pc = "swapCopy" -> Keys \ todo
      [] pc = "forget"   -> {call.key}
      [] OTHER           -> {}

LoadedInv ==
    Loaded =>
        /\ FilledTo(sector, IF pc = "commit" THEN next + 1 ELSE next)
        /\ \A k \in Keys \ Exempt : idx[k] # NoIdx => Good(k)

\* Which call is where: swap_sectors never falls back on move_sector.
CallInv ==
    /\ pc \in {"reset1", "reset2"} => call.op \in LoadOps
    /\ pc \in LoadPCs \ {"reset1", "reset2"} => call.op \in {"load", "reset"}
    /\ pc \in {"moveErase", "moveInit", "moveCopy"} => call.op \in {"load", "reset", "repair"}
    /\ pc \in {"swapErase", "swapInit", "swapCopy"} => call.op = "set"

\* A record on its way from NEW to VALID.
SetInv ==
    /\ pc = "commit" => slot[sector][next] = Written("NEW", call.key, call.val)
    /\ pc = "retire" => /\ slot[sector][LastWritten] = Written("VALID", call.key, call.val)
                        /\ \A k \in Keys : idx[k] # LastWritten

\* swap_sectors writes one record for each entry.
SwapInv ==
    /\ pc = "swapCopy" => /\ dst_i + Cardinality(todo) = Count
                          /\ \A k \in Entries \ todo : GoodIn(Dst, k)
    /\ pc = "switch" /\ call.op = "set" => /\ dst_i = Count /\ FilledTo(Dst, dst_i)
                                           /\ \A k \in Entries : GoodIn(Dst, k)

\* The entries of a full volume are fewer than its records.
RoomInv ==
    pc = "write" \/ (pc = "eraseSource" /\ call.op = "set")
        => next < N \/ next <= Count

RecordsInv ==
    /\ IndexInv /\ SlotInv /\ HeadersInv /\ CallInv
    /\ LoadedInv /\ SetInv /\ SwapInv /\ RoomInv

-----------------------------------------------------------------------------
(***************************************************************************)
(* What the operations do to the slots.                                    *)
(***************************************************************************)
\* What a step may not do to a slot that is used.
KeepsRecord(old, new) ==
    old.flags # "EMPTY" /\ new.flags \in {"NEW", "VALID"} => [new EXCEPT !.flags = old.flags] = old

KeepsRecords == \A s \in Sectors, i \in Idx : KeepsRecord(slot[s][i], slot'[s][i])

LEMMA SameRecord ==
    ASSUME NEW r \in Rec
    PROVE  KeepsRecord(r, r)
BY DEF KeepsRecord, Rec

LEMMA ErasedSlots ==
    ASSUME FlashTypes, NEW s \in Sectors, Erased(s)
    PROVE  /\ \A u \in Sectors : u # s => slot'[u] = slot[u] /\ hdr'[u] = hdr[u]
           /\ hdr'[s].flags = "EMPTY" /\ \A i \in Idx : slot'[s][i].flags = "EMPTY"
           /\ KeepsRecords
<1>1. /\ \A u \in Sectors : u # s => slot'[u] = slot[u] /\ hdr'[u] = hdr[u]
      /\ hdr'[s].flags = "EMPTY" /\ \A i \in Idx : slot'[s][i].flags = "EMPTY"
  BY DEF Erased, FlashTypes, ErasedHdr, Blank, Spoiled
<1>2. ASSUME NEW u \in Sectors, NEW i \in Idx PROVE KeepsRecord(slot[u][i], slot'[u][i])
  <2>1. CASE u = s
    BY <1>1, <2>1 DEF KeepsRecord
  <2>2. CASE u # s
    BY <1>1, <2>2, SameRecord DEF FlashTypes
  <2>3. QED
    BY <2>1, <2>2
<1>3. QED
  BY <1>1, <1>2 DEF KeepsRecords

LEMMA SetSlotIs ==
    ASSUME FlashTypes, NEW s \in Sectors, NEW i \in Idx, NEW r, SetSlot(s, i, r)
    PROVE  /\ hdr' = hdr /\ slot'[s][i] = r
           /\ \A u \in Sectors, j \in Idx : u # s \/ j # i => slot'[u][j] = slot[u][j]
           /\ KeepsRecord(slot[s][i], r) => KeepsRecords
<1>1. /\ hdr' = hdr /\ slot'[s][i] = r
      /\ \A u \in Sectors, j \in Idx : u # s \/ j # i => slot'[u][j] = slot[u][j]
  BY DEF SetSlot, FlashTypes
<1>2. ASSUME KeepsRecord(slot[s][i], r), NEW u \in Sectors, NEW j \in Idx
      PROVE  KeepsRecord(slot[u][j], slot'[u][j])
  <2>1. CASE u = s /\ j = i
    BY <1>1, <1>2, <2>1
  <2>2. CASE u # s \/ j # i
    BY <1>1, <2>2, SameRecord DEF FlashTypes
  <2>3. QED
    BY <2>1, <2>2
<1>3. QED
  BY <1>1, <1>2 DEF KeepsRecords

LEMMA MarkBadSlots ==
    ASSUME FlashTypes, NEW s \in Sectors, NEW m \in SUBSET Bad(slot[s]), MarkBad(s, m)
    PROVE  /\ hdr' = hdr
           /\ \A u \in Sectors, i \in Idx :
                /\ Unused(u, i)' <=> Unused(u, i)
                /\ slot[u][i].flags = "VALID" /\ slot[u][i].sum => slot'[u][i] = slot[u][i]
           /\ KeepsRecords
<1>1. hdr' = hdr /\ slot' = [slot EXCEPT ![s] =
                  [i \in Idx |-> IF i \in m THEN Spoiled("INVALID") ELSE slot[s][i]]]
  BY DEF MarkBad
<1>2. \A i \in m : slot[s][i].flags = "VALID" /\ ~slot[s][i].sum
  BY DEF Bad
<1>3. ASSUME NEW u \in Sectors, NEW i \in Idx
      PROVE  \/ slot'[u][i] = slot[u][i]
             \/ /\ slot'[u][i] = Spoiled("INVALID")
                /\ slot[u][i].flags = "VALID" /\ ~slot[u][i].sum
  <2>1. CASE u = s
    <3>1. slot'[u][i] = IF i \in m THEN Spoiled("INVALID") ELSE slot[s][i]
      BY <1>1, <2>1 DEF FlashTypes
    <3>2. QED
      BY <1>2, <2>1, <3>1
  <2>2. CASE u # s
    BY <1>1, <2>2 DEF FlashTypes
  <2>3. QED
    BY <2>1, <2>2
<1>4. ASSUME NEW u \in Sectors, NEW i \in Idx PROVE KeepsRecord(slot[u][i], slot'[u][i])
  BY <1>3, SameRecord DEF KeepsRecord, Spoiled, FlashTypes
<1>5. ASSUME NEW u \in Sectors, NEW i \in Idx PROVE Unused(u, i)' <=> Unused(u, i)
  <2>1. slot'[u][i].flags = "EMPTY" <=> slot[u][i].flags = "EMPTY"
    BY <1>3 DEF Spoiled
  <2>2. QED
    BY <2>1 DEF Unused
<1>6. ASSUME NEW u \in Sectors, NEW i \in Idx, slot[u][i].flags = "VALID" /\ slot[u][i].sum
      PROVE  slot'[u][i] = slot[u][i]
  BY <1>3, <1>6
<1>7. QED
  BY <1>1, <1>4, <1>5, <1>6 DEF KeepsRecords

\* The records that construct_lookup_table reads are all that are used.
LEMMA ScannedIs ==
    ASSUME FlashTypes, SlotInv, NEW s \in Sectors
    PROVE  /\ Cardinality(Scanned(slot[s])) \in 0 .. N
           /\ FilledTo(s, Cardinality(Scanned(slot[s])))
           /\ \A i \in Idx : i \in Scanned(slot[s]) <=> ~Unused(s, i)
<1> DEFINE S == Scanned(slot[s])
           E == {i \in Idx : Unused(s, i)}
<1>1. ASSUME NEW i \in Idx PROVE i \in S <=> \A j \in 0 .. i : ~Unused(s, j)
  BY DEF Scanned, Unused
<1>2. ASSUME NEW i \in Idx, ~Unused(s, i), NEW j \in 0 .. i PROVE ~Unused(s, j)
  <2>1. j \in Idx /\ j <= i
    BY <1>2, NAssumption DEF Idx
  <2>2. QED
    BY <1>2, <2>1 DEF SlotInv
<1>3. \A i \in Idx : i \in S <=> ~Unused(s, i)
  <2>1. \A i \in Idx : i \in 0 .. i
    BY NAssumption DEF Idx
  <2>2. QED
    BY <1>1, <1>2, <2>1
<1>4. S \subseteq Idx
  BY DEF Scanned
<1>5. CASE E = {}
  <2>1. S = Idx
    BY <1>3, <1>4, <1>5
  <2>2. Cardinality(S) = N
    BY <2>1, IdxFinite
  <2>3. QED
    BY <1>3, <1>5, <2>1, <2>2, NAssumption DEF FilledTo, Idx
<1>6. CASE E # {}
  <2> DEFINE m == Min(E)
  <2>1. E \in SUBSET Nat
    BY NAssumption DEF Idx
  <2>2. m \in E /\ \A j \in E : m <= j
    BY <1>6, <2>1, MinOfNat
  <2> HIDE DEF m
  <2>3. m \in Idx /\ Unused(s, m)
    BY <2>2
  <2>4. ASSUME NEW i \in Idx PROVE Unused(s, i) <=> i >= m
    <3>1. Unused(s, i) => m <= i
      BY <2>2
    <3>2. m <= i => Unused(s, i)
      BY <2>3 DEF SlotInv
    <3>3. m <= i <=> i >= m
      BY <2>3, NAssumption DEF Idx
    <3>4. QED
      BY <3>1, <3>2, <3>3
  <2>5. S = 0 .. m-1
    <3>1. ASSUME NEW i \in S PROVE i \in 0 .. m-1
      <4>1. i \in Idx /\ ~(i >= m)
        BY <1>3, <1>4, <2>4
      <4>2. QED
        BY <2>3, <4>1, NAssumption DEF Idx
    <3>2. ASSUME NEW i \in 0 .. m-1 PROVE i \in S
      <4>1. i \in Idx /\ ~(i >= m)
        BY <2>3, NAssumption DEF Idx
      <4>2. QED
        BY <1>3, <2>4, <4>1
    <3>3. QED
      BY <3>1, <3>2
  <2>6. Cardinality(S) = m
    BY <2>3, <2>5, FS_Interval, NAssumption DEF Idx
  <2>7. QED
    BY <1>3, <2>3, <2>4, <2>6, NAssumption DEF FilledTo, Idx
<1>7. QED
  BY <1>5, <1>6

LEMMA FilledOnce ==
    ASSUME NEW s, NEW n \in 0 .. N, NEW m \in 0 .. N, FilledTo(s, n), FilledTo(s, m)
    PROVE  n = m
<1>1. ASSUME n < m PROVE FALSE
  <2>1. n \in Idx
    BY <1>1, NAssumption DEF Idx
  <2>2. QED
    BY <1>1, <2>1 DEF FilledTo
<1>2. ASSUME m < n PROVE FALSE
  <2>1. m \in Idx
    BY <1>2, NAssumption DEF Idx
  <2>2. QED
    BY <1>2, <2>1 DEF FilledTo
<1>3. QED
  BY <1>1, <1>2, NAssumption

\* The entry of a key leads to a good record of it, and there is one if there is
\* such a record.
LEMMA LookupIsGood ==
    ASSUME FlashTypes, SlotInv, NEW s \in Sectors, NEW k \in Keys
    PROVE  LET r == slot[s][Lookup(slot[s], k)] IN
           /\ Lookup(slot[s], k) # NoIdx =>
                /\ Lookup(slot[s], k) \in Idx
                /\ r.flags = "VALID" /\ r.sum /\ r.key = k
           /\ \A i \in Idx : slot[s][i].flags = "VALID" /\ slot[s][i].sum /\ slot[s][i].key = k
                => Lookup(slot[s], k) # NoIdx
<1> DEFINE I == LiveOf(slot[s], k)
<1>1. ASSUME NEW i \in Idx
      PROVE  i \in I <=> slot[s][i].flags = "VALID" /\ slot[s][i].sum /\ slot[s][i].key = k
  BY ScannedIs DEF LiveOf, Live, Unused
<1>2. I \in SUBSET Idx
  BY DEF LiveOf, Live, Scanned
<1>3. CASE I = {}
  BY <1>1, <1>3 DEF Lookup
<1>4. CASE I # {}
  <2>1. Lookup(slot[s], k) = Max(I) /\ Max(I) \in I
    BY <1>2, <1>4, MaxOfIdx DEF Lookup
  <2>2. Max(I) # NoIdx
    BY <1>2, <2>1, NAssumption DEF Idx, NoIdx
  <2>3. QED
    BY <1>1, <1>2, <2>1, <2>2
<1>5. QED
  BY <1>3, <1>4

\* construct_lookup_table makes RAM describe its sector.
LEMMA ConstructIs ==
    ASSUME FlashTypes, SlotInv, NEW s \in Sectors, Construct(s)
    PROVE  /\ sector' = s /\ hdr' = hdr /\ KeepsRecords
           /\ \A u \in Sectors, i \in Idx : Unused(u, i)' <=> Unused(u, i)
           /\ next' \in 0 .. N /\ FilledTo(s, next') /\ FilledTo(sector, next)'
           /\ \A k \in Keys : idx'[k] # NoIdx => Good(k)'
           /\ \A k \in Keys, i \in Idx :
                slot[s][i].flags = "VALID" /\ slot[s][i].sum /\ slot[s][i].key = k
                    => idx'[k] # NoIdx
<1>1. PICK m \in SUBSET Bad(slot[s]) : MarkBad(s, m)
  BY DEF Construct
<1>2. /\ hdr' = hdr /\ KeepsRecords
      /\ \A u \in Sectors, i \in Idx : Unused(u, i)' <=> Unused(u, i)
      /\ \A u \in Sectors, i \in Idx :
            slot[u][i].flags = "VALID" /\ slot[u][i].sum => slot'[u][i] = slot[u][i]
  BY <1>1, MarkBadSlots
<1>3. /\ sector' = s /\ next' = Cardinality(Scanned(slot[s]))
      /\ idx' = [k \in Keys |-> Lookup(slot[s], k)]
      /\ local' = [k \in Keys |-> Cache(Contents(slot[s])[k])]
  BY DEF Construct
<1>4. next' \in 0 .. N /\ FilledTo(s, next')
  BY <1>3, ScannedIs
<1>5. FilledTo(sector, next)'
  BY <1>2, <1>3, <1>4 DEF FilledTo, Unused
<1>6. ASSUME NEW k \in Keys, idx'[k] # NoIdx PROVE Good(k)'
  <2> DEFINE i == Lookup(slot[s], k)
  <2>1. idx'[k] = i
    BY <1>3
  <2>2. i \in Idx /\ slot[s][i].flags = "VALID" /\ slot[s][i].sum /\ slot[s][i].key = k
    BY <1>6, <2>1, LookupIsGood
  <2>3. slot'[s][i] = slot[s][i]
    BY <1>2, <2>2
  <2>4. local'[k] = Cache(slot[s][i].val)
    BY <1>3, <1>6, <2>1 DEF Contents, ValueAt
  <2>5. QED
    BY <1>3, <2>1, <2>2, <2>3, <2>4 DEF Good, GoodIn, Cache
<1>7. QED
  BY <1>2, <1>3, <1>4, <1>5, <1>6, LookupIsGood

-----------------------------------------------------------------------------
(***************************************************************************)
(* The writes and erases that keep SlotInv.                                *)
(***************************************************************************)
LEMMA FlashKept ==
    ASSUME FlashTypes, SlotInv, UNCHANGED flash
    PROVE  SlotInv' /\ KeepsRecords
<1>1. SlotInv'
  BY DEF SlotInv, Unused, flash
<1>2. KeepsRecords
  BY SameRecord DEF KeepsRecords, FlashTypes, flash
<1>3. QED
  BY <1>1, <1>2

LEMMA EraseKeeps ==
    ASSUME FlashTypes, SlotInv, NEW s \in Sectors, Erased(s) \/ UNCHANGED flash
    PROVE  /\ SlotInv' /\ KeepsRecords
           /\ \A u \in Sectors : u # s => slot'[u] = slot[u] /\ hdr'[u] = hdr[u]
<1>1. CASE Erased(s)
  <2>1. ASSUME NEW u \in Sectors
        PROVE  /\ \A i \in Idx, j \in Idx : i <= j /\ Unused(u, i)' => Unused(u, j)'
               /\ hdr'[u].flags \in {"EMPTY", "GARBAGE"} => \A i \in Idx : Unused(u, i)'
    BY <1>1, ErasedSlots DEF SlotInv, Unused
  <2>2. SlotInv'
    BY <2>1 DEF SlotInv
  <2>3. QED
    BY <1>1, <2>2, ErasedSlots
<1>2. CASE UNCHANGED flash
  BY <1>2, FlashKept DEF flash
<1>3. QED
  BY <1>1, <1>2

\* A header that is written is never taken for an erased one, unless it was.
LEMMA TornHdrsUsed ==
    ASSUME NEW old \in Hdr, NEW f \in {"INIT", "VALID"},
           NEW h \in TornHdrs(old, f) \cup {ProgramHdr(old, f)}
    PROVE  h.flags \in {"EMPTY", "GARBAGE"} => old.flags \in {"EMPTY", "GARBAGE"}
BY DEF TornHdrs, ProgramHdr, Hdr, HdrFlags

LEMMA HeaderKeeps ==
    ASSUME FlashTypes, SlotInv, NEW s \in Sectors, NEW f \in {"INIT", "VALID"},
           NEW h \in TornHdrs(hdr[s], f) \cup {ProgramHdr(hdr[s], f)},
           hdr' = [hdr EXCEPT ![s] = h], UNCHANGED slot
    PROVE  SlotInv' /\ KeepsRecords
<1>1. ASSUME NEW u \in Sectors, hdr'[u].flags \in {"EMPTY", "GARBAGE"}
      PROVE  hdr[u].flags \in {"EMPTY", "GARBAGE"}
  BY <1>1, TornHdrsUsed DEF FlashTypes
<1>2. SlotInv'
  BY <1>1 DEF SlotInv, Unused
<1>3. KeepsRecords
  BY SameRecord DEF KeepsRecords, FlashTypes
<1>4. QED
  BY <1>2, <1>3

LEMMA MarkBadKeeps ==
    ASSUME FlashTypes, SlotInv, NEW s \in Sectors, NEW m \in SUBSET Bad(slot[s]), MarkBad(s, m)
    PROVE  SlotInv' /\ KeepsRecords
<1>1. /\ hdr' = hdr /\ KeepsRecords
      /\ \A u \in Sectors, i \in Idx : Unused(u, i)' <=> Unused(u, i)
  BY MarkBadSlots
<1>2. QED
  BY <1>1 DEF SlotInv

LEMMA SetSlotKeeps ==
    ASSUME FlashTypes, SlotInv, NEW s \in Sectors, NEW i \in Idx, NEW r \in Rec,
           SetSlot(s, i, r), hdr[s].flags \in {"INIT", "VALID"}, r.flags # "EMPTY",
           FilledTo(s, i) \/ ~Unused(s, i), KeepsRecord(slot[s][i], r)
    PROVE  /\ SlotInv' /\ KeepsRecords
           /\ \A j \in Idx : Unused(s, j)' <=> Unused(s, j) /\ j # i
           /\ FilledTo(s, i) => \A j \in Idx : Unused(s, j)' <=> j >= i + 1
<1>1. /\ hdr' = hdr /\ slot'[s][i] = r /\ KeepsRecords
      /\ \A u \in Sectors, j \in Idx : u # s \/ j # i => slot'[u][j] = slot[u][j]
  BY SetSlotIs
<1>2. \A u \in Sectors, j \in Idx : Unused(u, j)' <=> Unused(u, j) /\ (u # s \/ j # i)
  BY <1>1 DEF Unused
<1>3. ASSUME NEW u \in Sectors, NEW j \in Idx, NEW l \in Idx, j <= l, Unused(u, j)'
      PROVE  Unused(u, l)'
  <2>1. Unused(u, j) /\ Unused(u, l) /\ (u # s \/ j # i)
    BY <1>2, <1>3 DEF SlotInv
  <2>2. CASE u = s /\ l = i
    <3>1. FilledTo(s, i)
      BY <2>1, <2>2
    <3>2. j >= i
      BY <2>1, <2>2, <3>1 DEF FilledTo
    <3>3. QED
      BY <1>3, <2>1, <2>2, <3>2, NAssumption DEF Idx
  <2>3. CASE u # s \/ l # i
    BY <1>2, <2>1, <2>3
  <2>4. QED
    BY <2>2, <2>3
<1>4. ASSUME NEW u \in Sectors, hdr'[u].flags \in {"EMPTY", "GARBAGE"}, NEW j \in Idx
      PROVE  Unused(u, j)'
  <2>1. u # s /\ Unused(u, j)
    BY <1>1, <1>4 DEF SlotInv
  <2>2. QED
    BY <1>2, <2>1
<1>5. SlotInv'
  BY <1>3, <1>4 DEF SlotInv
<1>6. ASSUME FilledTo(s, i), NEW j \in Idx PROVE Unused(s, j)' <=> j >= i + 1
  <2>1. j >= i /\ j # i <=> j >= i + 1
    BY NAssumption DEF Idx
  <2>2. QED
    BY <1>2, <1>6, <2>1 DEF FilledTo
<1>7. QED
  BY <1>1, <1>2, <1>5, <1>6

\* A record that is written to an unused slot is there afterwards.
LEMMA ProgramUnused ==
    ASSUME NEW old \in Rec, NEW new \in Rec, old.flags = "EMPTY"
    PROVE  Program(old, new) = new /\ KeepsRecord(old, new)
BY DEF Program, KeepsRecord

-----------------------------------------------------------------------------
(***************************************************************************)
(* The steps.                                                              *)
(***************************************************************************)
\* What a step must do.
RecordsKept ==
    /\ SlotInv' /\ HeadersInv' /\ CallInv' /\ KeepsRecords
    /\ LoadedInv' /\ SetInv' /\ SwapInv' /\ RoomInv'

LEMMA PowerOffKeeps ==
    ASSUME SlotInv', KeepsRecords, PowerOff
    PROVE  RecordsKept
BY DEF PowerOff, RecordsKept, HeadersInv, CallInv, EarlyPCs, LoadPCs, LoadedInv, Loaded, LoadedPCs,
       SetInv, SwapInv, RoomInv

\* A step of a load or a reset that does not yet use the records.
LEMMA EarlyKeeps ==
    ASSUME SlotInv', KeepsRecords,
           call'.op \in {"load", "reset"} \/ (call'.op = "wipe" /\ pc' \in {"reset1", "reset2"}),
           pc' \in (EarlyPCs \ {"off"}) \cup {"dropOther", "build", "moveErase"},
           pc' \notin EarlyPCs => hdr'[sector'].flags \in {"INIT", "VALID"}
    PROVE  RecordsKept
<1>1. ~Loaded'
  BY DEF Loaded, LoadedPCs, EarlyPCs
<1>2. HeadersInv' /\ CallInv'
  BY DEF HeadersInv, CallInv, EarlyPCs, LoadPCs, LoadOps
<1>3. LoadedInv' /\ SetInv' /\ SwapInv' /\ RoomInv'
  BY <1>1 DEF LoadedInv, SetInv, SwapInv, RoomInv, EarlyPCs
<1>4. QED
  BY <1>2, <1>3 DEF RecordsKept

LEMMA LoadStepKeeps ==
    ASSUME RecordsInv, WritesWork, LoadStep
    PROVE  RecordsKept
<1>0. /\ FlashTypes /\ SlotInv /\ HeadersInv /\ sector \in Sectors /\ Dst \in Sectors
      /\ Dst # sector
      /\ (pc \in LoadPCs \ {"reset1", "reset2"} => call.op \in {"load", "reset"})
      /\ (pc \in {"reset1", "reset2"} => call.op \in {"load", "reset", "wipe"})
  BY DEF RecordsInv, IndexInv, TypeOK, FlashTypes, Sectors, Dst, Other, HeadersInv, CallInv, LoadOps
<1>1. CASE ResetErase1
  <2>1. SlotInv' /\ KeepsRecords
    BY <1>0, <1>1, EraseKeeps DEF ResetErase1, TryErase, Sectors
  <2>2. QED
    BY <1>0, <1>1, <2>1, EarlyKeeps DEF ResetErase1, Goto, EarlyPCs, LoadPCs
<1>2. CASE ResetErase2
  <2>1. SlotInv' /\ KeepsRecords
    BY <1>0, <1>2, EraseKeeps DEF ResetErase2, TryErase, Sectors
  <2>2. QED
    BY <1>0, <1>2, <2>1, EarlyKeeps, PowerOffKeeps DEF ResetErase2, Goto, EarlyPCs, LoadPCs
<1>3. CASE Scrub1
  <2>1. SlotInv' /\ KeepsRecords
    BY <1>0, <1>3, EraseKeeps DEF Scrub1, Scrub, TryErase, Sectors
  <2>2. QED
    BY <1>0, <1>3, <2>1, EarlyKeeps DEF Scrub1, Scrub, Goto, EarlyPCs, LoadPCs
<1>4. CASE Scrub2
  <2>1. SlotInv' /\ KeepsRecords
    BY <1>0, <1>4, EraseKeeps DEF Scrub2, Scrub, TryErase, Sectors
  <2>2. QED
    BY <1>0, <1>4, <2>1, EarlyKeeps DEF Scrub2, Scrub, Goto, EarlyPCs, LoadPCs
<1>5. CASE PlanStep
  <2>1. SlotInv' /\ KeepsRecords
    BY <1>0, <1>5, FlashKept DEF PlanStep
  <2>2. Plan(hdr).act # "format" => hdr[Plan(hdr).use].flags \in {"INIT", "VALID"}
    BY DEF Plan, Seen
  <2>3. QED
    BY <1>0, <1>5, <2>1, <2>2, EarlyKeeps DEF PlanStep, Goto, EarlyPCs, LoadPCs, flash
<1>6. CASE FormatErase
  <2>1. SlotInv' /\ KeepsRecords
    BY <1>0, <1>6, EraseKeeps DEF FormatErase, TryErase
  <2>2. QED
    BY <1>0, <1>6, <2>1, EarlyKeeps DEF FormatErase, Goto, EarlyPCs, LoadPCs
<1>7. CASE FormatValid
  <2>1. hdr' = [hdr EXCEPT ![sector] = ProgramHdr(hdr[sector], "VALID")] /\ UNCHANGED slot
    BY <1>7 DEF FormatValid, TrySetHdr, WritesWork, May
  <2>2. SlotInv' /\ KeepsRecords
    BY <1>0, <2>1, HeaderKeeps
  <2>3. hdr'[sector].flags = "VALID"
    BY <1>0, <2>1 DEF FlashTypes, ProgramHdr
  <2>4. QED
    BY <1>0, <1>7, <2>2, <2>3, EarlyKeeps DEF FormatValid, Goto, EarlyPCs, LoadPCs, ram
<1>8. CASE DropOther
  <2>1. /\ SlotInv' /\ KeepsRecords
        /\ hdr'[sector] = hdr[sector]
    BY <1>0, <1>8, EraseKeeps DEF DropOther, TryErase
  <2>2. hdr[sector].flags \in {"INIT", "VALID"}
    BY <1>0, <1>8 DEF DropOther, HeadersInv, EarlyPCs
  <2>3. QED
    BY <1>0, <1>8, <2>1, <2>2, EarlyKeeps DEF DropOther, Goto, EarlyPCs, LoadPCs, ram
<1>9. CASE Build
  <2>1. /\ sector' = sector /\ hdr' = hdr /\ KeepsRecords
        /\ \A u \in Sectors, i \in Idx : Unused(u, i)' <=> Unused(u, i)
        /\ FilledTo(sector, next)'
        /\ \A k \in Keys : idx'[k] # NoIdx => Good(k)'
    BY <1>0, <1>9, ConstructIs DEF Build
  <2>2. SlotInv'
    BY <1>0, <2>1 DEF SlotInv
  <2>3. hdr[sector].flags \in {"INIT", "VALID"}
    BY <1>0, <1>9 DEF Build, HeadersInv, EarlyPCs
  <2>4. pc' = "idle"
    BY <1>9 DEF Build, Return
  <2>5. HeadersInv' /\ CallInv' /\ SetInv' /\ SwapInv' /\ RoomInv'
    BY <2>1, <2>3, <2>4 DEF HeadersInv, CallInv, SetInv, SwapInv, RoomInv, LoadPCs
  <2>6. LoadedInv'
    BY <2>1, <2>4 DEF LoadedInv
  <2>7. QED
    BY <2>1, <2>2, <2>5, <2>6 DEF RecordsKept
<1>10. QED
  BY <1>1, <1>2, <1>3, <1>4, <1>5, <1>6, <1>7, <1>8, <1>9 DEF LoadStep

\* The sector in use and its table are left alone.
LEMMA TableKept ==
    ASSUME UNCHANGED ram, slot'[sector] = slot[sector]
    PROVE  /\ FilledTo(sector, next)' <=> FilledTo(sector, next)
           /\ \A k \in Keys : Good(k)' <=> Good(k)
           /\ idx' = idx /\ next' = next /\ sector' = sector /\ Dst' = Dst
           /\ Entries' = Entries /\ Count' = Count
BY DEF ram, FilledTo, Unused, Good, GoodIn, Entries, Count, Dst

\* What move_sector may do to the other sector, and where it goes.
LEMMA MoveKeeps ==
    ASSUME RecordsInv, pc \in {"moveErase", "moveInit", "moveCopy"},
           SlotInv', KeepsRecords, UNCHANGED ram,
           slot'[sector] = slot[sector], hdr'[sector] = hdr[sector],
           \/ pc' \in {"moveInit", "moveCopy", "switch"} /\ call' = call
           \/ pc' = "build" /\ call' = call /\ call.op \in {"load", "reset"}
           \/ pc' = "idle" /\ call.op = "repair",
           pc' = "moveInit" => hdr'[Dst].flags = "EMPTY",
           pc' = "moveCopy" =>
              hdr'[Dst].flags = "INIT" /\ \A i \in Idx : Unused(Dst, i)' <=> i >= dst_i',
           pc' = "switch" => hdr'[Dst].flags = "VALID"
    PROVE  RecordsKept
<1>0. HeadersInv /\ CallInv /\ LoadedInv
  BY DEF RecordsInv
<1>1. /\ FilledTo(sector, next)' <=> FilledTo(sector, next)
      /\ \A k \in Keys : Good(k)' <=> Good(k)
      /\ idx' = idx /\ sector' = sector /\ Dst' = Dst
  BY TableKept
<1>2. pc' = "moveCopy" => FilledTo(Dst, dst_i)'
  BY <1>1 DEF FilledTo
<1>3. HeadersInv'
  BY <1>0, <1>1, <1>2 DEF HeadersInv, EarlyPCs
<1>4. CallInv'
  BY <1>0 DEF CallInv, LoadPCs
<1>5. LoadedInv'
  <2>1. SUFFICES ASSUME Loaded' PROVE LoadedInv'
    BY DEF LoadedInv
  <2>2. Loaded /\ Exempt = {} /\ Exempt' = {} /\ pc # "commit" /\ pc' # "commit"
    BY <1>0, <2>1 DEF Loaded, LoadedPCs, Exempt, CallInv
  <2>3. QED
    BY <1>0, <1>1, <2>2 DEF LoadedInv
<1>6. SetInv' /\ SwapInv' /\ RoomInv'
  BY <1>0 DEF SetInv, SwapInv, RoomInv, CallInv
<1>7. QED
  BY <1>3, <1>4, <1>5, <1>6 DEF RecordsKept

LEMMA MoveStepKeeps ==
    ASSUME RecordsInv, WritesWork, MoveStep
    PROVE  RecordsKept
<1>0. /\ FlashTypes /\ SlotInv /\ HeadersInv /\ CallInv /\ sector \in Sectors /\ Dst \in Sectors
      /\ Dst # sector /\ IndexInv
  BY DEF RecordsInv, IndexInv, TypeOK, FlashTypes, Sectors, Dst, Other
<1>a. ASSUME MoveFailed, pc \in {"moveErase", "moveInit", "moveCopy"}
      PROVE  \/ pc' = "build" /\ call' = call /\ call.op \in {"load", "reset"}
             \/ pc' = "idle" /\ call.op = "repair"
  BY <1>0, <1>a DEF MoveFailed, Loading, Goto, Return, CallInv
<1>1. CASE MoveErase
  <2>1. pc = "moveErase" /\ UNCHANGED ram
    BY <1>1 DEF MoveErase
  <2>2. Erased(Dst) \/ UNCHANGED flash
    BY <1>1 DEF MoveErase
  <2>3. SlotInv' /\ KeepsRecords /\ slot'[sector] = slot[sector] /\ hdr'[sector] = hdr[sector]
    BY <1>0, <2>2, EraseKeeps
  <2>4. \/ Goto("moveInit") /\ hdr'[Dst].flags = "EMPTY"
        \/ MoveFailed
    <3>1. Erased(Dst) => hdr'[Dst].flags = "EMPTY"
      BY <1>0, ErasedSlots
    <3>2. ~NeedsErase(Dst) /\ UNCHANGED flash => hdr'[Dst].flags = "EMPTY"
      BY DEF NeedsErase, flash
    <3>3. QED
      BY <1>1, <3>1, <3>2 DEF MoveErase
  <2>5. QED
    BY <1>a, <2>1, <2>3, <2>4, MoveKeeps DEF Goto
<1>2. CASE MoveInit
  <2>1. /\ pc = "moveInit" /\ UNCHANGED ram /\ UNCHANGED slot
        /\ pc' = "moveCopy" /\ dst_i' = 0 /\ call' = call
        /\ hdr' = [hdr EXCEPT ![Dst] = ProgramHdr(hdr[Dst], "INIT")]
    BY <1>2 DEF MoveInit, WritesWork, May
  <2>2. SlotInv' /\ KeepsRecords
    BY <1>0, <2>1, HeaderKeeps
  <2>3. hdr[Dst].flags = "EMPTY"
    BY <1>0, <2>1 DEF HeadersInv
  <2>4. hdr'[Dst].flags = "INIT" /\ hdr'[sector] = hdr[sector]
    BY <1>0, <2>1, <2>3 DEF FlashTypes, ProgramHdr
  <2>5. \A i \in Idx : Unused(Dst, i)' <=> i >= dst_i'
    <3>1. \A i \in Idx : Unused(Dst, i)
      BY <1>0, <2>3 DEF SlotInv
    <3>2. \A i \in Idx : Unused(Dst, i)'
      BY <2>1, <3>1 DEF Unused, ram, Dst
    <3>3. QED
      BY <2>1, <3>2, NAssumption DEF Idx
  <2>6. QED
    BY <2>1, <2>2, <2>4, <2>5, MoveKeeps
<1>3. CASE MoveCopy
  <2> DEFINE i == Min(MoveLeft)
             r == slot[sector][i]
  <2>1. /\ pc = "moveCopy" /\ pc' = pc /\ call' = call /\ UNCHANGED ram /\ MoveLeft # {}
        /\ SetSlot(Dst, dst_i, Program(slot[Dst][dst_i], r)) /\ dst_i' = dst_i + 1
    BY <1>3 DEF MoveCopy, WritesWork, May
  <2>2. i \in Idx /\ r \in Rec /\ r.flags = "VALID"
    <3>1. MoveLeft \in SUBSET Nat
      BY NAssumption DEF MoveLeft, Live, Scanned, Idx
    <3>2. i \in MoveLeft
      BY <2>1, <3>1, MinOfNat
    <3>3. QED
      BY <1>0, <3>2 DEF MoveLeft, Live, Scanned, FlashTypes
  <2>3. dst_i \in Idx
    BY <1>0, <2>1, IndexesInSector DEF IndexChecksHold
  <2>4. /\ hdr[Dst].flags = "INIT" /\ FilledTo(Dst, dst_i)
    BY <1>0, <2>1 DEF HeadersInv
  <2>5. slot[Dst][dst_i].flags = "EMPTY" /\ slot[Dst][dst_i] \in Rec
    BY <1>0, <2>3, <2>4, NAssumption DEF FilledTo, Unused, FlashTypes, Idx
  <2>6. SetSlot(Dst, dst_i, r) /\ KeepsRecord(slot[Dst][dst_i], r)
    BY <2>1, <2>2, <2>5, ProgramUnused
  <2> HIDE DEF i, r
  <2>7. /\ SlotInv' /\ KeepsRecords
        /\ \A j \in Idx : slot'[Dst][j].flags = "EMPTY" <=> j >= dst_i + 1
    BY <1>0, <2>2, <2>3, <2>4, <2>6, SetSlotKeeps DEF Unused
  <2>8. hdr' = hdr /\ slot'[sector] = slot[sector]
    BY <1>0, <2>6 DEF SetSlot, FlashTypes
  <2>9. QED
    <3>1. \A j \in Idx : Unused(Dst, j)' <=> j >= dst_i'
      BY <2>1, <2>7 DEF Unused, ram, Dst
    <3>2. QED
      BY <2>1, <2>4, <2>7, <2>8, <3>1, MoveKeeps
<1>4. CASE MoveValid
  <2>1. /\ pc = "moveCopy" /\ UNCHANGED ram /\ UNCHANGED slot /\ pc' = "switch" /\ call' = call
        /\ hdr' = [hdr EXCEPT ![Dst] = ProgramHdr(hdr[Dst], "VALID")]
    BY <1>4 DEF MoveValid, WritesWork, May, Goto
  <2>2. SlotInv' /\ KeepsRecords
    BY <1>0, <2>1, HeaderKeeps
  <2>3. hdr'[Dst].flags = "VALID" /\ hdr'[sector] = hdr[sector]
    BY <1>0, <2>1 DEF FlashTypes, ProgramHdr
  <2>4. QED
    BY <2>1, <2>2, <2>3, MoveKeeps
<1>5. QED
  BY <1>1, <1>2, <1>3, <1>4 DEF MoveStep

LEMMA SwapEraseKeeps ==
    ASSUME RecordsInv, SwapErase
    PROVE  RecordsKept
<1>0. /\ FlashTypes /\ SlotInv /\ HeadersInv /\ CallInv /\ LoadedInv /\ sector \in Sectors
      /\ Dst \in Sectors /\ Dst # sector
  BY DEF RecordsInv, IndexInv, TypeOK, FlashTypes, Sectors, Dst, Other
<1>1. pc = "swapErase" /\ UNCHANGED ram /\ (Erased(Dst) \/ UNCHANGED flash)
  BY DEF SwapErase
<1>2. SlotInv' /\ KeepsRecords /\ slot'[sector] = slot[sector] /\ hdr'[sector] = hdr[sector]
  BY <1>0, <1>1, EraseKeeps
<1>3. \/ pc' = "swapInit" /\ call' = call /\ hdr'[Dst].flags = "EMPTY"
      \/ pc' = "idle"
  <2>1. Erased(Dst) => hdr'[Dst].flags = "EMPTY"
    BY <1>0, ErasedSlots
  <2>2. ~NeedsErase(Dst) /\ UNCHANGED flash => hdr'[Dst].flags = "EMPTY"
    BY DEF NeedsErase, flash
  <2>3. QED
    BY <2>1, <2>2 DEF SwapErase, Goto, Return
<1>4. /\ FilledTo(sector, next)' <=> FilledTo(sector, next)
      /\ \A k \in Keys : Good(k)' <=> Good(k)
      /\ idx' = idx /\ sector' = sector /\ Dst' = Dst
  BY <1>1, <1>2, TableKept
<1>5. HeadersInv' /\ CallInv'
  BY <1>0, <1>1, <1>2, <1>3, <1>4 DEF HeadersInv, CallInv, EarlyPCs, LoadPCs
<1>6. LoadedInv'
  BY <1>0, <1>1, <1>3, <1>4 DEF LoadedInv, Loaded, LoadedPCs, Exempt
<1>7. SetInv' /\ SwapInv' /\ RoomInv'
  BY <1>3 DEF SetInv, SwapInv, RoomInv
<1>8. QED
  BY <1>2, <1>5, <1>6, <1>7 DEF RecordsKept

LEMMA SwapInitKeeps ==
    ASSUME RecordsInv, WritesWork, SwapInit
    PROVE  RecordsKept
<1>0. /\ FlashTypes /\ SlotInv /\ HeadersInv /\ CallInv /\ LoadedInv /\ sector \in Sectors
      /\ Dst \in Sectors /\ Dst # sector /\ IndexInv
  BY DEF RecordsInv, IndexInv, TypeOK, FlashTypes, Sectors, Dst, Other
<1>1. /\ pc = "swapInit" /\ UNCHANGED ram /\ UNCHANGED slot
      /\ pc' = "swapCopy" /\ dst_i' = 0 /\ call' = call /\ todo' = Entries
      /\ hdr' = [hdr EXCEPT ![Dst] = ProgramHdr(hdr[Dst], "INIT")]
  BY DEF SwapInit, WritesWork, May, Entries
<1>2. SlotInv' /\ KeepsRecords
  BY <1>0, <1>1, HeaderKeeps
<1>3. hdr[Dst].flags = "EMPTY"
  BY <1>0, <1>1 DEF HeadersInv
<1>4. hdr'[Dst].flags = "INIT" /\ hdr'[sector] = hdr[sector]
  BY <1>0, <1>1, <1>3 DEF FlashTypes, ProgramHdr
<1>5. /\ FilledTo(sector, next)' <=> FilledTo(sector, next)
      /\ \A k \in Keys : Good(k)' <=> Good(k)
      /\ idx' = idx /\ sector' = sector /\ Dst' = Dst /\ Entries' = Entries /\ Count' = Count
  BY <1>1, TableKept
<1>6. FilledTo(Dst, dst_i)'
  <2>1. \A i \in Idx : Unused(Dst, i)
    BY <1>0, <1>3 DEF SlotInv
  <2>2. \A i \in Idx : Unused(Dst, i)'
    BY <1>1, <1>5, <2>1 DEF Unused
  <2>3. QED
    BY <1>1, <2>2, NAssumption DEF FilledTo, Idx
<1>7. HeadersInv' /\ CallInv'
  BY <1>0, <1>1, <1>4, <1>5, <1>6 DEF HeadersInv, CallInv, EarlyPCs, LoadPCs
<1>8. LoadedInv'
  BY <1>0, <1>1, <1>5 DEF LoadedInv, Loaded, LoadedPCs, Exempt
<1>9. SwapInv'
  <2>1. Cardinality(Entries) = Count /\ Count \in Nat
    BY KeysFinite DEF Entries, Count
  <2>2. QED
    BY <1>1, <1>5, <2>1 DEF SwapInv
<1>10. SetInv' /\ RoomInv'
  BY <1>1 DEF SetInv, RoomInv
<1>11. QED
  BY <1>2, <1>7, <1>8, <1>9, <1>10 DEF RecordsKept

LEMMA SwapCopyKeeps ==
    ASSUME RecordsInv, SwapCopy
    PROVE  RecordsKept
<1>0. /\ FlashTypes /\ SlotInv /\ HeadersInv /\ CallInv /\ LoadedInv /\ SwapInv
      /\ sector \in Sectors /\ Dst \in Sectors /\ Dst # sector /\ IndexInv
  BY DEF RecordsInv, IndexInv, TypeOK, FlashTypes, Sectors, Dst, Other
<1>1. /\ pc = "swapCopy" /\ pc' = pc /\ call' = call /\ dst_i' = dst_i + 1
      /\ sector' = sector /\ next' = next /\ local' = local /\ Dst' = Dst
  BY DEF SwapCopy, Dst
<1>2. PICK k \in todo :
         /\ SetSlot(Dst, dst_i, Program(slot[Dst][dst_i], slot[sector][idx[k]]))
         /\ idx' = [idx EXCEPT ![k] = dst_i]
         /\ todo' = todo \ {k}
  BY DEF SwapCopy
<1> DEFINE r == slot[sector][idx[k]]
<1>3. dst_i \in Idx /\ idx[k] \in Idx /\ k \in Keys
  BY <1>0, <1>1, <1>2, IndexesInSector DEF IndexChecksHold, IndexInv, TypeOK
<1>4. r \in Rec /\ r.flags = "VALID" /\ r.sum /\ r.key = k
  <2>1. k \notin Exempt /\ idx[k] # NoIdx /\ Loaded
    BY <1>1, <1>2, <1>3, NAssumption DEF Exempt, Loaded, LoadedPCs, Idx, NoIdx
  <2>2. Good(k)
    BY <1>0, <1>3, <2>1 DEF LoadedInv
  <2>3. QED
    BY <1>0, <1>3, <2>2 DEF Good, GoodIn, FlashTypes
<1>5. hdr[Dst].flags = "INIT" /\ FilledTo(Dst, dst_i)
  BY <1>0, <1>1 DEF HeadersInv
<1>6. slot[Dst][dst_i].flags = "EMPTY" /\ slot[Dst][dst_i] \in Rec
  BY <1>0, <1>3, <1>5, NAssumption DEF FilledTo, Unused, FlashTypes, Idx
<1>7. SetSlot(Dst, dst_i, r) /\ KeepsRecord(slot[Dst][dst_i], r)
  BY <1>2, <1>4, <1>6, ProgramUnused
<1> HIDE DEF r
<1>8. /\ SlotInv' /\ KeepsRecords
      /\ \A j \in Idx : slot'[Dst][j].flags = "EMPTY" <=> j >= dst_i + 1
  BY <1>0, <1>3, <1>4, <1>5, <1>7, SetSlotKeeps DEF Unused
<1>9. /\ hdr' = hdr /\ slot'[sector] = slot[sector] /\ slot'[Dst][dst_i] = r
      /\ \A j \in Idx : j # dst_i => slot'[Dst][j] = slot[Dst][j]
  BY <1>0, <1>3, <1>7, SetSlotIs DEF SetSlot, FlashTypes
<1>10. FilledTo(Dst, dst_i)'
  BY <1>1, <1>8 DEF FilledTo, Unused
<1>11. HeadersInv' /\ CallInv'
  BY <1>0, <1>1, <1>9, <1>10 DEF HeadersInv, CallInv, EarlyPCs, LoadPCs
<1>12. idx' \in [Keys -> Idx \cup {NoIdx}] /\ \A l \in Keys : l # k => idx'[l] = idx[l]
  BY <1>0, <1>2, <1>3 DEF IndexInv, TypeOK
<1>13. LoadedInv'
  <2>1. FilledTo(sector, next)'
    <3>1. FilledTo(sector, next)
      BY <1>0, <1>1 DEF LoadedInv, Loaded, LoadedPCs
    <3>2. QED
      BY <1>1, <1>9, <3>1 DEF FilledTo, Unused
  <2>2. ASSUME NEW l \in todo', idx'[l] # NoIdx PROVE Good(l)'
    <3>1. l \in todo /\ l # k /\ l \in Keys /\ idx'[l] = idx[l]
      BY <1>0, <1>2, <1>12, <2>2 DEF IndexInv, TypeOK
    <3>2. Good(l)
      BY <1>0, <1>1, <2>2, <3>1 DEF LoadedInv, Loaded, LoadedPCs, Exempt
    <3>3. QED
      BY <1>1, <1>9, <3>1, <3>2 DEF Good, GoodIn
  <2>3. QED
    BY <1>1, <2>1, <2>2 DEF LoadedInv, Exempt
<1>14. SwapInv'
  <2>1. Entries' = Entries /\ Count' = Count
    <3>1. dst_i # NoIdx /\ idx[k] # NoIdx
      BY <1>3, NAssumption DEF Idx, NoIdx
    <3>2. \A l \in Keys : idx'[l] # NoIdx <=> idx[l] # NoIdx
      BY <1>0, <1>2, <1>3, <1>12, <3>1 DEF IndexInv, TypeOK
    <3>3. QED
      BY <3>2 DEF Entries, Count
  <2>2. dst_i + Cardinality(todo) = Count
    BY <1>0, <1>1 DEF SwapInv
  <2>3. Cardinality(todo') = Cardinality(todo) - 1 /\ Cardinality(todo) \in Nat
    <3>1. IsFiniteSet(todo) /\ Cardinality(todo) \in Nat
      BY <1>0, KeysFinite DEF IndexInv, TypeOK
    <3>2. Cardinality(todo \ {k}) = Cardinality(todo) - 1
      BY <1>2, <3>1, FS_RemoveElement
    <3>3. QED
      BY <1>2, <3>1, <3>2
  <2>4. dst_i' + Cardinality(todo') = Count'
    BY <1>1, <1>3, <2>1, <2>2, <2>3, NAssumption DEF Idx
  <2>5. ASSUME NEW l \in Entries' \ todo' PROVE GoodIn(Dst, l)'
    <3>1. CASE l = k
      BY <1>0, <1>1, <1>2, <1>3, <1>4, <1>9, <3>1 DEF GoodIn, IndexInv, TypeOK
    <3>2. CASE l # k
      <4>1. l \in Entries \ todo /\ l \in Keys
        BY <1>2, <2>1, <2>5, <3>2 DEF Entries
      <4>2. GoodIn(Dst, l)
        BY <1>0, <1>1, <4>1 DEF SwapInv
      <4>3. idx[l] \in Idx /\ idx'[l] = idx[l]
        BY <1>0, <1>12, <3>2, <4>1 DEF Entries, IndexInv, TypeOK
      <4>4. idx[l] # dst_i
        BY <1>6, <4>2 DEF GoodIn
      <4>5. QED
        BY <1>1, <1>9, <4>2, <4>3, <4>4 DEF GoodIn
    <3>3. QED
      BY <3>1, <3>2
  <2>6. QED
    BY <1>1, <2>4, <2>5 DEF SwapInv
<1>15. SetInv' /\ RoomInv'
  BY <1>1 DEF SetInv, RoomInv
<1>16. QED
  BY <1>8, <1>11, <1>13, <1>14, <1>15 DEF RecordsKept

\* Every entry that is left to copy is good, so swap_sectors copies it.
LEMMA SwapNeverFallsBack ==
    ASSUME RecordsInv, WritesWork, SwapCopyFail
    PROVE  FALSE
<1>0. LoadedInv /\ IndexInv /\ pc = "swapCopy" /\ May("writeFail") = FALSE
  BY DEF RecordsInv, SwapCopyFail, WritesWork, May
<1>1. PICK k \in todo : slot[sector][idx[k]].flags # "VALID"
  BY <1>0 DEF SwapCopyFail
<1>2. k \in Keys /\ idx[k] # NoIdx /\ k \notin Exempt
  BY <1>0, <1>1 DEF IndexInv, TypeOK, CopyIndexInv, Entries, Exempt
<1>3. QED
  BY <1>0, <1>1, <1>2 DEF LoadedInv, Loaded, LoadedPCs, Good, GoodIn

LEMMA SwapValidKeeps ==
    ASSUME RecordsInv, WritesWork, SwapValid
    PROVE  RecordsKept
<1>0. /\ FlashTypes /\ SlotInv /\ HeadersInv /\ CallInv /\ SwapInv /\ sector \in Sectors
      /\ Dst \in Sectors /\ Dst # sector /\ IndexInv
  BY DEF RecordsInv, IndexInv, TypeOK, FlashTypes, Sectors, Dst, Other
<1>1. /\ pc = "swapCopy" /\ todo = {} /\ UNCHANGED ram /\ UNCHANGED slot
      /\ pc' = "switch" /\ call' = call /\ dst_i' = dst_i
      /\ hdr' = [hdr EXCEPT ![Dst] = ProgramHdr(hdr[Dst], "VALID")]
  BY DEF SwapValid, WritesWork, May, Goto
<1>2. SlotInv' /\ KeepsRecords
  BY <1>0, <1>1, HeaderKeeps
<1>3. hdr'[Dst].flags = "VALID" /\ hdr'[sector] = hdr[sector]
  BY <1>0, <1>1 DEF FlashTypes, ProgramHdr
<1>4. idx' = idx /\ sector' = sector /\ Dst' = Dst /\ Entries' = Entries /\ Count' = Count
  BY <1>1, TableKept
<1>5. HeadersInv' /\ CallInv'
  BY <1>0, <1>1, <1>3, <1>4 DEF HeadersInv, CallInv, EarlyPCs, LoadPCs
<1>6. SwapInv'
  <2>1. Count \in Nat /\ Cardinality(todo) = 0 /\ dst_i \in Nat
    BY <1>0, <1>1, KeysFinite, FS_EmptySet DEF Count, IndexInv, TypeOK
  <2>2. dst_i = Count /\ FilledTo(Dst, dst_i) /\ \A k \in Entries : GoodIn(Dst, k)
    BY <1>0, <1>1, <2>1 DEF SwapInv, HeadersInv
  <2>3. FilledTo(Dst, dst_i)'
    BY <1>1, <1>4, <2>2 DEF FilledTo, Unused
  <2>4. \A k \in Entries : GoodIn(Dst, k)'
    BY <1>1, <1>4, <2>2 DEF GoodIn
  <2>5. QED
    BY <1>1, <1>4, <2>2, <2>3, <2>4 DEF SwapInv
<1>7. LoadedInv' /\ SetInv' /\ RoomInv'
  BY <1>1 DEF LoadedInv, Loaded, LoadedPCs, SetInv, RoomInv
<1>8. QED
  BY <1>2, <1>5, <1>6, <1>7 DEF RecordsKept

\* After a swap for record_set no record is left over that has no entry.
LEMMA SwitchKeeps ==
    ASSUME RecordsInv, Switch
    PROVE  RecordsKept
<1>0. /\ FlashTypes /\ SlotInv /\ HeadersInv /\ CallInv /\ SwapInv /\ sector \in Sectors
      /\ Dst \in Sectors /\ IndexInv
  BY DEF RecordsInv, IndexInv, TypeOK, FlashTypes, Sectors, Dst, Other
<1>1. /\ pc = "switch" /\ pc' = "eraseSource" /\ call' = call /\ Construct(Dst)
  BY DEF Switch, Goto
<1>2. /\ sector' = Dst /\ hdr' = hdr /\ KeepsRecords
      /\ \A u \in Sectors, i \in Idx : Unused(u, i)' <=> Unused(u, i)
      /\ next' \in 0 .. N /\ FilledTo(Dst, next') /\ FilledTo(sector, next)'
      /\ \A k \in Keys : idx'[k] # NoIdx => Good(k)'
      /\ \A k \in Keys, i \in Idx :
            slot[Dst][i].flags = "VALID" /\ slot[Dst][i].sum /\ slot[Dst][i].key = k
                => idx'[k] # NoIdx
  BY <1>0, <1>1, ConstructIs
<1>3. SlotInv'
  BY <1>0, <1>2 DEF SlotInv
<1>4. HeadersInv' /\ CallInv'
  BY <1>0, <1>1, <1>2 DEF HeadersInv, CallInv, EarlyPCs, LoadPCs
<1>5. LoadedInv'
  BY <1>1, <1>2 DEF LoadedInv
<1>6. RoomInv'
  <2>1. CASE call.op # "set"
    BY <1>1, <2>1 DEF RoomInv
  <2>2. CASE call.op = "set"
    <3>1. /\ dst_i = Count /\ FilledTo(Dst, dst_i) /\ \A k \in Entries : GoodIn(Dst, k)
      BY <1>0, <1>1, <2>2 DEF SwapInv
    <3>2. Count \in 0 .. N
      BY <1>0, KeysFinite, NAssumption DEF Count, IndexInv, CountInv
    <3>3. next' = Count
      BY <1>2, <3>1, <3>2, FilledOnce
    <3>4. Entries \subseteq Entries'
      <4>1. SUFFICES ASSUME NEW k \in Entries PROVE k \in Entries'
        OBVIOUS
      <4>2. k \in Keys /\ idx[k] \in Idx /\ GoodIn(Dst, k)
        BY <1>0, <3>1 DEF Entries, IndexInv, TypeOK
      <4>3. idx'[k] # NoIdx
        BY <1>2, <4>2 DEF GoodIn
      <4>4. QED
        BY <4>2, <4>3 DEF Entries
    <3>5. Count <= Count'
      <4>1. IsFiniteSet(Entries') /\ Entries' \subseteq Keys
        BY KeysFinite DEF Entries
      <4>2. Cardinality(Entries) <= Cardinality(Entries')
        BY <3>4, <4>1, FS_Subset
      <4>3. QED
        BY <4>2 DEF Entries, Count
    <3>6. QED
      BY <3>3, <3>5 DEF RoomInv
  <2>3. QED
    BY <2>1, <2>2
<1>7. SetInv' /\ SwapInv'
  BY <1>1 DEF SetInv, SwapInv
<1>8. QED
  BY <1>2, <1>3, <1>4, <1>5, <1>6, <1>7 DEF RecordsKept

LEMMA EraseSourceKeeps ==
    ASSUME RecordsInv, EraseSource
    PROVE  RecordsKept
<1>0. /\ FlashTypes /\ SlotInv /\ HeadersInv /\ CallInv /\ LoadedInv /\ RoomInv
      /\ sector \in Sectors /\ Dst \in Sectors /\ Dst # sector
  BY DEF RecordsInv, IndexInv, TypeOK, FlashTypes, Sectors, Dst, Other
<1>1. pc = "eraseSource" /\ UNCHANGED ram /\ (Erased(Dst) \/ UNCHANGED flash)
  BY DEF EraseSource
<1>2. SlotInv' /\ KeepsRecords /\ slot'[sector] = slot[sector] /\ hdr'[sector] = hdr[sector]
  BY <1>0, <1>1, EraseKeeps
<1>3. \/ pc' = "write" /\ call' = call /\ call.op = "set"
      \/ pc' = "build" /\ call' = call /\ call.op \in {"load", "reset"}
      \/ pc' = "idle"
  BY DEF EraseSource, Loading, Goto, Return
<1>4. /\ FilledTo(sector, next)' <=> FilledTo(sector, next)
      /\ \A k \in Keys : Good(k)' <=> Good(k)
      /\ idx' = idx /\ next' = next /\ sector' = sector /\ Count' = Count
  BY <1>1, <1>2, TableKept
<1>5. HeadersInv' /\ CallInv'
  BY <1>0, <1>1, <1>2, <1>3, <1>4 DEF HeadersInv, CallInv, EarlyPCs, LoadPCs
<1>6. LoadedInv'
  BY <1>0, <1>1, <1>3, <1>4 DEF LoadedInv, Loaded, LoadedPCs, Exempt
<1>7. RoomInv'
  BY <1>0, <1>1, <1>3, <1>4 DEF RoomInv
<1>8. SetInv' /\ SwapInv'
  BY <1>3 DEF SetInv, SwapInv
<1>9. QED
  BY <1>2, <1>5, <1>6, <1>7, <1>8 DEF RecordsKept

LEMMA SwapStepKeeps ==
    ASSUME RecordsInv, WritesWork, SwapStep
    PROVE  RecordsKept
BY SwapEraseKeeps, SwapInitKeeps, SwapCopyKeeps, SwapNeverFallsBack, SwapValidKeeps,
   SwitchKeeps, EraseSourceKeeps DEF SwapStep

\* A step from a place where RAM describes the sector to another one, that
\* touches neither.
LEMMA QuietKeeps ==
    ASSUME RecordsInv, UNCHANGED <<flash, ram>>,
           pc \in {"idle", "write"}, pc' \in {"idle", "write", "swapErase", "remove", "moveErase"},
           pc' = "write" => next < N \/ next <= Count,
           pc' = "swapErase" => call'.op = "set",
           pc' = "moveErase" => call'.op = "repair"
    PROVE  RecordsKept
<1>0. FlashTypes /\ SlotInv /\ HeadersInv /\ LoadedInv
  BY DEF RecordsInv, IndexInv, TypeOK, FlashTypes
<1>1. SlotInv' /\ KeepsRecords
  BY <1>0, FlashKept
<1>2. /\ FilledTo(sector, next)' <=> FilledTo(sector, next)
      /\ \A k \in Keys : Good(k)' <=> Good(k)
      /\ idx' = idx /\ next' = next /\ sector' = sector /\ Count' = Count /\ hdr' = hdr
  BY TableKept DEF flash
<1>3. HeadersInv' /\ CallInv'
  BY <1>0, <1>2 DEF HeadersInv, CallInv, EarlyPCs, LoadPCs
<1>4. LoadedInv'
  BY <1>0, <1>2 DEF LoadedInv, Loaded, LoadedPCs, Exempt
<1>5. SetInv' /\ SwapInv' /\ RoomInv'
  BY <1>2 DEF SetInv, SwapInv, RoomInv
<1>6. QED
  BY <1>1, <1>3, <1>4, <1>5 DEF RecordsKept

\* The volume is full before the sector is.
LEMMA RoomToWrite ==
    ASSUME RecordsInv, pc = "write", ~VolumeFull
    PROVE  next \in Idx
<1>1. Count \in Nat /\ next \in Nat
  BY KeysFinite DEF Count, RecordsInv, IndexInv, TypeOK
<1>2. Count < N - Headroom /\ (next < N \/ next <= Count)
  BY <1>1, NAssumption, HeadroomAssumption DEF VolumeFull, RecordsInv, RoomInv
<1>3. QED
  BY <1>1, <1>2, NAssumption, HeadroomAssumption DEF Idx

LEMMA WriteRecordKeeps ==
    ASSUME RecordsInv, WriteRecord
    PROVE  RecordsKept
<1>0. /\ FlashTypes /\ SlotInv /\ HeadersInv /\ CallInv /\ LoadedInv /\ sector \in Sectors
      /\ IndexInv
  BY DEF RecordsInv, IndexInv, TypeOK, FlashTypes
<1> DEFINE new == Written("NEW", call.key, call.val)
<1>1. /\ pc = "write" /\ pc' = "commit" /\ call' = call /\ next \in Idx
      /\ idx' = idx /\ local' = local /\ sector' = sector /\ next' = next
      /\ SetSlot(sector, next, Program(slot[sector][next], new))
  BY RoomToWrite DEF WriteRecord, Goto, ram
<1>2. new \in Rec /\ new.flags = "NEW"
  <2>1. call.key \in Keys /\ call.val \in Vals
    BY <1>0, <1>1 DEF IndexInv, RecordInv, TypeOK, Calls, NoCall
  <2>2. QED
    BY <2>1, RecordTypes DEF Written, RecFlags
<1>3. FilledTo(sector, next) /\ \A k \in Keys : idx[k] # NoIdx => Good(k)
  BY <1>0, <1>1 DEF LoadedInv, Loaded, LoadedPCs, Exempt
<1>4. slot[sector][next].flags = "EMPTY" /\ slot[sector][next] \in Rec
  BY <1>0, <1>1, <1>3, NAssumption DEF FilledTo, Unused, FlashTypes, Idx
<1>5. SetSlot(sector, next, new) /\ KeepsRecord(slot[sector][next], new)
  BY <1>1, <1>2, <1>4, ProgramUnused
<1>6. hdr[sector].flags \in {"INIT", "VALID"}
  BY <1>0, <1>1 DEF HeadersInv, EarlyPCs
<1> HIDE DEF new
<1>7. /\ SlotInv' /\ KeepsRecords
      /\ \A j \in Idx : slot'[sector][j].flags = "EMPTY" <=> j >= next + 1
  BY <1>0, <1>1, <1>2, <1>3, <1>5, <1>6, SetSlotKeeps DEF Unused
<1>8. /\ hdr' = hdr /\ slot'[sector][next] = new
      /\ \A j \in Idx : j # next => slot'[sector][j] = slot[sector][j]
  BY <1>0, <1>1, <1>5, SetSlotIs
<1>9. HeadersInv' /\ CallInv'
  BY <1>0, <1>1, <1>6, <1>8 DEF HeadersInv, CallInv, EarlyPCs, LoadPCs
<1>10. LoadedInv'
  <2>1. FilledTo(sector, next + 1)'
    BY <1>1, <1>7 DEF FilledTo, Unused
  <2>2. ASSUME NEW k \in Keys, idx'[k] # NoIdx PROVE Good(k)'
    <3>1. Good(k) /\ idx[k] \in Idx /\ idx[k] # next
      BY <1>0, <1>1, <1>3, <1>4, <2>2 DEF Good, GoodIn, IndexInv, TypeOK
    <3>2. QED
      BY <1>1, <1>8, <3>1 DEF Good, GoodIn
  <2>3. QED
    BY <1>1, <2>1, <2>2 DEF LoadedInv
<1>11. SetInv' /\ SwapInv' /\ RoomInv'
  BY <1>1, <1>8 DEF SetInv, SwapInv, RoomInv, new
<1>12. QED
  BY <1>7, <1>9, <1>10, <1>11 DEF RecordsKept

LEMMA CommitKeeps ==
    ASSUME RecordsInv, Commit
    PROVE  RecordsKept
<1>0. /\ FlashTypes /\ SlotInv /\ HeadersInv /\ CallInv /\ LoadedInv /\ SetInv
      /\ sector \in Sectors /\ IndexInv
  BY DEF RecordsInv, IndexInv, TypeOK, FlashTypes
<1> DEFINE old == Written("NEW", call.key, call.val)
           new == Written("VALID", call.key, call.val)
<1>1. /\ pc = "commit" /\ pc' = "retire" /\ call' = call /\ next \in Idx /\ next' = next + 1
      /\ idx' = idx /\ local' = local /\ sector' = sector
      /\ SetSlot(sector, next, SetValid(slot[sector][next]))
  BY <1>0, IndexesInSector DEF Commit, Goto, IndexChecksHold
<1>2. slot[sector][next] = old /\ SetSlot(sector, next, new)
  <2>1. slot[sector][next] = old
    BY <1>0, <1>1 DEF SetInv
  <2>2. SetValid(old) = new
    BY DEF SetValid, Written
  <2>3. QED
    BY <1>1, <2>1, <2>2
<1>3. new \in Rec /\ new.flags = "VALID" /\ old.flags = "NEW" /\ KeepsRecord(old, new)
  <2>1. call.key \in Keys /\ call.val \in Vals
    BY <1>0, <1>1 DEF IndexInv, RecordInv, TypeOK, Calls, NoCall
  <2>2. new \in Rec /\ old \in Rec
    BY <2>1, RecordTypes DEF RecFlags
  <2>3. new.flags = "VALID" /\ old.flags = "NEW"
    BY DEF Written
  <2>4. [new EXCEPT !.flags = "NEW"] = old
    <3>1. new.key = old.key /\ new.val = old.val /\ new.sum = old.sum
      BY DEF Written
    <3> HIDE DEF old, new
    <3>2. QED
      BY <2>2, <2>3, <3>1 DEF Rec
  <2>5. QED
    BY <2>2, <2>3, <2>4 DEF KeepsRecord
<1>4. FilledTo(sector, next + 1) /\ \A k \in Keys : idx[k] # NoIdx => Good(k)
  BY <1>0, <1>1 DEF LoadedInv, Loaded, LoadedPCs, Exempt
<1>5. hdr[sector].flags \in {"INIT", "VALID"}
  BY <1>0, <1>1 DEF HeadersInv, EarlyPCs
<1> HIDE DEF old, new
<1>6. ~Unused(sector, next)
  BY <1>2, <1>3 DEF Unused
<1>7. /\ SlotInv' /\ KeepsRecords
      /\ \A j \in Idx : slot'[sector][j].flags = "EMPTY" <=> Unused(sector, j) /\ j # next
  BY <1>0, <1>1, <1>2, <1>3, <1>5, <1>6, SetSlotKeeps DEF Unused
<1>8. /\ hdr' = hdr /\ slot'[sector][next] = new
      /\ \A j \in Idx : j # next => slot'[sector][j] = slot[sector][j]
  BY <1>0, <1>1, <1>2, SetSlotIs
<1>9. HeadersInv' /\ CallInv'
  BY <1>0, <1>1, <1>5, <1>8 DEF HeadersInv, CallInv, EarlyPCs, LoadPCs
<1>10. \A k \in Keys : idx[k] # next
  <2>1. slot[sector][next].flags # "VALID"
    BY <1>2, <1>3
  <2>2. next # NoIdx
    BY <1>1, NAssumption DEF Idx, NoIdx
  <2>3. QED
    BY <1>4, <2>1, <2>2 DEF Good, GoodIn
<1>11. LoadedInv'
  <2>1. FilledTo(sector, next)'
    BY <1>1, <1>4, <1>6, <1>7 DEF FilledTo, Unused
  <2>2. ASSUME NEW k \in Keys, idx'[k] # NoIdx PROVE Good(k)'
    <3>1. Good(k) /\ idx[k] \in Idx /\ idx[k] # next
      BY <1>0, <1>1, <1>4, <1>10, <2>2 DEF IndexInv, TypeOK
    <3>2. QED
      BY <1>1, <1>8, <3>1 DEF Good, GoodIn
  <2>3. QED
    BY <1>1, <2>1, <2>2 DEF LoadedInv
<1>12. SetInv'
  <2>1. LastWritten' = next
    BY <1>1, NAssumption DEF LastWritten, Idx
  <2>2. QED
    BY <1>1, <1>8, <1>10, <2>1 DEF SetInv, new
<1>13. SwapInv' /\ RoomInv'
  BY <1>1 DEF SwapInv, RoomInv
<1>14. QED
  BY <1>7, <1>9, <1>11, <1>12, <1>13 DEF RecordsKept

\* Marking the record of an entry invalid, or being cut off while doing so.
LEMMA InvalidateKeeps ==
    ASSUME RecordsInv, NEW i \in Idx, slot[sector][i].flags = "VALID",
           hdr[sector].flags \in {"INIT", "VALID"},
           NEW r \in {Spoiled("INVALID"), Spoiled("TORN")}, SetSlot(sector, i, r)
    PROVE  /\ SlotInv' /\ KeepsRecords /\ hdr' = hdr
           /\ \A j \in Idx : slot'[sector][j].flags = "EMPTY" <=> slot[sector][j].flags = "EMPTY"
           /\ \A j \in Idx : j # i => slot'[sector][j] = slot[sector][j]
<1>0. FlashTypes /\ SlotInv /\ sector \in Sectors
  BY DEF RecordsInv, IndexInv, TypeOK, FlashTypes
<1>1. r \in Rec /\ r.flags \in {"INVALID", "TORN"}
  <2>1. r \in Rec
    BY RecordTypes DEF RecFlags
  <2>2. r.flags \in {"INVALID", "TORN"}
    BY DEF Spoiled
  <2>3. QED
    BY <2>1, <2>2
<1>2. KeepsRecord(slot[sector][i], r) /\ ~Unused(sector, i)
  BY <1>1 DEF KeepsRecord, Unused
<1>3. /\ SlotInv' /\ KeepsRecords
      /\ \A j \in Idx : slot'[sector][j].flags = "EMPTY" <=> Unused(sector, j) /\ j # i
  BY <1>0, <1>1, <1>2, SetSlotKeeps DEF Unused
<1>4. hdr' = hdr /\ \A j \in Idx : j # i => slot'[sector][j] = slot[sector][j]
  BY <1>0, SetSlotIs
<1>5. QED
  BY <1>2, <1>3, <1>4 DEF Unused

LEMMA RetireKeeps ==
    ASSUME RecordsInv, WritesWork, Retire
    PROVE  RecordsKept
<1>0. /\ FlashTypes /\ SlotInv /\ HeadersInv /\ CallInv /\ LoadedInv /\ SetInv
      /\ sector \in Sectors /\ IndexInv
  BY DEF RecordsInv, IndexInv, TypeOK, FlashTypes
<1>1. /\ pc = "retire" /\ pc' = "idle" /\ sector' = sector /\ next' = next
      /\ idx' = [idx EXCEPT ![call.key] = LastWritten]
      /\ local' = [local EXCEPT ![call.key] = Cache(call.val)]
  BY DEF Retire, Return
<1>a. call.key \in Keys /\ LastWritten \in Idx
  BY <1>0, <1>1, IndexesInSector DEF IndexChecksHold, IndexInv, RecordInv, TypeOK, Calls, NoCall
<1>2. PICK k \in Keys : k = call.key
  BY <1>a
<1> DEFINE new == Written("VALID", k, call.val)
<1>3. slot[sector][LastWritten] = new /\ \A l \in Keys : idx[l] # LastWritten
  BY <1>0, <1>1, <1>2 DEF SetInv
<1>4. FilledTo(sector, next) /\ \A l \in Keys : idx[l] # NoIdx => Good(l) /\ idx[l] \in Idx
  BY <1>0, <1>1 DEF LoadedInv, Loaded, LoadedPCs, Exempt, IndexInv, TypeOK
<1>5. hdr[sector].flags \in {"INIT", "VALID"}
  BY <1>0, <1>1 DEF HeadersInv, EarlyPCs
<1>6. /\ SlotInv' /\ KeepsRecords /\ hdr' = hdr
      /\ \A j \in Idx : slot'[sector][j].flags = "EMPTY" <=> slot[sector][j].flags = "EMPTY"
      /\ \A j \in Idx : j # idx[k] => slot'[sector][j] = slot[sector][j]
  <2>1. CASE idx[k] = NoIdx
    BY <1>0, <1>2, <2>1, FlashKept DEF Retire, flash
  <2>2. CASE idx[k] # NoIdx
    <3>1. SetSlot(sector, idx[k], Spoiled("INVALID"))
      BY <1>2, <2>2 DEF Retire, WritesWork, May
    <3>2. idx[k] \in Idx /\ slot[sector][idx[k]].flags = "VALID"
      BY <1>2, <1>4, <2>2 DEF Good, GoodIn
    <3>3. QED
      BY <1>5, <3>1, <3>2, InvalidateKeeps
  <2>3. QED
    BY <2>1, <2>2
<1>7. HeadersInv' /\ CallInv'
  BY <1>0, <1>1, <1>5, <1>6 DEF HeadersInv, CallInv, EarlyPCs, LoadPCs
<1>8. LoadedInv'
  <2>1. FilledTo(sector, next)'
    BY <1>1, <1>4, <1>6 DEF FilledTo, Unused
  <2>2. Good(k)'
    <3>1. idx'[k] = LastWritten /\ local'[k] = Cache(call.val)
      BY <1>0, <1>1, <1>2, <1>a DEF IndexInv, TypeOK
    <3>2. slot'[sector][LastWritten] = new
      BY <1>a, <1>3, <1>6
    <3>3. new.flags = "VALID" /\ new.sum /\ new.key = k /\ new.val = call.val
      BY DEF Written
    <3> HIDE DEF new
    <3>4. QED
      BY <1>1, <3>1, <3>2, <3>3 DEF Good, GoodIn, Cache
  <2>3. ASSUME NEW l \in Keys, l # k, idx'[l] # NoIdx PROVE Good(l)'
    <3>1. idx'[l] = idx[l] /\ local'[l] = local[l] /\ Good(l) /\ idx[l] \in Idx
      BY <1>0, <1>1, <1>2, <1>4, <2>3 DEF IndexInv, TypeOK
    <3>2. idx[l] # idx[k]
      BY <1>2, <1>4, <2>3, <3>1 DEF Good, GoodIn
    <3>3. slot'[sector][idx[l]] = slot[sector][idx[l]]
      BY <1>6, <3>1, <3>2
    <3>4. QED
      BY <1>1, <3>1, <3>3 DEF Good, GoodIn
  <2>4. QED
    BY <1>1, <2>1, <2>2, <2>3 DEF LoadedInv
<1>9. SetInv' /\ SwapInv' /\ RoomInv'
  BY <1>1 DEF SetInv, SwapInv, RoomInv
<1>10. QED
  BY <1>6, <1>7, <1>8, <1>9 DEF RecordsKept

LEMMA RemoveKeeps ==
    ASSUME RecordsInv, WritesWork, Remove
    PROVE  RecordsKept
<1> DEFINE k == call.key
<1>0. /\ HeadersInv /\ CallInv /\ LoadedInv /\ IndexInv
  BY DEF RecordsInv
<1>1. /\ pc = "remove" /\ pc' = "forget" /\ UNCHANGED ram /\ call' = call
      /\ SetSlot(sector, idx[k], Spoiled("INVALID"))
  BY DEF Remove, WritesWork, May, Goto
<1>2. k \in Keys /\ idx[k] \in Idx /\ idx[k] # NoIdx
  BY <1>0, <1>1, NAssumption DEF IndexInv, RecordInv, TypeOK, Calls, NoCall, Idx, NoIdx
<1>3. FilledTo(sector, next) /\ \A l \in Keys : idx[l] # NoIdx => Good(l) /\ idx[l] \in Idx
  BY <1>0, <1>1 DEF LoadedInv, Loaded, LoadedPCs, Exempt, IndexInv, TypeOK
<1>4. hdr[sector].flags \in {"INIT", "VALID"}
  BY <1>0, <1>1 DEF HeadersInv, EarlyPCs
<1>5. slot[sector][idx[k]].flags = "VALID"
  BY <1>2, <1>3 DEF Good, GoodIn
<1> HIDE DEF k
<1>6. /\ SlotInv' /\ KeepsRecords /\ hdr' = hdr
      /\ \A j \in Idx : slot'[sector][j].flags = "EMPTY" <=> slot[sector][j].flags = "EMPTY"
      /\ \A j \in Idx : j # idx[k] => slot'[sector][j] = slot[sector][j]
  BY <1>1, <1>2, <1>4, <1>5, InvalidateKeeps
<1>7. HeadersInv' /\ CallInv'
  BY <1>0, <1>1, <1>4, <1>6 DEF HeadersInv, CallInv, EarlyPCs, LoadPCs, ram
<1>8. LoadedInv'
  <2>1. FilledTo(sector, next)'
    BY <1>1, <1>3, <1>6 DEF FilledTo, Unused, ram
  <2>2. ASSUME NEW l \in Keys, l # k, idx'[l] # NoIdx PROVE Good(l)'
    <3>1. idx' = idx /\ local' = local /\ sector' = sector /\ Good(l) /\ idx[l] \in Idx
      BY <1>1, <1>3, <2>2 DEF ram
    <3>2. idx[l] # idx[k]
      BY <1>2, <1>3, <2>2, <3>1 DEF Good, GoodIn
    <3>3. slot'[sector][idx[l]] = slot[sector][idx[l]]
      BY <1>6, <3>1, <3>2
    <3>4. QED
      BY <3>1, <3>3 DEF Good, GoodIn
  <2>3. Exempt' = {k}
    BY <1>1 DEF Exempt, k
  <2>4. QED
    BY <1>1, <2>1, <2>2, <2>3 DEF LoadedInv
<1>9. SetInv' /\ SwapInv' /\ RoomInv'
  BY <1>1 DEF SetInv, SwapInv, RoomInv
<1>10. QED
  BY <1>6, <1>7, <1>8, <1>9 DEF RecordsKept

LEMMA ForgetKeeps ==
    ASSUME RecordsInv, Forget
    PROVE  RecordsKept
<1>0. /\ FlashTypes /\ SlotInv /\ HeadersInv /\ CallInv /\ LoadedInv /\ IndexInv
  BY DEF RecordsInv, IndexInv, TypeOK, FlashTypes
<1>1. /\ pc = "forget" /\ pc' = "idle" /\ UNCHANGED flash
      /\ sector' = sector /\ next' = next
      /\ idx' = [idx EXCEPT ![call.key] = NoIdx]
      /\ local' = [local EXCEPT ![call.key] = NoVal]
  BY DEF Forget, Return
<1>2. call.key \in Keys
  BY <1>0, <1>1 DEF IndexInv, RecordInv, TypeOK, Calls, NoCall
<1>3. SlotInv' /\ KeepsRecords /\ hdr' = hdr /\ slot' = slot
  BY <1>0, <1>1, FlashKept DEF flash
<1>4. HeadersInv' /\ CallInv'
  BY <1>0, <1>1, <1>3 DEF HeadersInv, CallInv, EarlyPCs, LoadPCs
<1>5. LoadedInv'
  <2>1. FilledTo(sector, next)'
    BY <1>0, <1>1, <1>3 DEF LoadedInv, Loaded, LoadedPCs, FilledTo, Unused
  <2>2. ASSUME NEW l \in Keys, idx'[l] # NoIdx PROVE Good(l)'
    <3>1. l # call.key /\ idx'[l] = idx[l] /\ local'[l] = local[l]
      BY <1>0, <1>1, <1>2, <2>2 DEF IndexInv, TypeOK
    <3>2. Good(l)
      BY <1>0, <1>1, <2>2, <3>1 DEF LoadedInv, Loaded, LoadedPCs, Exempt
    <3>3. QED
      BY <1>1, <1>3, <3>1, <3>2 DEF Good, GoodIn
  <2>3. QED
    BY <1>1, <2>1, <2>2 DEF LoadedInv
<1>6. SetInv' /\ SwapInv' /\ RoomInv'
  BY <1>1 DEF SetInv, SwapInv, RoomInv
<1>7. QED
  BY <1>3, <1>4, <1>5, <1>6 DEF RecordsKept

LEMMA SetStepKeeps ==
    ASSUME RecordsInv, WritesWork, SetStep
    PROVE  RecordsKept
<1>1. CASE SetFull
  BY <1>1, QuietKeeps DEF SetFull, Return
<1>2. CASE SetSame
  BY <1>2, QuietKeeps DEF SetSame, Return
<1>3. CASE WriteRecordFail
  <2>1. pc = "write" /\ ~VolumeFull /\ next >= N
    BY <1>3 DEF WriteRecordFail, WritesWork, May
  <2>2. QED
    BY <2>1, RoomToWrite, NAssumption DEF Idx
<1>4. CASE CommitFail
  BY <1>4 DEF CommitFail, WritesWork, May
<1>5. QED
  BY <1>1, <1>2, <1>3, <1>4, WriteRecordKeeps, CommitKeeps, RetireKeeps DEF SetStep

LEMMA ClientKeeps ==
    ASSUME RecordsInv, Client
    PROVE  RecordsKept
<1>0. FlashTypes /\ SlotInv /\ HeadersInv /\ (UNCHANGED flash => SlotInv' /\ KeepsRecords)
  BY FlashKept DEF RecordsInv, IndexInv, TypeOK, FlashTypes
<1>1. CASE Start
  BY <1>0, <1>1, EarlyKeeps DEF Start, NoCall, EarlyPCs
<1>2. ASSUME NEW p \in Puts, Set(p[1], p[2]) PROVE RecordsKept
  <2>1. next \in Nat
    BY DEF RecordsInv, IndexInv, TypeOK
  <2>2. QED
    BY <1>2, <2>1, NAssumption, QuietKeeps DEF Set, Invoke
<1>3. ASSUME NEW k \in Deletable, Delete(k) PROVE RecordsKept
  BY <1>3, QuietKeeps DEF Delete
<1>4. CASE Repair
  BY <1>4, QuietKeeps DEF Repair, Invoke, NoCall
<1>5. CASE Reset
  BY <1>0, <1>5, EarlyKeeps DEF Reset, Invoke, NoCall, EarlyPCs
<1>6. CASE Wipe
  BY <1>0, <1>6, EarlyKeeps DEF Wipe, Invoke, NoCall, EarlyPCs
<1>7. CASE Unload
  BY <1>0, <1>7, PowerOffKeeps DEF Unload
<1>8. QED
  BY <1>1, <1>2, <1>3, <1>4, <1>5, <1>6, <1>7 DEF Client

\* The write of a record is cut off.
LEMMA TornWriteKeeps ==
    ASSUME FlashTypes, SlotInv, NEW s \in Sectors, NEW i \in Idx, NEW f \in {"NEW", "VALID"},
           hdr[s].flags \in {"INIT", "VALID"}, FilledTo(s, i),
           NEW x \in TornWrites(slot[s][i], f), SetSlot(s, i, x)
    PROVE  SlotInv' /\ KeepsRecords
<1>1. slot[s][i].flags = "EMPTY" /\ slot[s][i] \in Rec
  BY NAssumption DEF FilledTo, Unused, FlashTypes, Idx
<1>2. CASE x = slot[s][i]
  BY <1>2, FlashKept DEF SetSlot, FlashTypes, flash
<1>3. CASE x = Program(slot[s][i], Spoiled(f))
  <2>1. Spoiled(f) \in Rec
    BY RecordTypes DEF RecFlags
  <2>2. Spoiled(f).flags = f
    BY DEF Spoiled
  <2>3. x = Spoiled(f) /\ KeepsRecord(slot[s][i], Spoiled(f))
    BY <1>1, <1>3, <2>1, ProgramUnused
  <2>4. QED
    BY <2>1, <2>2, <2>3, SetSlotKeeps
<1>4. QED
  BY <1>2, <1>3 DEF TornWrites

LEMMA PowerLossKeeps ==
    ASSUME RecordsInv, WritesWork, PowerLoss
    PROVE  RecordsKept
<1>0. /\ FlashTypes /\ SlotInv /\ HeadersInv /\ LoadedInv /\ IndexInv
      /\ sector \in Sectors /\ Dst \in Sectors
  BY DEF RecordsInv, IndexInv, TypeOK, FlashTypes, Sectors, Dst, Other
<1>1. CASE Crash
  BY <1>0, <1>1, FlashKept, PowerOffKeeps DEF Crash
<1>2. CASE TornWrite
  <2>1. CASE /\ pc = "write" /\ ~VolumeFull
             /\ \E x \in TornWrites(slot[sector][next], "NEW") : SetSlot(sector, next, x)
    <3>1. next \in Idx
      BY <2>1, RoomToWrite
    <3>2. hdr[sector].flags \in {"INIT", "VALID"} /\ FilledTo(sector, next)
      BY <1>0, <2>1 DEF HeadersInv, EarlyPCs, LoadedInv, Loaded, LoadedPCs
    <3>3. QED
      BY <1>0, <1>2, <2>1, <3>1, <3>2, TornWriteKeeps, PowerOffKeeps DEF TornWrite
  <2>2. CASE /\ \/ pc = "moveCopy" /\ MoveLeft # {}
                \/ pc = "swapCopy" /\ todo # {}
             /\ \E x \in TornWrites(slot[Dst][dst_i], "VALID") : SetSlot(Dst, dst_i, x)
    <3>1. dst_i \in Idx
      BY <1>0, <2>2, IndexesInSector DEF IndexChecksHold
    <3>2. hdr[Dst].flags \in {"INIT", "VALID"} /\ FilledTo(Dst, dst_i)
      BY <1>0, <2>2 DEF HeadersInv
    <3>3. QED
      BY <1>0, <1>2, <2>2, <3>1, <3>2, TornWriteKeeps, PowerOffKeeps DEF TornWrite
  <2>3. CASE /\ pc \in {"retire", "remove"} /\ idx[call.key] # NoIdx
             /\ SetSlot(sector, idx[call.key], Torn(slot[sector][idx[call.key]]))
    <3>1. call.key \in Keys
      BY <1>0, <2>3 DEF IndexInv, RecordInv, TypeOK, Calls, NoCall
    <3>2. idx[call.key] \in Idx /\ slot[sector][idx[call.key]].flags = "VALID"
      BY <1>0, <2>3, <3>1
         DEF LoadedInv, Loaded, LoadedPCs, Exempt, Good, GoodIn, IndexInv, TypeOK
    <3>3. Torn(slot[sector][idx[call.key]]) = Spoiled("TORN")
      BY <3>2 DEF Torn
    <3>4. hdr[sector].flags \in {"INIT", "VALID"}
      BY <1>0, <2>3 DEF HeadersInv, EarlyPCs
    <3>5. SlotInv' /\ KeepsRecords
      BY <2>3, <3>2, <3>3, <3>4, InvalidateKeeps
    <3>6. QED
      BY <1>2, <3>5, PowerOffKeeps DEF TornWrite
  <2>4. CASE \E s \in Sectors : \E m \in SUBSET Bad(slot[s]) : MarkBad(s, m)
    BY <1>0, <1>2, <2>4, MarkBadKeeps, PowerOffKeeps DEF TornWrite
  <2>5. QED
    BY <1>0, <1>2, <2>1, <2>2, <2>3, <2>4 DEF TornWrite
<1>3. CASE TornHeader
  BY <1>0, <1>3, HeaderKeeps, PowerOffKeeps DEF TornHeader
<1>4. CASE TornErase
  BY <1>4 DEF TornErase, WritesWork, May
<1>5. QED
  BY <1>1, <1>2, <1>3, <1>4 DEF PowerLoss

LEMMA DeleteStepKeeps ==
    ASSUME RecordsInv, WritesWork, DeleteStep
    PROVE  RecordsKept
BY RemoveKeeps, ForgetKeeps DEF DeleteStep

LEMMA RecordsInit == Init => RecordsInv
<1> SUFFICES ASSUME Init PROVE RecordsInv
  OBVIOUS
<1>1. IndexInv
  BY IndexInit
<1>2. SlotInv
  BY DEF Init, SlotInv, Unused, Blank, Spoiled
<1>3. HeadersInv /\ CallInv /\ LoadedInv /\ SetInv /\ SwapInv /\ RoomInv
  BY DEF Init, HeadersInv, EarlyPCs, CallInv, LoadPCs, LoadedInv, Loaded, LoadedPCs,
         SetInv, SwapInv, RoomInv
<1>4. QED
  BY <1>1, <1>2, <1>3 DEF RecordsInv

\* A step keeps the invariant and writes only to erased slots.
LEMMA RecordsStep ==
    ASSUME WritesWork, RecordsInv, [Next]_vars
    PROVE  RecordsInv' /\ KeepsRecords
<1>1. IndexInv'
  BY IndexStep DEF RecordsInv
<1>2. RecordsKept
  <2>1. CASE Next
    BY <2>1, LoadStepKeeps, MoveStepKeeps, SwapStepKeeps, SetStepKeeps, DeleteStepKeeps,
       ClientKeeps, PowerLossKeeps DEF Next, Step
  <2>2. CASE UNCHANGED vars
    <3>1. SlotInv' /\ KeepsRecords
      BY <2>2, FlashKept DEF vars, RecordsInv, IndexInv, TypeOK, FlashTypes
    <3>2. /\ HeadersInv' <=> HeadersInv
          /\ CallInv' <=> CallInv
      BY <2>2 DEF vars, flash, ram, ctl, HeadersInv, CallInv, FilledTo, Unused, Dst
    <3>3. LoadedInv' <=> LoadedInv
      BY <2>2 DEF vars, flash, ram, ctl, LoadedInv, Loaded, Exempt, FilledTo, Unused, Good, GoodIn
    <3>4. SetInv' <=> SetInv
      BY <2>2 DEF vars, flash, ram, ctl, SetInv, LastWritten
    <3>5. Count' = Count /\ Entries' = Entries
      BY <2>2 DEF vars, ram, Count, Entries
    <3>6. /\ SwapInv' <=> SwapInv
          /\ RoomInv' <=> RoomInv
      BY <2>2, <3>5 DEF vars, flash, ram, ctl, SwapInv, RoomInv, FilledTo, Unused, GoodIn, Dst
    <3>7. QED
      BY <3>1, <3>2, <3>3, <3>4, <3>6 DEF RecordsKept, RecordsInv
  <2>3. QED
    BY <2>1, <2>2
<1>3. QED
  BY <1>1, <1>2 DEF RecordsKept, RecordsInv

-----------------------------------------------------------------------------
\* FLASH that is not erased is never written with a record (write_variable_record
\* and set_variable_record_flags, nvol3.c), as long as writes work and no erase
\* is cut short; power may be lost at any other point, and erases may fail.
THEOREM RecordsGoToErasedSlots ==
    ASSUME WritesWork
    PROVE  Spec => WritesErasedSlots
<1>1. ASSUME RecordsInv, [Next]_vars PROVE RecordsInv'
  BY <1>1, RecordsStep
<1>2. ASSUME RecordsInv, [Next]_vars
      PROVE  \A s \in Sectors, i \in Idx :
                LET old == slot[s][i]
                    new == slot'[s][i]
                IN  old.flags # "EMPTY" /\ new.flags \in {"NEW", "VALID"} =>
                        [new EXCEPT !.flags = old.flags] = old
  BY <1>2, RecordsStep DEF KeepsRecords, KeepsRecord
<1>3. QED
  BY <1>1, <1>2, RecordsInit, PTL DEF Spec, WritesErasedSlots

\* Between calls every entry of the dictionary leads to a good record of its
\* key with the value of the copy in RAM (what nvol3_record_get relies on).
THEOREM EntriesAreAlwaysGood ==
    ASSUME WritesWork
    PROVE  Spec => []EntriesAreGood
<1>1. ASSUME RecordsInv, [Next]_vars PROVE RecordsInv'
  BY <1>1, RecordsStep
<1>2. RecordsInv => EntriesAreGood
  BY DEF RecordsInv, LoadedInv, Loaded, LoadedPCs, Exempt, Good, GoodIn, EntriesAreGood
<1>3. QED
  BY <1>1, <1>2, RecordsInit, PTL DEF Spec

\* record_set finds a free slot whenever the headroom check lets it write: the
\* swap before it leaves no record without an entry.
THEOREM WriteAlwaysHasRoom ==
    ASSUME WritesWork
    PROVE  Spec => []WriteHasRoom
<1>1. ASSUME RecordsInv, [Next]_vars PROVE RecordsInv'
  BY <1>1, RecordsStep
<1>2. RecordsInv => WriteHasRoom
  BY RoomToWrite, NAssumption DEF WriteHasRoom, Idx
<1>3. QED
  BY <1>1, <1>2, RecordsInit, PTL DEF Spec
=============================================================================
