--------------------------- MODULE NvolDurableProofs ---------------------------
(***************************************************************************)
(* A volume is a durable map, and between calls RAM is what FLASH says:    *)
(* Durable and RamMatchesFlash for every number of slots, keys and values. *)
(* Either power may be lost at any FLASH operation and inside the write of *)
(* any record, and nothing is ever deleted, or keys are deleted too and    *)
(* nothing fails.  With both a deleted key can come back: see the run      *)
(* nvol_delete_after_crash.                                                *)
(***************************************************************************)
EXTENDS NvolRecordProofs, NvolDurable

\* What the environment may do.
Benign == Faults \subseteq {"crash", "tornWrite"} /\ (Deletable = {} \/ Faults = {})

-----------------------------------------------------------------------------
(***************************************************************************)
(* The invariant.                                                          *)
(***************************************************************************)
\* A sector that can be read back: no unused slot before a used one.
Packed(sl) == \A i \in Idx, j \in Idx : i <= j /\ sl[i].flags = "EMPTY" => sl[j].flags = "EMPTY"

IsLive(r) == r.flags = "VALID" /\ r.sum

Nothing == [k \in Keys |-> NoVal]

\* Both sectors are erased, or one at least is finished; the other may be erased,
\* started or finished too.
Fresh(h) == \A s \in Sectors : h[s] = ErasedHdr
SomeValid(h) == \E s \in Sectors : h[s] = ValidHdr
HdrsOK(h) ==
    /\ \A s \in Sectors : h[s] \in {ErasedHdr, InitHdr, ValidHdr}
    /\ Fresh(h) \/ SomeValid(h)

\* Two finished sectors hold the same map: it does not matter which is used.
Twins(h, sl) ==
    \A s \in Sectors, u \in Sectors :
        h[s] = ValidHdr /\ h[u] = ValidHdr => Contents(sl[s]) = Contents(sl[u])

\* Which call is where, when init_sectors never has to repair.
WhereInv ==
    /\ pc \in {"off", "idle"} => call = NoCall
    /\ pc = "off" => ret = "none"
    /\ pc \in {"moveErase", "moveInit", "moveCopy"} => call.op = "repair"
    /\ pc \in {"switch", "eraseSource"} => call.op \in {"set", "repair"}
    /\ call.op = "delete" => Faults = {}

\* Places of calls on a volume whose other sector is erased.
AlonePCs == {"idle", "build", "write", "commit", "retire", "remove", "forget",
             "moveErase", "moveInit", "swapErase", "swapInit"}

AloneInv ==
    /\ pc \in AlonePCs => hdr[Dst] = ErasedHdr
    /\ pc = "reset1" => \E s \in Sectors : hdr[s] = ErasedHdr

\* What nvol3_reset has done so far; on a volume that has never been used a load
\* calls it first.
FreshInv ==
    /\ pc \in {"reset1", "reset2"} /\ call.op = "load" => Fresh(hdr)
    /\ pc \in {"scrub1", "scrub2", "plan", "dropOther"} /\ call.op = "reset" => Fresh(hdr)
    /\ pc \in {"formatErase", "formatValid"} => Fresh(hdr)
    /\ pc = "build" /\ call.op = "reset" => Contents(slot[sector]) = Nothing

\* The dictionary is what construct_lookup_table would make of the sector now,
\* but for the key whose record has just been written or marked, and for the
\* entries swap_sectors has already moved.
TableInv ==
    Loaded =>
        \A k \in Keys :
            LET found == Lookup(slot[sector], k) IN
            CASE pc = "swapCopy" /\ k \notin todo -> idx[k] # NoIdx <=> found # NoIdx
              [] pc = "retire" /\ k = call.key    -> found = LastWritten
              [] pc = "forget" /\ k = call.key    -> found = NoIdx
              [] OTHER                            -> idx[k] = found

\* So are the counters; nvol3_record_delete updates them after the record.
CountersInv ==
    Loaded =>
        /\ inuse = Cardinality(Live(slot[sector])) + (IF pc = "forget" THEN 1 ELSE 0)
        /\ invalid = Cardinality(With(slot[sector], {"INVALID"})) - (IF pc = "forget" THEN 1 ELSE 0)

\* If nothing fails a sector never has two good records of a key, but while the
\* new one is there and the old one is not yet marked.
SingleInv ==
    Faults = {} =>
        \A s \in Sectors, k \in Keys :
            IF pc = "retire" /\ s = sector /\ k = call.key
            THEN LiveOf(slot[s], k) \subseteq {idx[k], LastWritten}
            ELSE \A i \in LiveOf(slot[s], k), j \in LiveOf(slot[s], k) : i = j

\* The records of a key that the loop of move_sector has been past.
Passed(k) == {i \in LiveOf(slot[sector], k) : i < src_i}

\* move_sector: the copy so far holds what the records so far say.
MovedInv ==
    pc = "moveCopy" =>
        \A k \in Keys :
            /\ Passed(k) = {} => LiveOf(slot[Dst], k) = {}
            /\ \A i \in Passed(k) :
                  (\A j \in Passed(k) : j <= i) =>
                      /\ LiveOf(slot[Dst], k) # {}
                      /\ Contents(slot[Dst])[k] = slot[sector][i].val

\* swap_sectors: the copy so far has the current record of every entry so far.
SwappedInv ==
    pc = "swapCopy" =>
        \A k \in Keys :
            IF k \in Entries \ todo
            THEN LiveOf(slot[Dst], k) = {idx[k]} /\ Contents(slot[Dst])[k] = Contents(slot[sector])[k]
            ELSE LiveOf(slot[Dst], k) = {}

MapInv ==
    /\ HdrsOK(hdr) /\ Twins(hdr, slot)
    /\ WhereInv /\ AloneInv /\ FreshInv
    /\ TableInv /\ CountersInv /\ SingleInv /\ MovedInv /\ SwappedInv

-----------------------------------------------------------------------------
(***************************************************************************)
(* What construct_lookup_table finds in a sector, and how one write        *)
(* changes it.                                                             *)
(***************************************************************************)
LEMMA LiveIs ==
    ASSUME NEW sl \in [Idx -> Rec], Packed(sl)
    PROVE  /\ Scanned(sl) = {i \in Idx : sl[i].flags # "EMPTY"}
           /\ Live(sl) = {i \in Idx : IsLive(sl[i])}
           /\ Bad(sl) = {i \in Idx : sl[i].flags = "VALID" /\ ~sl[i].sum}
           /\ With(sl, {"INVALID"}) = {i \in Idx : sl[i].flags = "INVALID"}
           /\ \A k \in Keys : LiveOf(sl, k) = {i \in Idx : IsLive(sl[i]) /\ sl[i].key = k}
<1>1. ASSUME NEW i \in Idx
      PROVE  (\A j \in 0 .. i : sl[j].flags # "EMPTY") <=> sl[i].flags # "EMPTY"
  <2>1. i \in 0 .. i /\ \A j \in 0 .. i : j \in Idx /\ j <= i
    BY NAssumption DEF Idx
  <2>2. QED
    BY <2>1 DEF Packed
<1>2. Scanned(sl) = {i \in Idx : sl[i].flags # "EMPTY"}
  BY <1>1 DEF Scanned
<1>3. Live(sl) = {i \in Idx : IsLive(sl[i])}
  BY <1>2 DEF Live, IsLive
<1>4. Bad(sl) = {i \in Idx : sl[i].flags = "VALID" /\ ~sl[i].sum}
  BY <1>2 DEF Bad
<1>5. With(sl, {"INVALID"}) = {i \in Idx : sl[i].flags = "INVALID"}
  BY <1>2 DEF With
<1>6. ASSUME NEW k \in Keys
      PROVE  LiveOf(sl, k) = {i \in Idx : IsLive(sl[i]) /\ sl[i].key = k}
  BY <1>3 DEF LiveOf
<1>7. QED
  BY <1>2, <1>3, <1>4, <1>5, <1>6

\* The last good record of a key is the one it is looked up at.
LEMMA LookupIs ==
    ASSUME NEW sl \in [Idx -> Rec], NEW k \in Keys
    PROVE  /\ LiveOf(sl, k) = {} => Lookup(sl, k) = NoIdx /\ Contents(sl)[k] = NoVal
           /\ LiveOf(sl, k) # {} =>
                /\ Lookup(sl, k) \in LiveOf(sl, k) /\ Lookup(sl, k) \in Idx
                /\ Lookup(sl, k) # NoIdx
                /\ \A j \in LiveOf(sl, k) : j <= Lookup(sl, k)
                /\ Contents(sl)[k] = sl[Lookup(sl, k)].val
           /\ \A i \in LiveOf(sl, k) :
                (\A j \in LiveOf(sl, k) : j <= i) => Lookup(sl, k) = i
<1> DEFINE I == LiveOf(sl, k)
<1>1. I \in SUBSET Idx
  BY DEF LiveOf, Live, Scanned
<1>2. Contents(sl)[k] = ValueAt(sl, Lookup(sl, k))
  BY DEF Contents
<1>3. I = {} => Lookup(sl, k) = NoIdx /\ Contents(sl)[k] = NoVal
  BY <1>2 DEF Lookup, ValueAt
<1>4. ASSUME I # {}
      PROVE  Lookup(sl, k) \in I /\ \A j \in I : j <= Lookup(sl, k)
  <2>1. Lookup(sl, k) = Max(I)
    BY <1>4 DEF Lookup
  <2>2. QED
    BY <1>1, <1>4, <2>1, MaxOfIdx
<1> HIDE DEF I
<1>5. ASSUME I # {}
      PROVE  /\ Lookup(sl, k) \in Idx /\ Lookup(sl, k) # NoIdx
             /\ Contents(sl)[k] = sl[Lookup(sl, k)].val
  <2>1. Lookup(sl, k) \in Idx
    BY <1>1, <1>4, <1>5
  <2>2. Lookup(sl, k) # NoIdx
    BY <2>1, NAssumption DEF Idx, NoIdx
  <2>3. QED
    BY <1>2, <2>1, <2>2 DEF ValueAt
<1>6. ASSUME NEW i \in I, \A j \in I : j <= i PROVE Lookup(sl, k) = i
  <2>1. Lookup(sl, k) \in I /\ i <= Lookup(sl, k)
    BY <1>4
  <2>2. Lookup(sl, k) <= i
    BY <1>6, <2>1
  <2>3. I \subseteq Int
    BY <1>1, NAssumption DEF Idx
  <2>4. \A a \in Int, b \in Int : a <= b /\ b <= a => b = a
    OBVIOUS
  <2>5. QED
    BY <1>6, <2>1, <2>2, <2>3, <2>4
<1>7. QED
  BY <1>3, <1>4, <1>5, <1>6 DEF I

\* The value of a key depends on its good records alone.
LEMMA SameKey ==
    ASSUME NEW sl \in [Idx -> Rec], NEW sl2 \in [Idx -> Rec], NEW k \in Keys,
           LiveOf(sl2, k) = LiveOf(sl, k),
           \A i \in LiveOf(sl, k) : sl2[i].val = sl[i].val
    PROVE  Lookup(sl2, k) = Lookup(sl, k) /\ Contents(sl2)[k] = Contents(sl)[k]
<1>1. Lookup(sl2, k) = Lookup(sl, k)
  BY DEF Lookup
<1>2. CASE LiveOf(sl, k) = {}
  BY <1>1, <1>2, LookupIs
<1>3. CASE LiveOf(sl, k) # {}
  <2>1. Lookup(sl, k) \in LiveOf(sl, k) /\ Contents(sl)[k] = sl[Lookup(sl, k)].val
    BY <1>3, LookupIs
  <2>2. Contents(sl2)[k] = sl2[Lookup(sl2, k)].val
    BY <1>3, LookupIs
  <2>3. QED
    BY <1>1, <2>1, <2>2
<1>4. QED
  BY <1>2, <1>3

LEMMA SameMap ==
    ASSUME NEW sl, NEW sl2, \A k \in Keys : Contents(sl2)[k] = Contents(sl)[k]
    PROVE  Contents(sl2) = Contents(sl)
BY DEF Contents

\* Records that are not good come and go unnoticed.
LEMMA SameLive ==
    ASSUME NEW sl \in [Idx -> Rec], NEW sl2 \in [Idx -> Rec], Packed(sl), Packed(sl2),
           \A i \in Idx : sl2[i] = sl[i] \/ (~IsLive(sl[i]) /\ ~IsLive(sl2[i]))
    PROVE  /\ Live(sl2) = Live(sl) /\ Contents(sl2) = Contents(sl)
           /\ \A k \in Keys : LiveOf(sl2, k) = LiveOf(sl, k) /\ Lookup(sl2, k) = Lookup(sl, k)
<1>1. Live(sl2) = Live(sl)
  BY LiveIs
<1>2. ASSUME NEW k \in Keys
      PROVE  /\ LiveOf(sl2, k) = LiveOf(sl, k)
             /\ \A i \in LiveOf(sl, k) : sl2[i].val = sl[i].val
  <2>1. LiveOf(sl, k) = {i \in Idx : IsLive(sl[i]) /\ sl[i].key = k}
    BY LiveIs
  <2>2. LiveOf(sl2, k) = {i \in Idx : IsLive(sl2[i]) /\ sl2[i].key = k}
    BY LiveIs
  <2>3. QED
    BY <2>1, <2>2
<1>3. \A k \in Keys : Lookup(sl2, k) = Lookup(sl, k) /\ Contents(sl2)[k] = Contents(sl)[k]
  BY <1>2, SameKey
<1>4. QED
  BY <1>1, <1>2, <1>3, SameMap

\* A good record after all the others is the new value of its key.
LEMMA Appended ==
    ASSUME NEW sl \in [Idx -> Rec], NEW sl2 \in [Idx -> Rec], Packed(sl), Packed(sl2),
           NEW i \in Idx, ~IsLive(sl[i]), IsLive(sl2[i]),
           \A j \in Idx : j # i => sl2[j] = sl[j],
           \A j \in Idx : IsLive(sl[j]) => j < i
    PROVE  /\ Live(sl2) = Live(sl) \cup {i} /\ i \notin Live(sl)
           /\ \A k \in Keys :
                IF k = sl2[i].key
                THEN /\ LiveOf(sl2, k) = LiveOf(sl, k) \cup {i}
                     /\ Lookup(sl2, k) = i /\ Contents(sl2)[k] = sl2[i].val
                ELSE /\ LiveOf(sl2, k) = LiveOf(sl, k) /\ Lookup(sl2, k) = Lookup(sl, k)
                     /\ Contents(sl2)[k] = Contents(sl)[k]
<1>1. Live(sl2) = Live(sl) \cup {i} /\ i \notin Live(sl)
  BY LiveIs
<1>2. ASSUME NEW k \in Keys
      PROVE  /\ LiveOf(sl, k) = {j \in Idx : IsLive(sl[j]) /\ sl[j].key = k}
             /\ LiveOf(sl2, k) = {j \in Idx : IsLive(sl2[j]) /\ sl2[j].key = k}
  BY LiveIs
<1>3. ASSUME NEW k \in Keys, k = sl2[i].key
      PROVE  /\ LiveOf(sl2, k) = LiveOf(sl, k) \cup {i}
             /\ Lookup(sl2, k) = i /\ Contents(sl2)[k] = sl2[i].val
  <2>1. LiveOf(sl2, k) = LiveOf(sl, k) \cup {i}
    BY <1>2, <1>3
  <2>2. \A j \in LiveOf(sl2, k) : j <= i
    BY <1>2, <2>1, NAssumption DEF Idx
  <2>3. Lookup(sl2, k) = i
    BY <2>1, <2>2, LookupIs
  <2>4. QED
    BY <2>1, <2>3, LookupIs
<1>4. ASSUME NEW k \in Keys, k # sl2[i].key
      PROVE  /\ LiveOf(sl2, k) = LiveOf(sl, k) /\ Lookup(sl2, k) = Lookup(sl, k)
             /\ Contents(sl2)[k] = Contents(sl)[k]
  <2>1. ASSUME NEW j \in Idx
        PROVE  /\ IsLive(sl2[j]) /\ sl2[j].key = k <=> IsLive(sl[j]) /\ sl[j].key = k
               /\ IsLive(sl[j]) => sl2[j] = sl[j]
    BY <1>4
  <2>2. LiveOf(sl2, k) = LiveOf(sl, k) /\ \A j \in LiveOf(sl, k) : sl2[j].val = sl[j].val
    BY <1>2, <2>1
  <2>3. QED
    BY <2>2, SameKey
<1>5. QED
  BY <1>1, <1>3, <1>4

\* A good record that is marked leaves its sector.
LEMMA Dropped ==
    ASSUME NEW sl \in [Idx -> Rec], NEW sl2 \in [Idx -> Rec], Packed(sl), Packed(sl2),
           NEW i \in Idx, IsLive(sl[i]), ~IsLive(sl2[i]),
           \A j \in Idx : j # i => sl2[j] = sl[j]
    PROVE  /\ Live(sl2) = Live(sl) \ {i} /\ i \in Live(sl)
           /\ \A k \in Keys :
                /\ LiveOf(sl2, k) = LiveOf(sl, k) \ {i}
                /\ k # sl[i].key => i \notin LiveOf(sl, k)
                /\ i # Lookup(sl, k) => Lookup(sl2, k) = Lookup(sl, k)
                                        /\ Contents(sl2)[k] = Contents(sl)[k]
<1>1. Live(sl2) = Live(sl) \ {i} /\ i \in Live(sl)
  BY LiveIs
<1>2. ASSUME NEW k \in Keys
      PROVE  /\ LiveOf(sl, k) = {j \in Idx : IsLive(sl[j]) /\ sl[j].key = k}
             /\ LiveOf(sl2, k) = {j \in Idx : IsLive(sl2[j]) /\ sl2[j].key = k}
  BY LiveIs
<1>3. ASSUME NEW k \in Keys
      PROVE  LiveOf(sl2, k) = LiveOf(sl, k) \ {i} /\ (k # sl[i].key => i \notin LiveOf(sl, k))
  BY <1>2
<1>4. ASSUME NEW k \in Keys, i # Lookup(sl, k)
      PROVE  Lookup(sl2, k) = Lookup(sl, k) /\ Contents(sl2)[k] = Contents(sl)[k]
  <2>1. CASE LiveOf(sl, k) = {}
    <3>1. LiveOf(sl2, k) = {}
      BY <1>3, <2>1
    <3>2. QED
      BY <2>1, <3>1, LookupIs
  <2>2. CASE LiveOf(sl, k) # {}
    <3> DEFINE m == Lookup(sl, k)
    <3>1. /\ m \in LiveOf(sl, k) /\ m \in Idx
          /\ \A j \in LiveOf(sl, k) : j <= m
          /\ Contents(sl)[k] = sl[m].val
      BY <2>2, LookupIs
    <3>2. m \in LiveOf(sl2, k) /\ \A j \in LiveOf(sl2, k) : j <= m
      BY <1>3, <1>4, <3>1
    <3>3. Lookup(sl2, k) = m /\ Contents(sl2)[k] = sl2[m].val
      BY <3>2, LookupIs
    <3>4. QED
      BY <1>4, <3>1, <3>3
  <2>3. QED
    BY <2>1, <2>2
<1>5. QED
  BY <1>1, <1>3, <1>4

\* A sector with no good record holds nothing.
LEMMA BlankMap ==
    ASSUME NEW sl \in [Idx -> Rec], \A i \in Idx : ~IsLive(sl[i])
    PROVE  Contents(sl) = Nothing /\ \A k \in Keys : LiveOf(sl, k) = {}
<1>1. ASSUME NEW k \in Keys PROVE LiveOf(sl, k) = {} /\ Contents(sl)[k] = NoVal
  <2>1. LiveOf(sl, k) = {}
    BY DEF LiveOf, Live, Scanned, IsLive
  <2>2. QED
    BY <2>1, LookupIs
<1>2. Contents(sl) = Nothing
  BY <1>1 DEF Contents, Nothing
<1>3. QED
  BY <1>1, <1>2

-----------------------------------------------------------------------------
(***************************************************************************)
(* What the next load brings back.                                         *)
(***************************************************************************)
LEMMA StoreIs ==
    ASSUME NEW h \in [Sectors -> Hdr], NEW sl, HdrsOK(h), Twins(h, sl)
    PROVE  /\ Fresh(h) => Recovered(h, sl) = Nothing
           /\ \A s \in Sectors : h[s] = ValidHdr => Recovered(h, sl) = Contents(sl[s])
<1>0. /\ ErasedHdr.flags = "EMPTY" /\ InitHdr.flags = "INIT" /\ ValidHdr.flags = "VALID"
      /\ InitHdr.ver /\ ValidHdr.ver
      /\ \A s \in Sectors : h[s] \in {ErasedHdr, InitHdr, ValidHdr}
  BY DEF ErasedHdr, InitHdr, ValidHdr, HdrsOK
<1>1. Fresh(h) => Recovered(h, sl) = Nothing
  BY <1>0, ValidateEOK DEF Fresh, Recovered, Nothing, KnownFlags, Sectors
<1>2. ASSUME SomeValid(h)
      PROVE  \E u \in Sectors : h[u] = ValidHdr /\ Recovered(h, sl) = Contents(sl[u])
  <2>1. Validate(h) = "EOK"
    BY <1>0, <1>2, ValidateEOK DEF SomeValid, KnownFlags, Sectors
  <2>2. Recovered(h, sl) = Contents(sl[Plan(h).use])
    BY <2>1 DEF Recovered
  <2>3. Plan(h).use \in Sectors /\ h[Plan(h).use] = ValidHdr
    BY <1>0, <1>2 DEF SomeValid, Plan, Seen, Sectors
  <2>4. QED
    BY <2>2, <2>3
<1>3. ASSUME NEW s \in Sectors, h[s] = ValidHdr PROVE Recovered(h, sl) = Contents(sl[s])
  BY <1>2, <1>3 DEF SomeValid, Twins
<1>4. QED
  BY <1>1, <1>3

\* What the invariants of the other modules say of FLASH.
FlashOK ==
    /\ FlashTypes
    /\ \A s \in Sectors : Packed(slot[s])

LEMMA FlashIsOK ==
    /\ RecordsInv => FlashOK
    /\ RecordsInv' => FlashOK'
BY DEF RecordsInv, IndexInv, TypeOK, SlotInv, FlashOK, FlashTypes, Packed, Unused

\* The abstract map, now and after the step.
LEMMA StoreNow ==
    ASSUME RecordsInv, HdrsOK(hdr), Twins(hdr, slot)
    PROVE  /\ Fresh(hdr) => Store = Nothing
           /\ \A s \in Sectors : hdr[s] = ValidHdr => Store = Contents(slot[s])
<1>1. hdr \in [Sectors -> Hdr]
  BY DEF RecordsInv, IndexInv, TypeOK
<1>2. QED
  BY <1>1, StoreIs DEF Store

LEMMA StoreThen ==
    ASSUME RecordsInv', HdrsOK(hdr'), Twins(hdr', slot')
    PROVE  /\ Fresh(hdr') => Store' = Nothing
           /\ \A s \in Sectors : hdr'[s] = ValidHdr => Store' = Contents(slot'[s])
<1>1. hdr' \in [Sectors -> Hdr]
  BY DEF RecordsInv, IndexInv, TypeOK
<1>2. QED
  BY <1>1, StoreIs DEF Store

-----------------------------------------------------------------------------
(***************************************************************************)
(* How the steps map to the steps of a DurableMap.                         *)
(***************************************************************************)
MapKept == MapInv' /\ [Map!Next]_(Map!vars)

LEMMA MapStutters ==
    ASSUME Store' = Store, call' = call, ret' = ret, pc # "off", pc' # "off",
           pc \notin {"retire", "forget"}, pc' \notin {"retire", "forget"}
    PROVE  [Map!Next]_(Map!vars)
BY DEF Map!vars, Done

LEMMA MapApplies ==
    ASSUME call # NoCall, pc \notin {"off", "retire", "forget"}, pc' # "off",
           call' = call, ret' = ret, Store' = Map!Effect(call),
           pc' \in {"retire", "forget"} <=> call.op \in {"set", "delete"}
    PROVE  [Map!Next]_(Map!vars)
<1>1. Map!Apply
  BY DEF Map!Apply, Map!NoCall, NoCall, Done
<1>2. QED
  BY <1>1 DEF Map!Next

LEMMA MapReturns ==
    ASSUME call # NoCall, pc # "off", pc' = "idle", call' = NoCall, Store' = Store,
           \/ ret' = "EOK" /\ Store = Map!Effect(call)
           \/ ret' = "EFAIL" /\ call.op = "set" /\ pc \notin {"retire", "forget"}
    PROVE  [Map!Next]_(Map!vars)
<1>1. Map!Return
  BY DEF Map!Return, Map!NoCall, NoCall, Done
<1>2. QED
  BY <1>1 DEF Map!Next

LEMMA MapInvokes ==
    ASSUME pc \in {"off", "idle"}, call = NoCall, Store' = Store, ret' = "none",
           pc' \notin {"off", "retire", "forget"},
           \/ pc = "off" /\ call' = [NoCall EXCEPT !.op = "load"]
           \/ pc = "idle" /\ call' \in
                [op : {"set"}, key : Keys, val : Vals]
                \cup [op : {"delete"}, key : Keys, val : {NoVal}]
                \cup [op : {"repair", "reset", "wipe"}, key : {NoKey}, val : {NoVal}]
    PROVE  [Map!Next]_(Map!vars)
<1>1. Map!Invoke
  BY DEF Map!Invoke, Map!NoCall, NoCall, Done
<1>2. QED
  BY <1>1 DEF Map!Next

LEMMA MapLosesPower ==
    ASSUME pc # "off", PowerOff,
           Store' = Store \/ (pc \notin {"retire", "forget"} /\ Store' = Map!Effect(call))
    PROVE  [Map!Next]_(Map!vars)
<1>1. Map!PowerLoss
  BY DEF Map!PowerLoss, Map!NoCall, NoCall, Done, PowerOff
<1>2. QED
  BY <1>1 DEF Map!Next

\* The effect of each call.
LEMMA EffectIs ==
    /\ call.op = "set" => Map!Effect(call) = [Store EXCEPT ![call.key] = call.val]
    /\ call.op = "delete" => Map!Effect(call) = [Store EXCEPT ![call.key] = NoVal]
    /\ call.op \in {"reset", "wipe"} => Map!Effect(call) = Nothing
    /\ call.op \in {"load", "repair"} => Map!Effect(call) = Store
BY DEF Map!Effect, Map!Nothing, Nothing

-----------------------------------------------------------------------------
(***************************************************************************)
(* What keeps the parts of the invariant.                                  *)
(***************************************************************************)
\* No step but the write of a record makes a good one.
NoNewRecord ==
    \A s \in Sectors, i \in Idx : IsLive(slot'[s][i]) => slot'[s][i] = slot[s][i]

LEMMA SingleKept ==
    ASSUME FlashOK, FlashOK', SingleInv, pc # "retire" \/ Faults # {}, pc' # "retire", NoNewRecord
    PROVE  SingleInv'
<1>1. ASSUME NEW s \in Sectors, NEW k \in Keys
      PROVE  LiveOf(slot'[s], k) \subseteq LiveOf(slot[s], k)
  <2>1. LiveOf(slot[s], k) = {i \in Idx : IsLive(slot[s][i]) /\ slot[s][i].key = k}
    BY LiveIs DEF FlashOK, FlashTypes
  <2>2. LiveOf(slot'[s], k) = {i \in Idx : IsLive(slot'[s][i]) /\ slot'[s][i].key = k}
    BY LiveIs DEF FlashOK, FlashTypes
  <2>3. QED
    BY <2>1, <2>2 DEF NoNewRecord
<1>2. QED
  BY <1>1 DEF SingleInv

\* After a loss of power, or an unload, only FLASH matters.
LEMMA PowerOffMap ==
    ASSUME PowerOff, HdrsOK(hdr'), Twins(hdr', slot'), SingleInv'
    PROVE  MapInv'
BY DEF PowerOff, MapInv, WhereInv, NoCall, AloneInv, AlonePCs, FreshInv, TableInv, CountersInv,
       Loaded, LoadedPCs, MovedInv, SwappedInv

\* At a step of a load or a reset RAM does not matter yet.
LEMMA EarlyMap ==
    ASSUME HdrsOK(hdr'), Twins(hdr', slot'), SingleInv', FreshInv',
           call'.op \in {"load", "reset", "wipe"},
           pc' \in LoadPCs,
           pc' = "build" => hdr'[Dst'] = ErasedHdr,
           pc' = "reset1" => \E s \in Sectors : hdr'[s] = ErasedHdr
    PROVE  MapInv'
<1>1. ~Loaded'
  BY DEF Loaded, LoadedPCs, LoadPCs
<1>2. WhereInv' /\ AloneInv'
  BY DEF WhereInv, AloneInv, AlonePCs, LoadPCs
<1>3. TableInv' /\ CountersInv' /\ MovedInv' /\ SwappedInv'
  BY <1>1 DEF TableInv, CountersInv, MovedInv, SwappedInv, LoadPCs
<1>4. QED
  BY <1>2, <1>3 DEF MapInv

LEMMA FlashUntouched ==
    ASSUME FlashOK, UNCHANGED flash
    PROVE  /\ NoNewRecord /\ hdr' = hdr /\ slot' = slot
           /\ FlashOK' /\ Twins(hdr', slot') = Twins(hdr, slot)
BY DEF flash, NoNewRecord, FlashOK, FlashTypes

\* Erasing a sector, if the other one is a finished or an erased one.
LEMMA EraseIs ==
    ASSUME FlashOK, NEW s \in Sectors, Erased(s), HdrsOK(hdr), Twins(hdr, slot)
    PROVE  /\ hdr'[s] = ErasedHdr
           /\ \A u \in Sectors : u # s => hdr'[u] = hdr[u] /\ slot'[u] = slot[u]
           /\ Twins(hdr', slot') /\ NoNewRecord
           /\ hdr[Other(s)] # InitHdr => HdrsOK(hdr')
<1>1. /\ hdr'[s] = ErasedHdr /\ \A i \in Idx : slot'[s][i] = Blank
      /\ \A u \in Sectors : u # s => hdr'[u] = hdr[u] /\ slot'[u] = slot[u]
  BY DEF Erased, FlashOK, FlashTypes
<1>2. ErasedHdr # ValidHdr /\ ~IsLive(Blank)
  BY DEF ErasedHdr, ValidHdr, IsLive, Blank, Spoiled
<1>3. Twins(hdr', slot')
  BY <1>1, <1>2 DEF Twins
<1>4. NoNewRecord
  BY <1>1, <1>2 DEF NoNewRecord
<1>5. hdr[Other(s)] # InitHdr => HdrsOK(hdr')
  BY <1>1 DEF HdrsOK, Fresh, SomeValid, Sectors, Other
<1>6. QED
  BY <1>1, <1>3, <1>4, <1>5

\* construct_lookup_table changes nothing that counts, and makes RAM what the
\* sector says.
LEMMA ConstructMap ==
    ASSUME Benign, FlashOK, FlashOK', NEW s \in Sectors, Construct(s)
    PROVE  /\ hdr' = hdr /\ sector' = s /\ NoNewRecord
           /\ \A u \in Sectors : Contents(slot'[u]) = Contents(slot[u])
           /\ \A k \in Keys : idx'[k] = Lookup(slot'[s], k)
           /\ inuse' = Cardinality(Live(slot'[s]))
           /\ invalid' = Cardinality(With(slot'[s], {"INVALID"}))
<1> DEFINE sl == slot[s]
           sl2 == slot'[s]
<1>1. /\ MarkBad(s, Bad(sl)) /\ sector' = s
      /\ idx' = [k \in Keys |-> Lookup(sl, k)]
      /\ inuse' = Cardinality(Live(sl))
      /\ invalid' = Cardinality(With(sl, {"INVALID"})) + Cardinality(Bad(sl))
  <2>1. ~May("writeFail")
    BY DEF Benign, May
  <2>2. QED
    BY <2>1 DEF Construct
<1>2. /\ hdr' = hdr
      /\ \A u \in Sectors : u # s => slot'[u] = slot[u]
      /\ \A i \in Idx : sl2[i] = IF i \in Bad(sl) THEN Spoiled("INVALID") ELSE sl[i]
  BY <1>1 DEF MarkBad, FlashOK, FlashTypes
<1>3. /\ sl \in [Idx -> Rec] /\ sl2 \in [Idx -> Rec] /\ Packed(sl) /\ Packed(sl2)
  BY DEF FlashOK, FlashTypes
<1>4. /\ Bad(sl) = {i \in Idx : sl[i].flags = "VALID" /\ ~sl[i].sum}
      /\ With(sl, {"INVALID"}) = {i \in Idx : sl[i].flags = "INVALID"}
      /\ With(sl2, {"INVALID"}) = {i \in Idx : sl2[i].flags = "INVALID"}
  BY <1>3, LiveIs
<1>5. Spoiled("INVALID").flags = "INVALID" /\ ~IsLive(Spoiled("INVALID"))
  BY DEF Spoiled, IsLive
<1> HIDE DEF sl, sl2
<1>6. \A i \in Idx : sl2[i] = sl[i] \/ (~IsLive(sl[i]) /\ ~IsLive(sl2[i]))
  BY <1>2, <1>4, <1>5 DEF IsLive
<1>7. /\ Live(sl2) = Live(sl) /\ Contents(sl2) = Contents(sl)
      /\ \A k \in Keys : Lookup(sl2, k) = Lookup(sl, k)
  BY <1>3, <1>6, SameLive
<1>8. invalid' = Cardinality(With(sl2, {"INVALID"}))
  <2>1. With(sl2, {"INVALID"}) = With(sl, {"INVALID"}) \cup Bad(sl)
    BY <1>2, <1>4, <1>5
  <2>2. With(sl, {"INVALID"}) \cap Bad(sl) = {}
    BY <1>4
  <2>3. /\ IsFiniteSet(With(sl, {"INVALID"})) /\ IsFiniteSet(Bad(sl))
        /\ Cardinality(With(sl, {"INVALID"})) \in Nat /\ Cardinality(Bad(sl)) \in Nat
    BY <1>4, IdxFinite
  <2>4. Cardinality(With(sl2, {"INVALID"}))
            = Cardinality(With(sl, {"INVALID"})) + Cardinality(Bad(sl)) - Cardinality({})
    BY <2>1, <2>2, <2>3, FS_Union
  <2>5. QED
    BY <1>1, <2>3, <2>4, FS_EmptySet DEF sl
<1>9. NoNewRecord
  BY <1>2, <1>6 DEF NoNewRecord, sl, sl2
<1>10. \A u \in Sectors : Contents(slot'[u]) = Contents(slot[u])
  BY <1>2, <1>7 DEF sl, sl2
<1>11. QED
  BY <1>1, <1>2, <1>7, <1>8, <1>9, <1>10 DEF sl, sl2

-----------------------------------------------------------------------------
(***************************************************************************)
(* The steps of a load or a reset.                                         *)
(***************************************************************************)
\* What is known of every step.
Given == Benign /\ RecordsInv /\ HdrInv /\ MapInv /\ RecordsInv'

LEMMA GivenIs ==
    ASSUME Given
    PROVE  /\ FlashOK /\ FlashOK' /\ HdrsOK(hdr) /\ Twins(hdr, slot)
           /\ sector \in Sectors /\ Dst \in Sectors /\ Dst # sector /\ Other(Dst) = sector
           /\ call \in Calls /\ IndexInv /\ LoadedInv /\ CallInv /\ HdrInv
           /\ WhereInv /\ AloneInv /\ FreshInv /\ TableInv /\ CountersInv /\ SingleInv
           /\ MovedInv /\ SwappedInv
           /\ "eraseFail" \notin Faults /\ "headerFail" \notin Faults /\ "writeFail" \notin Faults
           /\ WritesWork
           /\ ErasedHdr # ValidHdr /\ ErasedHdr # InitHdr /\ InitHdr # ValidHdr
<1>1. FlashOK /\ FlashOK'
  BY FlashIsOK DEF Given
<1>2. sector \in Sectors /\ call \in Calls /\ IndexInv
  BY DEF Given, RecordsInv, IndexInv, TypeOK
<1>3. Dst \in Sectors /\ Dst # sector /\ Other(Dst) = sector
  BY <1>2 DEF Sectors, Dst, Other
<1>4. ErasedHdr # ValidHdr /\ ErasedHdr # InitHdr /\ InitHdr # ValidHdr
  BY DEF ErasedHdr, ValidHdr, InitHdr
<1>5. QED
  BY <1>1, <1>2, <1>3, <1>4 DEF Given, RecordsInv, MapInv, Benign, WritesWork

LEMMA ResetErase1Map ==
    ASSUME Given, ResetErase1
    PROVE  MapKept
<1>0. /\ pc = "reset1" /\ pc' = "reset2" /\ call' = call /\ ret' = ret /\ Erased(1)
      /\ 1 \in Sectors /\ 2 \in Sectors /\ Other(1) = 2 /\ call.op \in LoadOps /\ call # NoCall
      /\ RecordsInv /\ RecordsInv'
  BY GivenIs DEF ResetErase1, TryErase, May, Goto, Sectors, Other, CallInv, LoadOps, NoCall, Given
<1>1. /\ hdr'[1] = ErasedHdr /\ hdr'[2] = hdr[2] /\ slot'[2] = slot[2]
      /\ Twins(hdr', slot') /\ NoNewRecord
      /\ hdr[2] # InitHdr => HdrsOK(hdr')
  BY <1>0, GivenIs, EraseIs
<1>2. hdr[1] = ErasedHdr \/ hdr[2] = ErasedHdr
  BY <1>0, GivenIs DEF AloneInv, Sectors
<1>3. HdrsOK(hdr')
  <2>1. hdr[2] # InitHdr
    BY <1>2, GivenIs DEF HdrsOK, Fresh, SomeValid, Sectors
  <2>2. QED
    BY <1>1, <2>1
<1>4. SingleInv'
  BY <1>0, <1>1, GivenIs, SingleKept
<1>5. FreshInv'
  <2>1. Fresh(hdr) => Fresh(hdr')
    BY <1>1 DEF Fresh, Sectors
  <2>2. QED
    BY <1>0, <2>1, GivenIs DEF FreshInv
<1>6. MapInv'
  BY <1>0, <1>1, <1>3, <1>4, <1>5, EarlyMap DEF LoadPCs, LoadOps
<1>7. /\ Fresh(hdr) => Store = Nothing
      /\ hdr[2] = ValidHdr => Store = Contents(slot[2])
      /\ Fresh(hdr') => Store' = Nothing
      /\ hdr[2] = ValidHdr => Store' = Contents(slot[2])
  BY <1>0, <1>1, <1>3, GivenIs, StoreNow, StoreThen
<1>8. Fresh(hdr') \/ hdr[2] = ValidHdr
  BY <1>1, <1>3, GivenIs DEF HdrsOK, Fresh, SomeValid, Sectors
<1>9. CASE Store' = Store
  BY <1>0, <1>6, <1>9, MapStutters DEF MapKept
<1>10. CASE Store' # Store
  <2>1. Store' = Nothing /\ call.op # "load"
    BY <1>0, <1>7, <1>8, <1>10, GivenIs DEF FreshInv
  <2>2. Store' = Map!Effect(call)
    BY <1>0, <2>1, EffectIs DEF LoadOps
  <2>3. QED
    BY <1>0, <1>6, <2>2, MapApplies DEF MapKept, LoadOps
<1>11. QED
  BY <1>9, <1>10

LEMMA ResetErase2Map ==
    ASSUME Given, ResetErase2
    PROVE  MapKept
<1>0. /\ pc = "reset2" /\ Erased(2)
      /\ 1 \in Sectors /\ 2 \in Sectors /\ Other(2) = 1 /\ call.op \in LoadOps /\ call # NoCall
      /\ RecordsInv /\ RecordsInv'
      /\ \/ call.op = "wipe" /\ PowerOff
         \/ call.op # "wipe" /\ pc' = "scrub1" /\ call' = call /\ ret' = ret
  BY GivenIs DEF ResetErase2, TryErase, May, Goto, Sectors, Other, CallInv, LoadOps, NoCall, Given
<1>1. /\ hdr'[2] = ErasedHdr /\ hdr'[1] = hdr[1]
      /\ Twins(hdr', slot') /\ NoNewRecord
      /\ hdr[1] # InitHdr => HdrsOK(hdr')
  BY <1>0, GivenIs, EraseIs
<1>2. hdr[1] = ErasedHdr
  BY <1>0, GivenIs DEF HdrInv, LoadInv, HdrsOK, Sectors, InitHdr, ValidHdr
<1>3. HdrsOK(hdr') /\ Fresh(hdr')
  BY <1>1, <1>2, GivenIs DEF Fresh, Sectors
<1>4. SingleInv'
  BY <1>0, <1>1, GivenIs, SingleKept DEF PowerOff
<1>5. Store' = Nothing /\ (Fresh(hdr) => Store = Nothing)
  BY <1>0, <1>1, <1>3, GivenIs, StoreNow, StoreThen
<1>6. CASE call.op = "wipe"
  <2>1. Store' = Map!Effect(call)
    BY <1>5, <1>6, EffectIs
  <2>2. QED
    BY <1>0, <1>1, <1>3, <1>4, <1>6, <2>1, PowerOffMap, MapLosesPower DEF MapKept
<1>7. CASE call.op # "wipe"
  <2>1. MapInv'
    <3>1. FreshInv'
      BY <1>0, <1>3, <1>7 DEF FreshInv
    <3>2. QED
      BY <1>0, <1>1, <1>3, <1>4, <1>7, <3>1, EarlyMap DEF LoadPCs, LoadOps
  <2>2. CASE Store' = Store
    BY <1>0, <1>7, <2>1, <2>2, MapStutters DEF MapKept
  <2>3. CASE Store' # Store
    <3>1. call.op = "reset"
      BY <1>0, <1>5, <1>7, <2>3, GivenIs DEF FreshInv, LoadOps
    <3>2. Store' = Map!Effect(call)
      BY <1>5, <3>1, EffectIs
    <3>3. QED
      BY <1>0, <1>7, <2>1, <3>1, <3>2, MapApplies DEF MapKept
  <2>4. QED
    BY <2>2, <2>3
<1>8. QED
  BY <1>6, <1>7

\* A step of a load that leaves FLASH alone.
LEMMA LoadGoesOn ==
    ASSUME Given, UNCHANGED flash, pc \in LoadPCs, call' = call, ret' = ret,
           pc' \in LoadPCs \ {"reset1", "reset2"}, FreshInv', pc' = "build" => hdr'[Dst'] = ErasedHdr
    PROVE  MapKept
<1>1. /\ NoNewRecord /\ hdr' = hdr /\ slot' = slot
      /\ HdrsOK(hdr') /\ Twins(hdr', slot')
  BY GivenIs, FlashUntouched
<1>2. SingleInv'
  BY <1>1, GivenIs, SingleKept DEF LoadPCs
<1>3. call.op \in LoadOps
  BY GivenIs DEF HdrInv, LoadInv
<1>4. MapInv'
  BY <1>1, <1>2, <1>3, EarlyMap DEF LoadOps
<1>5. Store' = Store
  BY <1>1 DEF Store
<1>6. QED
  BY <1>4, <1>5, MapStutters DEF MapKept, LoadPCs

LEMMA ScrubMap ==
    ASSUME Given, Scrub1 \/ Scrub2
    PROVE  MapKept
<1>1. \A s \in Sectors : hdr[s].flags # "GARBAGE"
  BY GivenIs DEF HdrsOK, ErasedHdr, InitHdr, ValidHdr
<1>2. /\ UNCHANGED flash /\ call' = call /\ ret' = ret
      /\ pc \in {"scrub1", "scrub2"} /\ pc' \in {"scrub2", "plan"}
  BY <1>1 DEF Scrub1, Scrub2, Scrub, Goto, Sectors
<1>3. FreshInv'
  BY <1>2, GivenIs DEF FreshInv, flash
<1>4. QED
  BY <1>2, <1>3, LoadGoesOn DEF LoadPCs

LEMMA PlanMap ==
    ASSUME Given, PlanStep
    PROVE  MapKept
<1>0. /\ UNCHANGED flash /\ call' = call /\ ret' = ret /\ pc = "plan" /\ sector' = Plan(hdr).use
      /\ hdr' = hdr
      /\ \/ Plan(hdr).act = "format"     /\ pc' = "formatErase"
         \/ Plan(hdr).act = "eraseOther" /\ pc' = "dropOther"
         \/ Plan(hdr).act = "repair"     /\ pc' = "moveErase"
         \/ Plan(hdr).act = "none"       /\ pc' = "build"
  BY DEF PlanStep, Goto, flash
<1>1. /\ Fresh(hdr) \/ SomeValid(hdr)
      /\ \A s \in Sectors : hdr[s] \in {ErasedHdr, InitHdr, ValidHdr}
      /\ ErasedHdr.flags = "EMPTY" /\ InitHdr.flags = "INIT" /\ ValidHdr.flags = "VALID"
  BY GivenIs DEF HdrsOK, ErasedHdr, InitHdr, ValidHdr
<1>2. Fresh(hdr) => Plan(hdr) = [use |-> 1, act |-> "format"]
  BY <1>1 DEF Plan, Seen, Fresh, Sectors
<1>3. SomeValid(hdr) =>
        \/ Plan(hdr).act = "eraseOther"
        \/ Plan(hdr).act = "none" /\ Plan(hdr).use = 2 /\ hdr[1] = ErasedHdr
  BY <1>1 DEF Plan, Seen, SomeValid, Sectors
<1>4. FreshInv'
  BY <1>0, <1>1, <1>2, <1>3, GivenIs DEF FreshInv
<1>5. pc' = "build" => hdr'[Dst'] = ErasedHdr
  BY <1>0, <1>1, <1>2, <1>3 DEF Dst, Other
<1>6. QED
  BY <1>0, <1>1, <1>2, <1>3, <1>4, <1>5, LoadGoesOn DEF LoadPCs

LEMMA FormatEraseMap ==
    ASSUME Given, FormatErase
    PROVE  MapKept
<1>0. /\ pc = "formatErase" /\ pc' = "formatValid" /\ call' = call /\ ret' = ret /\ Erased(sector)
      /\ Fresh(hdr) /\ RecordsInv /\ RecordsInv' /\ call.op \in LoadOps
  BY GivenIs DEF FormatErase, TryErase, May, Goto, FreshInv, Given, HdrInv, LoadInv, LoadPCs
<1>1. /\ hdr'[sector] = ErasedHdr /\ \A u \in Sectors : u # sector => hdr'[u] = hdr[u]
      /\ Twins(hdr', slot') /\ NoNewRecord
  BY <1>0, GivenIs, EraseIs
<1>2. Fresh(hdr') /\ HdrsOK(hdr')
  BY <1>0, <1>1 DEF Fresh, HdrsOK
<1>3. SingleInv'
  BY <1>0, <1>1, GivenIs, SingleKept
<1>4. FreshInv'
  BY <1>0, <1>2 DEF FreshInv
<1>5. MapInv'
  BY <1>0, <1>1, <1>2, <1>3, <1>4, EarlyMap DEF LoadPCs, LoadOps
<1>6. Store' = Store
  BY <1>0, <1>1, <1>2, GivenIs, StoreNow, StoreThen
<1>7. QED
  BY <1>0, <1>5, <1>6, MapStutters DEF MapKept

LEMMA FormatValidMap ==
    ASSUME Given, FormatValid
    PROVE  MapKept
<1>0. /\ pc = "formatValid" /\ pc' = "build" /\ call' = call /\ ret' = ret
      /\ Fresh(hdr) /\ RecordsInv /\ RecordsInv' /\ call.op \in LoadOps
      /\ sector = 1 /\ sector' = 1 /\ Dst' = 2 /\ slot' = slot
      /\ hdr' = [hdr EXCEPT ![1] = ProgramHdr(hdr[1], "VALID")]
  BY GivenIs DEF FormatValid, TrySetHdr, May, Goto, FreshInv, Given, HdrInv, LoadInv, LoadPCs,
                 ram, Dst, Other
<1>1. hdr[1] = ErasedHdr /\ hdr[2] = ErasedHdr
  BY <1>0 DEF Fresh, Sectors
<1>2. ProgramHdr(hdr[1], "VALID") = ValidHdr
  BY <1>1 DEF ProgramHdr, ErasedHdr, ValidHdr
<1>3. hdr'[1] = ValidHdr /\ hdr'[2] = ErasedHdr
  BY <1>0, <1>1, <1>2, GivenIs DEF FlashOK, FlashTypes, Sectors
<1>4. HdrsOK(hdr') /\ Twins(hdr', slot')
  BY <1>3, GivenIs DEF HdrsOK, SomeValid, Twins, Sectors
<1>5. Contents(slot[1]) = Nothing
  <2>1. \A i \in Idx : ~IsLive(slot[1][i])
    BY <1>0, <1>1 DEF RecordsInv, SlotInv, Unused, ErasedHdr, Sectors, IsLive
  <2>2. QED
    BY <2>1, BlankMap, GivenIs DEF FlashOK, FlashTypes, Sectors
<1>6. NoNewRecord
  BY <1>0 DEF NoNewRecord
<1>7. SingleInv'
  BY <1>0, <1>6, GivenIs, SingleKept
<1>8. FreshInv'
  BY <1>0, <1>5 DEF FreshInv
<1>9. MapInv'
  BY <1>0, <1>3, <1>4, <1>7, <1>8, EarlyMap DEF LoadPCs, LoadOps
<1>10. Store' = Store
  BY <1>0, <1>3, <1>4, <1>5, GivenIs, StoreNow, StoreThen DEF Sectors
<1>11. QED
  BY <1>0, <1>9, <1>10, MapStutters DEF MapKept

LEMMA DropOtherMap ==
    ASSUME Given, DropOther
    PROVE  MapKept
<1>0. /\ pc = "dropOther" /\ pc' = "build" /\ call' = call /\ ret' = ret /\ Erased(Dst)
      /\ RecordsInv /\ RecordsInv' /\ call.op \in LoadOps /\ hdr[sector] = ValidHdr
      /\ sector' = sector /\ Dst' = Dst
  BY GivenIs DEF DropOther, TryErase, May, Goto, Given, HdrInv, LoadInv, LoadPCs, UseInv, UsePCs,
                 ram, Dst
<1>1. /\ hdr'[Dst] = ErasedHdr /\ hdr'[sector] = ValidHdr /\ slot'[sector] = slot[sector]
      /\ Twins(hdr', slot') /\ NoNewRecord /\ HdrsOK(hdr')
  BY <1>0, GivenIs, EraseIs
<1>2. SingleInv'
  BY <1>0, <1>1, GivenIs, SingleKept
<1>3. call.op # "reset"
  BY <1>0, GivenIs DEF FreshInv, Fresh
<1>4. FreshInv'
  BY <1>0, <1>3 DEF FreshInv
<1>5. MapInv'
  BY <1>0, <1>1, <1>2, <1>4, EarlyMap DEF LoadPCs, LoadOps
<1>6. Store' = Store
  BY <1>0, <1>1, GivenIs, StoreNow, StoreThen
<1>7. QED
  BY <1>0, <1>5, <1>6, MapStutters DEF MapKept

LEMMA BuildMap ==
    ASSUME Given, Build
    PROVE  MapKept
<1>0. /\ pc = "build" /\ pc' = "idle" /\ call' = NoCall /\ Construct(sector)
      /\ RecordsInv /\ RecordsInv' /\ call.op \in {"load", "reset"} /\ call # NoCall
      /\ hdr[sector] = ValidHdr /\ hdr[Dst] = ErasedHdr
      /\ ret' = IF hdr[sector].ver THEN "EOK" ELSE "E_VERSION"
  BY GivenIs DEF Build, Return, Given, HdrInv, UseInv, UsePCs, AloneInv, AlonePCs, CallInv,
                 LoadPCs, NoCall
<1>1. ret' = "EOK"
  BY <1>0 DEF ValidHdr
<1>2. /\ hdr' = hdr /\ sector' = sector /\ NoNewRecord
      /\ \A u \in Sectors : Contents(slot'[u]) = Contents(slot[u])
      /\ \A k \in Keys : idx'[k] = Lookup(slot'[sector], k)
      /\ inuse' = Cardinality(Live(slot'[sector]))
      /\ invalid' = Cardinality(With(slot'[sector], {"INVALID"}))
  BY <1>0, GivenIs, ConstructMap DEF Given
<1>3. HdrsOK(hdr') /\ Twins(hdr', slot')
  BY <1>2, GivenIs DEF Twins
<1>4. SingleInv'
  BY <1>0, <1>2, GivenIs, SingleKept
<1>5. TableInv' /\ CountersInv'
  <2>1. TableInv'
    BY <1>0, <1>2 DEF TableInv
  <2>2. inuse' \in Int /\ invalid' \in Int
    BY DEF Given, RecordsInv, IndexInv, TypeOK
  <2>3. CountersInv'
    BY <1>0, <1>2, <2>2 DEF CountersInv
  <2>4. QED
    BY <2>1, <2>3
<1>6. MapInv'
  BY <1>0, <1>2, <1>3, <1>4, <1>5
     DEF MapInv, WhereInv, NoCall, AloneInv, FreshInv, MovedInv, SwappedInv, Dst
<1>7. Store = Contents(slot[sector]) /\ Store' = Store
  BY <1>0, <1>2, <1>3, GivenIs, StoreNow, StoreThen
<1>8. Store = Map!Effect(call)
  BY <1>0, <1>7, GivenIs, EffectIs DEF FreshInv
<1>9. QED
  BY <1>0, <1>1, <1>6, <1>7, <1>8, MapReturns DEF MapKept

LEMMA LoadStepMap ==
    ASSUME Given, LoadStep
    PROVE  MapKept
BY ResetErase1Map, ResetErase2Map, ScrubMap, PlanMap, FormatEraseMap, FormatValidMap,
   DropOtherMap, BuildMap DEF LoadStep

-----------------------------------------------------------------------------
(***************************************************************************)
(* The steps of move_sector and swap_sectors.                              *)
(***************************************************************************)
\* Places where no key is exempt from what TableInv says.
PlainPCs == {"idle", "swapErase", "swapInit", "eraseSource", "write", "commit", "remove",
             "moveErase", "moveInit", "moveCopy"}

LEMMA TableCarried ==
    ASSUME TableInv, CountersInv, Loaded, pc \in PlainPCs, pc' \in PlainPCs, UNCHANGED ram,
           \A k \in Keys : Lookup(slot'[sector], k) = Lookup(slot[sector], k),
           Live(slot'[sector]) = Live(slot[sector]),
           With(slot'[sector], {"INVALID"}) = With(slot[sector], {"INVALID"})
    PROVE  TableInv' /\ CountersInv'
<1>1. TableInv'
  BY DEF TableInv, PlainPCs, ram
<1>2. CountersInv'
  BY DEF CountersInv, PlainPCs, ram
<1>3. QED
  BY <1>1, <1>2

\* The sector in use is a finished one as long as a call runs on a loaded volume.
LEMMA InUse ==
    ASSUME Given, pc \in UsePCs \cup MovePCs
    PROVE  hdr[sector] = ValidHdr
BY GivenIs DEF HdrInv, UseInv, WhereInv, LoadOps, MovePCs

\* The sector in use and its header stay as they are.
LEMMA StoreStays ==
    ASSUME Given, pc \in UsePCs \cup MovePCs, HdrsOK(hdr'), Twins(hdr', slot'),
           hdr'[sector] = hdr[sector], Contents(slot'[sector]) = Contents(slot[sector])
    PROVE  Store' = Store /\ Store = Contents(slot[sector])
BY GivenIs, InUse, StoreNow, StoreThen DEF Given

\* The header of the other sector is written.
LEMMA HeaderMap ==
    ASSUME Given, pc \in UsePCs \cup MovePCs, pc # "retire", pc' # "retire",
           NEW h \in {InitHdr, ValidHdr}, hdr' = [hdr EXCEPT ![Dst] = h], slot' = slot,
           h = ValidHdr => Contents(slot[Dst]) = Contents(slot[sector])
    PROVE  /\ HdrsOK(hdr') /\ Twins(hdr', slot') /\ SingleInv' /\ Store' = Store
           /\ hdr'[Dst] = h /\ hdr'[sector] = ValidHdr
<1>1. hdr'[Dst] = h /\ hdr'[sector] = ValidHdr
  BY GivenIs, InUse DEF FlashOK, FlashTypes
<1>2. \A s \in Sectors : s = sector \/ s = Dst
  BY GivenIs DEF Sectors, Dst, Other
<1>3. HdrsOK(hdr')
  BY <1>1, <1>2, GivenIs DEF HdrsOK, SomeValid
<1>4. Twins(hdr', slot')
  BY <1>1, <1>2, GivenIs DEF Twins
<1>5. NoNewRecord
  BY DEF NoNewRecord
<1>6. SingleInv'
  BY <1>5, GivenIs, SingleKept
<1>7. Store' = Store
  BY <1>1, <1>3, <1>4, InUse, StoreStays
<1>8. QED
  BY <1>1, <1>3, <1>4, <1>6, <1>7

LEMMA MoveEraseMap ==
    ASSUME Given, MoveErase
    PROVE  MapKept
<1>0. /\ pc = "moveErase" /\ pc' = "moveInit" /\ call' = call /\ ret' = ret
      /\ hdr[Dst] = ErasedHdr /\ UNCHANGED flash /\ UNCHANGED ram /\ Dst' = Dst
      /\ sector' = sector /\ call.op = "repair" /\ call # NoCall
  BY GivenIs DEF MoveErase, NeedsErase, May, Goto, AloneInv, AlonePCs, ErasedHdr, ram, Dst,
                 WhereInv, NoCall
<1>1. /\ NoNewRecord /\ hdr' = hdr /\ slot' = slot /\ HdrsOK(hdr') /\ Twins(hdr', slot')
  BY <1>0, GivenIs, FlashUntouched
<1>2. SingleInv'
  BY <1>0, <1>1, GivenIs, SingleKept
<1>3. TableInv' /\ CountersInv'
  BY <1>0, <1>1, GivenIs, TableCarried DEF Loaded, PlainPCs
<1>4. MapInv'
  BY <1>0, <1>1, <1>2, <1>3
     DEF MapInv, WhereInv, AloneInv, FreshInv, MovedInv, SwappedInv
<1>5. Store' = Store
  BY <1>1 DEF Store
<1>6. QED
  BY <1>0, <1>4, <1>5, MapStutters DEF MapKept

LEMMA MoveInitMap ==
    ASSUME Given, MoveInit
    PROVE  MapKept
<1>0. /\ pc = "moveInit" /\ pc' = "moveCopy" /\ call' = call /\ ret' = ret
      /\ hdr[Dst] = ErasedHdr /\ slot' = slot /\ UNCHANGED ram /\ Dst' = Dst /\ src_i' = 0
      /\ sector' = sector /\ call.op = "repair" /\ call # NoCall /\ pc \in MovePCs
      /\ hdr' = [hdr EXCEPT ![Dst] = ProgramHdr(hdr[Dst], "INIT")]
      /\ RecordsInv
  BY GivenIs DEF MoveInit, May, AloneInv, AlonePCs, ram, Dst, WhereInv, MovePCs, NoCall, Given
<1>1. ProgramHdr(hdr[Dst], "INIT") = InitHdr
  BY <1>0 DEF ProgramHdr, ErasedHdr, InitHdr
<1>2. HdrsOK(hdr') /\ Twins(hdr', slot') /\ SingleInv' /\ Store' = Store
  BY <1>0, <1>1, GivenIs, HeaderMap
<1>3. TableInv' /\ CountersInv'
  BY <1>0, GivenIs, TableCarried DEF Loaded, PlainPCs
<1>4. MovedInv'
  <2>1. \A k \in Keys : LiveOf(slot[Dst], k) = {}
    <3>1. \A i \in Idx : ~IsLive(slot[Dst][i])
      BY <1>0, GivenIs DEF RecordsInv, SlotInv, Unused, ErasedHdr, IsLive
    <3>2. QED
      BY <3>1, BlankMap, GivenIs DEF FlashOK, FlashTypes
  <2>2. \A k \in Keys : Passed(k)' = {}
    BY <1>0, NAssumption DEF Passed, LiveOf, Live, Scanned, Idx
  <2>3. QED
    BY <1>0, <2>1, <2>2 DEF MovedInv
<1>5. MapInv'
  BY <1>0, <1>2, <1>3, <1>4
     DEF MapInv, WhereInv, AloneInv, AlonePCs, FreshInv, SwappedInv
<1>6. QED
  BY <1>0, <1>2, <1>5, MapStutters DEF MapKept

\* The next record is in the copy, and it is the value of its key there.
LEMMA MoveCopyMap ==
    ASSUME Given, MoveCopy
    PROVE  MapKept
<1> DEFINE i == Min(MoveLeft)
           r == slot[sector][i]
<1>0. /\ pc = "moveCopy" /\ pc' = "moveCopy" /\ call' = call /\ ret' = ret /\ MoveLeft # {}
      /\ UNCHANGED ram /\ Dst' = Dst /\ sector' = sector /\ src_i' = i + 1
      /\ call.op = "repair" /\ call # NoCall /\ pc \in MovePCs
      /\ SetSlot(Dst, dst_i, Program(slot[Dst][dst_i], r))
      /\ RecordsInv /\ src_i \in Nat
  BY GivenIs DEF MoveCopy, May, ram, Dst, WhereInv, MovePCs, NoCall, Given, IndexInv, TypeOK
<1>1. /\ i \in Idx /\ IsLive(r) /\ i >= src_i /\ i \in Live(slot[sector])
      /\ \A j \in Live(slot[sector]) : j >= src_i => i <= j
  <2>1. MoveLeft \in SUBSET Nat /\ MoveLeft \in SUBSET Idx
    BY NAssumption DEF MoveLeft, Live, Scanned, Idx
  <2>2. i \in MoveLeft /\ \A j \in MoveLeft : i <= j
    BY <1>0, <2>1, MinOfNat
  <2>3. QED
    BY <2>1, <2>2 DEF MoveLeft, Live, IsLive
<1> HIDE DEF i
<1>2. /\ dst_i \in Idx /\ FilledTo(Dst, dst_i) /\ r \in Rec
      /\ slot[Dst][dst_i] \in Rec /\ slot[Dst][dst_i].flags = "EMPTY"
  <2>1. dst_i \in Idx
    BY <1>0, GivenIs, IndexesInSector DEF IndexChecksHold
  <2>2. FilledTo(Dst, dst_i)
    BY <1>0 DEF RecordsInv, HeadersInv
  <2>3. QED
    BY <1>1, <2>1, <2>2, GivenIs, NAssumption DEF FilledTo, Unused, FlashOK, FlashTypes, Idx
<1>3. SetSlot(Dst, dst_i, r)
  BY <1>0, <1>2, ProgramUnused
<1>4. /\ hdr' = hdr /\ slot'[Dst][dst_i] = r /\ slot'[sector] = slot[sector]
      /\ \A j \in Idx : j # dst_i => slot'[Dst][j] = slot[Dst][j]
  <2>1. /\ hdr' = hdr /\ slot'[Dst][dst_i] = r
        /\ \A j \in Idx : j # dst_i => slot'[Dst][j] = slot[Dst][j]
    BY <1>2, <1>3, GivenIs, SetSlotIs DEF FlashOK
  <2>2. slot'[sector] = slot[sector]
    BY <1>3, GivenIs DEF SetSlot, FlashOK, FlashTypes
  <2>3. QED
    BY <2>1, <2>2
<1> DEFINE d == slot[Dst]
           d2 == slot'[Dst]
           a == slot[sector]
<1>5. /\ \A k \in Keys :
           IF k = r.key
           THEN /\ LiveOf(d2, k) = LiveOf(d, k) \cup {dst_i}
                /\ Contents(d2)[k] = r.val
           ELSE LiveOf(d2, k) = LiveOf(d, k) /\ Contents(d2)[k] = Contents(d)[k]
  <2>1. d \in [Idx -> Rec] /\ d2 \in [Idx -> Rec] /\ Packed(d) /\ Packed(d2)
    BY GivenIs, <1>0 DEF FlashOK, FlashTypes
  <2>2. /\ ~IsLive(d[dst_i]) /\ IsLive(d2[dst_i])
        /\ \A j \in Idx : j # dst_i => d2[j] = d[j]
    BY <1>1, <1>2, <1>4 DEF IsLive
  <2>3. ASSUME NEW j \in Idx, IsLive(d[j]) PROVE j < dst_i
    <3>1. ~(j >= dst_i)
      BY <1>2, <2>3 DEF FilledTo, Unused, IsLive
    <3>2. QED
      BY <3>1, <1>2, NAssumption DEF Idx
  <2> HIDE DEF d, d2
  <2>4. d2[dst_i] = r
    BY <1>4 DEF d2
  <2> HIDE DEF r
  <2>5. QED
    BY <1>2, <2>1, <2>2, <2>3, <2>4, Appended
<1>6. HdrsOK(hdr') /\ Twins(hdr', slot')
  <2>1. hdr[Dst] = InitHdr
    BY <1>0, GivenIs DEF HdrInv, CopyInv
  <2>2. \A s \in Sectors : s = sector \/ s = Dst
    BY GivenIs DEF Sectors, Dst, Other
  <2>3. QED
    BY <1>4, <2>1, <2>2, GivenIs DEF Twins
<1>7. ASSUME NEW k \in Keys
      PROVE  /\ LiveOf(a, k) = {j \in Idx : IsLive(a[j]) /\ a[j].key = k}
             /\ LiveOf(a, k) \subseteq Live(a) /\ LiveOf(a, k) \subseteq Int
             /\ Passed(k) = {j \in LiveOf(a, k) : j < src_i}
             /\ Passed(k)' = {j \in LiveOf(a, k) : j < i + 1}
  <2>1. /\ LiveOf(a, k) = {j \in Idx : IsLive(a[j]) /\ a[j].key = k}
        /\ LiveOf(a, k) \subseteq Live(a)
    BY GivenIs, LiveIs DEF FlashOK, FlashTypes, LiveOf
  <2>2. LiveOf(a, k) \subseteq Int
    BY <2>1, NAssumption DEF Idx
  <2>3. Passed(k) = {j \in LiveOf(a, k) : j < src_i}
    BY DEF Passed
  <2>4. Passed(k)' = {j \in LiveOf(a, k) : j < i + 1}
    BY <1>0, <1>4 DEF Passed
  <2>5. QED
    BY <2>1, <2>2, <2>3, <2>4
<1>8. i \in Int /\ src_i \in Int
  BY <1>0, <1>1, NAssumption DEF Idx
<1>9. ASSUME NEW k \in Keys, k = r.key
      PROVE  i \in LiveOf(a, k) /\ Passed(k)' = Passed(k) \cup {i}
  <2>1. i \in LiveOf(a, k)
    BY <1>1, <1>7, <1>9
  <2>2. ASSUME NEW j \in LiveOf(a, k)
        PROVE  j < i + 1 <=> j < src_i \/ j = i
    <3>1. j \in Int /\ (j >= src_i => i <= j)
      BY <1>1, <1>7
    <3>2. QED
      BY <1>1, <1>8, <3>1
  <2>3. QED
    BY <1>7, <2>1, <2>2
<1>10. ASSUME NEW k \in Keys, k # r.key
       PROVE  Passed(k)' = Passed(k)
  <2>1. i \notin LiveOf(a, k)
    BY <1>7, <1>10
  <2>2. ASSUME NEW j \in LiveOf(a, k)
        PROVE  j < i + 1 <=> j < src_i
    <3>1. j \in Int /\ (j >= src_i => i <= j) /\ j # i
      BY <1>1, <1>7, <2>1
    <3>2. QED
      BY <1>1, <1>8, <3>1
  <2>3. QED
    BY <1>7, <2>2
<1>11. MovedInv'
  <2>1. ASSUME NEW k \in Keys
        PROVE  /\ Passed(k)' = {} => LiveOf(d2, k) = {}
               /\ \A m \in Passed(k)' :
                     (\A j \in Passed(k)' : j <= m) =>
                         LiveOf(d2, k) # {} /\ Contents(d2)[k] = a[m].val
    <3>1. CASE k = r.key
      <4>1. ASSUME NEW m \in Passed(k)', \A j \in Passed(k)' : j <= m PROVE m = i
        <5>1. i <= m /\ m \in Int /\ m < i + 1
          BY <1>7, <1>9, <3>1, <4>1
        <5>2. QED
          BY <1>8, <5>1
      <4>2. QED
        BY <1>5, <1>9, <3>1, <4>1
    <3>2. CASE k # r.key
      BY <1>0, <1>5, <1>10, <3>2, GivenIs DEF MovedInv
    <3>3. QED
      BY <3>1, <3>2
  <2>2. QED
    BY <1>0, <1>4, <2>1 DEF MovedInv
<1>12. SingleInv'
  <2>1. ASSUME Faults = {}, NEW s \in Sectors, NEW k \in Keys,
               NEW x \in LiveOf(slot'[s], k), NEW y \in LiveOf(slot'[s], k)
        PROVE  x = y
    <3>1. \A u \in Sectors : \A m \in LiveOf(slot[u], k), n \in LiveOf(slot[u], k) : m = n
      BY <1>0, <2>1, GivenIs DEF SingleInv
    <3>2. CASE s = sector
      BY <1>4, <2>1, <3>1, <3>2
    <3>3. CASE s = Dst /\ k # r.key
      BY <1>5, <2>1, <3>1, <3>3
    <3>4. CASE s = Dst /\ k = r.key
      <4>1. Passed(k) = {}
        <5>1. ASSUME NEW j \in Passed(k) PROVE FALSE
          <6>1. j \in LiveOf(a, k) /\ j < src_i
            BY <1>7, <5>1
          <6>2. j = i
            BY <1>9, <3>1, <3>4, <6>1, GivenIs
          <6>3. QED
            BY <1>1, <1>8, <6>1, <6>2
        <5>2. QED
          BY <5>1
      <4>2. LiveOf(d, k) = {}
        BY <1>0, <4>1, GivenIs DEF MovedInv
      <4>3. LiveOf(d2, k) = {dst_i}
        BY <1>5, <3>4, <4>2
      <4>4. QED
        BY <2>1, <3>4, <4>3
    <3>5. QED
      BY <3>2, <3>3, <3>4, GivenIs DEF Sectors, Dst, Other
  <2>2. QED
    BY <1>0, <2>1 DEF SingleInv
<1>13. TableInv' /\ CountersInv'
  BY <1>0, <1>4, GivenIs, TableCarried DEF Loaded, PlainPCs
<1>14. MapInv'
  BY <1>0, <1>6, <1>11, <1>12, <1>13
     DEF MapInv, WhereInv, AloneInv, AlonePCs, FreshInv, SwappedInv
<1>15. Store' = Store
  BY <1>0, <1>4, <1>6, StoreStays
<1>16. QED
  BY <1>0, <1>14, <1>15, MapStutters DEF MapKept

LEMMA MoveValidMap ==
    ASSUME Given, MoveValid
    PROVE  MapKept
<1>0. /\ pc = "moveCopy" /\ pc' = "switch" /\ call' = call /\ ret' = ret /\ MoveLeft = {}
      /\ slot' = slot /\ UNCHANGED ram /\ Dst' = Dst /\ sector' = sector
      /\ call.op = "repair" /\ call # NoCall /\ pc \in MovePCs /\ hdr[Dst] = InitHdr
      /\ hdr' = [hdr EXCEPT ![Dst] = ProgramHdr(hdr[Dst], "VALID")]
      /\ src_i \in Nat
  BY GivenIs DEF MoveValid, May, Goto, ram, Dst, WhereInv, MovePCs, NoCall, HdrInv, CopyInv,
                 IndexInv, TypeOK
<1>1. ProgramHdr(hdr[Dst], "VALID") = ValidHdr
  BY <1>0 DEF ProgramHdr, InitHdr, ValidHdr
<1>2. Contents(slot[Dst]) = Contents(slot[sector])
  <2>1. ASSUME NEW k \in Keys
        PROVE  Contents(slot[Dst])[k] = Contents(slot[sector])[k]
    <3> DEFINE I == LiveOf(slot[sector], k)
    <3>0. slot[sector] \in [Idx -> Rec] /\ slot[Dst] \in [Idx -> Rec]
      BY GivenIs DEF FlashOK, FlashTypes
    <3>1. \A j \in I : j \in Live(slot[sector]) /\ j \in Int
      BY NAssumption DEF LiveOf, Live, Scanned, Idx
    <3>2. Passed(k) = I
      <4>1. \A j \in I : j < src_i
        BY <1>0, <3>1 DEF MoveLeft
      <4>2. QED
        BY <4>1 DEF Passed
    <3>3. CASE I = {}
      <4>1. LiveOf(slot[Dst], k) = {}
        BY <1>0, <3>2, <3>3, GivenIs DEF MovedInv
      <4>2. QED
        BY <3>0, <3>3, <4>1, LookupIs
    <3>4. CASE I # {}
      <4> DEFINE m == Lookup(slot[sector], k)
      <4>1. m \in I /\ (\A j \in I : j <= m) /\ Contents(slot[sector])[k] = slot[sector][m].val
        BY <3>0, <3>4, LookupIs
      <4>2. QED
        BY <1>0, <3>2, <4>1, GivenIs DEF MovedInv
    <3>5. QED
      BY <3>3, <3>4
  <2>2. QED
    BY <2>1, SameMap
<1>3. HdrsOK(hdr') /\ Twins(hdr', slot') /\ SingleInv' /\ Store' = Store
  BY <1>0, <1>1, <1>2, GivenIs, HeaderMap
<1>4. TableInv' /\ CountersInv'
  BY <1>0 DEF TableInv, CountersInv, Loaded, LoadedPCs
<1>5. MapInv'
  BY <1>0, <1>3, <1>4
     DEF MapInv, WhereInv, AloneInv, AlonePCs, FreshInv, MovedInv, SwappedInv
<1>6. QED
  BY <1>0, <1>3, <1>5, MapStutters DEF MapKept

LEMMA MoveStepMap ==
    ASSUME Given, MoveStep
    PROVE  MapKept
BY MoveEraseMap, MoveInitMap, MoveCopyMap, MoveValidMap DEF MoveStep

LEMMA SwapEraseMap ==
    ASSUME Given, SwapErase
    PROVE  MapKept
<1>0. /\ pc = "swapErase" /\ pc' = "swapInit" /\ call' = call /\ ret' = ret
      /\ hdr[Dst] = ErasedHdr /\ UNCHANGED flash /\ UNCHANGED ram /\ Dst' = Dst
      /\ sector' = sector /\ call.op = "set" /\ call # NoCall
  BY GivenIs DEF SwapErase, NeedsErase, May, Goto, AloneInv, AlonePCs, ErasedHdr, ram, Dst,
                 CallInv, NoCall
<1>1. /\ NoNewRecord /\ hdr' = hdr /\ slot' = slot /\ HdrsOK(hdr') /\ Twins(hdr', slot')
  BY <1>0, GivenIs, FlashUntouched
<1>2. SingleInv'
  BY <1>0, <1>1, GivenIs, SingleKept
<1>3. TableInv' /\ CountersInv'
  BY <1>0, <1>1, GivenIs, TableCarried DEF Loaded, LoadedPCs, PlainPCs
<1>4. MapInv'
  BY <1>0, <1>1, <1>2, <1>3
     DEF MapInv, WhereInv, AloneInv, FreshInv, MovedInv, SwappedInv
<1>5. Store' = Store
  BY <1>1 DEF Store
<1>6. QED
  BY <1>0, <1>4, <1>5, MapStutters DEF MapKept

LEMMA SwapInitMap ==
    ASSUME Given, SwapInit
    PROVE  MapKept
<1>0. /\ pc = "swapInit" /\ pc' = "swapCopy" /\ call' = call /\ ret' = ret
      /\ hdr[Dst] = ErasedHdr /\ slot' = slot /\ UNCHANGED ram /\ Dst' = Dst
      /\ todo' = Entries /\ Entries' = Entries /\ idx' = idx
      /\ sector' = sector /\ call.op = "set" /\ call # NoCall /\ pc \in UsePCs
      /\ hdr' = [hdr EXCEPT ![Dst] = ProgramHdr(hdr[Dst], "INIT")]
      /\ RecordsInv
  BY GivenIs DEF SwapInit, May, AloneInv, AlonePCs, ram, Dst, CallInv, UsePCs, NoCall, Given, Entries
<1>1. ProgramHdr(hdr[Dst], "INIT") = InitHdr
  BY <1>0 DEF ProgramHdr, ErasedHdr, InitHdr
<1>2. HdrsOK(hdr') /\ Twins(hdr', slot') /\ SingleInv' /\ Store' = Store
  BY <1>0, <1>1, GivenIs, HeaderMap
<1>3. TableInv'
  <2>1. \A k \in Keys : idx[k] = Lookup(slot[sector], k)
    BY <1>0, GivenIs DEF TableInv, Loaded, LoadedPCs
  <2>2. QED
    BY <1>0, <2>1 DEF TableInv
<1>4. CountersInv'
  BY <1>0, GivenIs DEF CountersInv, Loaded, LoadedPCs, ram
<1>5. SwappedInv'
  <2>1. \A k \in Keys : LiveOf(slot[Dst], k) = {}
    <3>1. \A i \in Idx : ~IsLive(slot[Dst][i])
      BY <1>0, GivenIs DEF RecordsInv, SlotInv, Unused, ErasedHdr, IsLive
    <3>2. QED
      BY <3>1, BlankMap, GivenIs DEF FlashOK, FlashTypes
  <2>2. QED
    BY <1>0, <2>1 DEF SwappedInv
<1>6. MapInv'
  BY <1>0, <1>2, <1>3, <1>4, <1>5
     DEF MapInv, WhereInv, AloneInv, AlonePCs, FreshInv, MovedInv
<1>7. QED
  BY <1>0, <1>2, <1>6, MapStutters DEF MapKept

\* The record of an entry is in the copy, and it is the only one of its key there.
LEMMA SwapCopyMap ==
    ASSUME Given, SwapCopy
    PROVE  MapKept
<1>0. /\ pc = "swapCopy" /\ pc' = "swapCopy" /\ call' = call /\ ret' = ret
      /\ Dst' = Dst /\ sector' = sector /\ inuse' = inuse /\ invalid' = invalid
      /\ call.op = "set" /\ call # NoCall /\ RecordsInv /\ pc \in UsePCs
      /\ idx \in [Keys -> Idx \cup {NoIdx}] /\ todo \subseteq Entries
  BY GivenIs DEF SwapCopy, Dst, CallInv, UsePCs, NoCall, Given, IndexInv, TypeOK, CopyIndexInv
<1>1. PICK k \in todo :
         /\ SetSlot(Dst, dst_i, Program(slot[Dst][dst_i], slot[sector][idx[k]]))
         /\ idx' = [idx EXCEPT ![k] = dst_i]
         /\ todo' = todo \ {k}
  BY DEF SwapCopy
<1> DEFINE r == slot[sector][idx[k]]
           d == slot[Dst]
           d2 == slot'[Dst]
           a == slot[sector]
<1>2. /\ k \in Keys /\ idx[k] # NoIdx /\ idx[k] \in Idx /\ idx[k] = Lookup(a, k)
      /\ IsLive(r) /\ r.key = k
  <2>1. k \in Keys /\ idx[k] # NoIdx /\ k \notin Exempt
    BY <1>0, <1>1 DEF Entries, Exempt
  <2>2. Good(k) /\ idx[k] = Lookup(a, k)
    BY <1>0, <1>1, <2>1, GivenIs DEF LoadedInv, Loaded, LoadedPCs, TableInv
  <2>3. QED
    BY <1>0, <2>1, <2>2 DEF Good, GoodIn, IsLive
<1>3. Contents(a)[k] = r.val
  <2>1. LiveOf(a, k) # {}
    BY <1>2, GivenIs, LookupIs DEF FlashOK, FlashTypes
  <2>2. QED
    BY <1>2, <2>1, GivenIs, LookupIs DEF FlashOK, FlashTypes
<1>4. /\ dst_i \in Idx /\ dst_i # NoIdx /\ FilledTo(Dst, dst_i) /\ r \in Rec
      /\ slot[Dst][dst_i] \in Rec /\ slot[Dst][dst_i].flags = "EMPTY"
  <2>1. dst_i \in Idx
    BY <1>0, <1>1, GivenIs, IndexesInSector DEF IndexChecksHold
  <2>2. FilledTo(Dst, dst_i)
    BY <1>0 DEF RecordsInv, HeadersInv
  <2>3. QED
    BY <1>2, <2>1, <2>2, GivenIs, NAssumption DEF FilledTo, Unused, FlashOK, FlashTypes, Idx, NoIdx
<1>5. SetSlot(Dst, dst_i, r)
  BY <1>1, <1>4, ProgramUnused
<1>6. /\ hdr' = hdr /\ slot'[Dst][dst_i] = r /\ slot'[sector] = slot[sector]
      /\ \A j \in Idx : j # dst_i => slot'[Dst][j] = slot[Dst][j]
  <2>1. /\ hdr' = hdr /\ slot'[Dst][dst_i] = r
        /\ \A j \in Idx : j # dst_i => slot'[Dst][j] = slot[Dst][j]
    BY <1>4, <1>5, GivenIs, SetSlotIs DEF FlashOK
  <2>2. slot'[sector] = slot[sector]
    BY <1>5, GivenIs DEF SetSlot, FlashOK, FlashTypes
  <2>3. QED
    BY <2>1, <2>2
<1>7. \A l \in Keys :
         IF l = k
         THEN LiveOf(d2, l) = LiveOf(d, l) \cup {dst_i} /\ Contents(d2)[l] = r.val
         ELSE LiveOf(d2, l) = LiveOf(d, l) /\ Contents(d2)[l] = Contents(d)[l]
  <2>1. d \in [Idx -> Rec] /\ d2 \in [Idx -> Rec] /\ Packed(d) /\ Packed(d2)
    BY GivenIs, <1>0 DEF FlashOK, FlashTypes
  <2>2. /\ ~IsLive(d[dst_i]) /\ IsLive(d2[dst_i])
        /\ \A j \in Idx : j # dst_i => d2[j] = d[j]
    BY <1>2, <1>4, <1>6 DEF IsLive
  <2>3. ASSUME NEW j \in Idx, IsLive(d[j]) PROVE j < dst_i
    <3>1. ~(j >= dst_i)
      BY <1>4, <2>3 DEF FilledTo, Unused, IsLive
    <3>2. QED
      BY <3>1, <1>4, NAssumption DEF Idx
  <2> HIDE DEF d, d2
  <2>4. d2[dst_i] = r
    BY <1>6 DEF d2
  <2> HIDE DEF r
  <2>5. QED
    BY <1>2, <1>4, <2>1, <2>2, <2>3, <2>4, Appended
<1>8. HdrsOK(hdr') /\ Twins(hdr', slot')
  <2>1. hdr[Dst] = InitHdr
    BY <1>0, GivenIs DEF HdrInv, CopyInv
  <2>2. \A s \in Sectors : s = sector \/ s = Dst
    BY GivenIs DEF Sectors, Dst, Other
  <2>3. QED
    BY <1>6, <2>1, <2>2, GivenIs DEF Twins
<1>9. /\ idx'[k] = dst_i /\ \A l \in Keys : l # k => idx'[l] = idx[l]
      /\ \A l \in Keys : l \in Entries' \ todo' <=> l = k \/ l \in Entries \ todo
  BY <1>0, <1>1, <1>2, <1>4 DEF Entries
<1>10. ASSUME NEW l \in Keys
       PROVE  IF l \in Entries' \ todo'
              THEN LiveOf(d2, l) = {idx'[l]} /\ Contents(d2)[l] = Contents(a)[l]
              ELSE LiveOf(d2, l) = {}
  <2>1. CASE l = k
    <3>1. LiveOf(d, k) = {}
      BY <1>0, <1>1, <1>2, GivenIs DEF SwappedInv
    <3>2. QED
      BY <1>2, <1>3, <1>7, <1>9, <2>1, <3>1
  <2>2. CASE l # k
    BY <1>0, <1>7, <1>9, <2>2, GivenIs DEF SwappedInv
  <2>3. QED
    BY <2>1, <2>2
<1>11. SwappedInv'
  BY <1>0, <1>6, <1>10 DEF SwappedInv
<1>12. TableInv'
  <2>1. ASSUME NEW l \in Keys
        PROVE  /\ l \notin todo' => (idx'[l] # NoIdx <=> Lookup(a, l) # NoIdx)
               /\ l \in todo' => idx'[l] = Lookup(a, l)
    <3>1. CASE l = k
      BY <1>1, <1>2, <1>4, <1>9, <3>1
    <3>2. CASE l # k
      BY <1>0, <1>1, <1>9, <3>2, GivenIs DEF TableInv, Loaded, LoadedPCs
    <3>3. QED
      BY <3>1, <3>2
  <2>2. QED
    BY <1>0, <1>6, <2>1 DEF TableInv
<1>13. CountersInv'
  BY <1>0, <1>6, GivenIs DEF CountersInv, Loaded, LoadedPCs
<1>14. SingleInv'
  <2>1. ASSUME Faults = {}, NEW s \in Sectors, NEW l \in Keys,
               NEW x \in LiveOf(slot'[s], l), NEW y \in LiveOf(slot'[s], l)
        PROVE  x = y
    <3>1. CASE s = sector
      BY <1>0, <1>6, <2>1, <3>1, GivenIs DEF SingleInv
    <3>2. CASE s = Dst
      BY <1>10, <2>1, <3>2
    <3>3. QED
      BY <3>1, <3>2, GivenIs DEF Sectors, Dst, Other
  <2>2. QED
    BY <1>0, <2>1 DEF SingleInv
<1>15. MapInv'
  BY <1>0, <1>8, <1>11, <1>12, <1>13, <1>14
     DEF MapInv, WhereInv, AloneInv, AlonePCs, FreshInv, MovedInv
<1>16. Store' = Store
  BY <1>0, <1>6, <1>8, StoreStays
<1>17. QED
  BY <1>0, <1>15, <1>16, MapStutters DEF MapKept

LEMMA SwapValidMap ==
    ASSUME Given, SwapValid
    PROVE  MapKept
<1>0. /\ pc = "swapCopy" /\ pc' = "switch" /\ call' = call /\ ret' = ret /\ todo = {}
      /\ slot' = slot /\ UNCHANGED ram /\ Dst' = Dst /\ sector' = sector
      /\ call.op = "set" /\ call # NoCall /\ pc \in UsePCs /\ hdr[Dst] = InitHdr
      /\ hdr' = [hdr EXCEPT ![Dst] = ProgramHdr(hdr[Dst], "VALID")]
  BY GivenIs DEF SwapValid, May, Goto, ram, Dst, CallInv, UsePCs, NoCall, HdrInv, CopyInv
<1>1. ProgramHdr(hdr[Dst], "VALID") = ValidHdr
  BY <1>0 DEF ProgramHdr, InitHdr, ValidHdr
<1>2. Contents(slot[Dst]) = Contents(slot[sector])
  <2>1. ASSUME NEW k \in Keys
        PROVE  Contents(slot[Dst])[k] = Contents(slot[sector])[k]
    <3>1. CASE k \in Entries
      BY <1>0, <3>1, GivenIs DEF SwappedInv
    <3>2. CASE k \notin Entries
      <4>1. LiveOf(slot[Dst], k) = {} /\ Lookup(slot[sector], k) = NoIdx
        BY <1>0, <3>2, GivenIs DEF SwappedInv, TableInv, Loaded, LoadedPCs, Entries
      <4>2. QED
        BY <4>1, GivenIs, LookupIs DEF FlashOK, FlashTypes
    <3>3. QED
      BY <3>1, <3>2
  <2>2. QED
    BY <2>1, SameMap
<1>3. HdrsOK(hdr') /\ Twins(hdr', slot') /\ SingleInv' /\ Store' = Store
  BY <1>0, <1>1, <1>2, GivenIs, HeaderMap
<1>4. TableInv' /\ CountersInv'
  BY <1>0 DEF TableInv, CountersInv, Loaded, LoadedPCs
<1>5. MapInv'
  BY <1>0, <1>3, <1>4
     DEF MapInv, WhereInv, AloneInv, AlonePCs, FreshInv, MovedInv, SwappedInv
<1>6. QED
  BY <1>0, <1>3, <1>5, MapStutters DEF MapKept

LEMMA SwitchMap ==
    ASSUME Given, Switch
    PROVE  MapKept
<1>0. /\ pc = "switch" /\ pc' = "eraseSource" /\ call' = call /\ ret' = ret /\ Construct(Dst)
      /\ call.op \in {"set", "repair"} /\ call # NoCall
  BY GivenIs DEF Switch, Goto, WhereInv, NoCall
<1>1. /\ hdr' = hdr /\ sector' = Dst /\ NoNewRecord
      /\ \A u \in Sectors : Contents(slot'[u]) = Contents(slot[u])
      /\ \A k \in Keys : idx'[k] = Lookup(slot'[Dst], k)
      /\ inuse' = Cardinality(Live(slot'[Dst]))
      /\ invalid' = Cardinality(With(slot'[Dst], {"INVALID"}))
  BY <1>0, GivenIs, ConstructMap DEF Given
<1>2. HdrsOK(hdr') /\ Twins(hdr', slot')
  BY <1>1, GivenIs DEF Twins
<1>3. SingleInv'
  BY <1>0, <1>1, GivenIs, SingleKept
<1>4. TableInv'
  BY <1>0, <1>1 DEF TableInv
<1>5. CountersInv'
  <2>1. inuse' \in Int /\ invalid' \in Int
    BY DEF Given, RecordsInv, IndexInv, TypeOK
  <2>2. QED
    BY <1>0, <1>1, <2>1 DEF CountersInv
<1>6. MapInv'
  BY <1>0, <1>2, <1>3, <1>4, <1>5
     DEF MapInv, WhereInv, AloneInv, AlonePCs, FreshInv, MovedInv, SwappedInv
<1>7. Store' = Store
  BY <1>0, <1>1, <1>2, GivenIs, StoreStays DEF MovePCs
<1>8. QED
  BY <1>0, <1>6, <1>7, MapStutters DEF MapKept

LEMMA EraseSourceMap ==
    ASSUME Given, EraseSource
    PROVE  MapKept
<1>0. /\ pc = "eraseSource" /\ Erased(Dst) /\ pc \in UsePCs /\ UNCHANGED ram
      /\ sector' = sector /\ Dst' = Dst /\ hdr[sector] = ValidHdr
      /\ call # NoCall /\ NoCall.op = "none"
      /\ \/ call.op = "set" /\ pc' = "write" /\ call' = call /\ ret' = ret
         \/ call.op = "repair" /\ pc' = "idle" /\ call' = NoCall /\ ret' = "EOK"
  BY GivenIs, InUse DEF EraseSource, May, Goto, Return, Loading, WhereInv, ram, Dst, UsePCs, NoCall
<1>1. /\ hdr'[Dst] = ErasedHdr /\ hdr'[sector] = hdr[sector] /\ slot'[sector] = slot[sector]
      /\ Twins(hdr', slot') /\ NoNewRecord /\ HdrsOK(hdr')
  BY <1>0, GivenIs, EraseIs
<1>2. SingleInv'
  BY <1>0, <1>1, GivenIs, SingleKept
<1>3. TableInv' /\ CountersInv'
  BY <1>0, <1>1, GivenIs, TableCarried DEF Loaded, LoadedPCs, PlainPCs
<1>4. MapInv'
  BY <1>0, <1>1, <1>2, <1>3
     DEF MapInv, WhereInv, AloneInv, AlonePCs, FreshInv, MovedInv, SwappedInv
<1>5. Store' = Store
  BY <1>0, <1>1, StoreStays
<1>6. CASE call.op = "set"
  BY <1>0, <1>4, <1>5, <1>6, MapStutters DEF MapKept
<1>7. CASE call.op = "repair"
  BY <1>0, <1>4, <1>5, <1>7, EffectIs, MapReturns DEF MapKept
<1>8. QED
  BY <1>0, <1>6, <1>7

LEMMA SwapStepMap ==
    ASSUME Given, SwapStep
    PROVE  MapKept
<1>1. ~SwapCopyFail
  BY GivenIs, SwapNeverFallsBack DEF Given
<1>2. QED
  BY <1>1, SwapEraseMap, SwapInitMap, SwapCopyMap, SwapValidMap, SwitchMap, EraseSourceMap
     DEF SwapStep

-----------------------------------------------------------------------------
(***************************************************************************)
(* The steps of record_set and nvol3_record_delete.                        *)
(***************************************************************************)
\* Places of record_set and nvol3_record_delete; the other sector is erased.
RecordPCs == {"idle", "write", "commit", "retire", "remove", "forget"}

\* One write of a record or of its flags.
LEMMA RecordWritten ==
    ASSUME Given, pc \in RecordPCs, NEW i \in Idx, NEW x, SetSlot(sector, i, x)
    PROVE  /\ hdr' = hdr /\ slot'[Dst] = slot[Dst] /\ slot'[sector][i] = x
           /\ \A j \in Idx : j # i => slot'[sector][j] = slot[sector][j]
           /\ HdrsOK(hdr') /\ Twins(hdr', slot')
           /\ Store = Contents(slot[sector]) /\ Store' = Contents(slot'[sector])
           /\ slot[sector] \in [Idx -> Rec] /\ slot'[sector] \in [Idx -> Rec]
           /\ Packed(slot[sector]) /\ Packed(slot'[sector])
<1>1. hdr[sector] = ValidHdr /\ hdr[Dst] = ErasedHdr
  BY GivenIs, InUse DEF RecordPCs, UsePCs, AloneInv, AlonePCs
<1>2. /\ hdr' = hdr /\ slot'[Dst] = slot[Dst] /\ slot'[sector][i] = x
      /\ \A j \in Idx : j # i => slot'[sector][j] = slot[sector][j]
  BY GivenIs DEF SetSlot, FlashOK, FlashTypes
<1>3. HdrsOK(hdr') /\ Twins(hdr', slot')
  <2>1. \A s \in Sectors : s = sector \/ s = Dst
    BY GivenIs DEF Sectors, Dst, Other
  <2>2. QED
    BY <1>1, <1>2, <2>1, GivenIs DEF Twins
<1>4. Store = Contents(slot[sector]) /\ Store' = Contents(slot'[sector])
  BY <1>1, <1>2, <1>3, GivenIs, StoreNow, StoreThen DEF Given
<1>5. /\ slot[sector] \in [Idx -> Rec] /\ slot'[sector] \in [Idx -> Rec]
      /\ Packed(slot[sector]) /\ Packed(slot'[sector])
  BY GivenIs DEF FlashOK, FlashTypes
<1>6. QED
  BY <1>2, <1>3, <1>4, <1>5

\* How the counters change with the flags of one record.
LEMMA CountsAre ==
    ASSUME NEW sl \in [Idx -> Rec], NEW sl2 \in [Idx -> Rec], Packed(sl), Packed(sl2), NEW i \in Idx,
           \A j \in Idx : j # i => sl2[j] = sl[j]
    PROVE  /\ Cardinality(Live(sl)) \in Nat /\ Cardinality(With(sl, {"INVALID"})) \in Nat
           /\ IsLive(sl2[i]) /\ ~IsLive(sl[i]) =>
                Cardinality(Live(sl2)) = Cardinality(Live(sl)) + 1
           /\ ~IsLive(sl2[i]) /\ IsLive(sl[i]) =>
                Cardinality(Live(sl2)) = Cardinality(Live(sl)) - 1
           /\ sl2[i].flags = "INVALID" /\ sl[i].flags # "INVALID" =>
                Cardinality(With(sl2, {"INVALID"})) = Cardinality(With(sl, {"INVALID"})) + 1
           /\ (sl2[i].flags = "INVALID" <=> sl[i].flags = "INVALID") =>
                With(sl2, {"INVALID"}) = With(sl, {"INVALID"})
<1> DEFINE L == Live(sl)
           L2 == Live(sl2)
           W == With(sl, {"INVALID"})
           W2 == With(sl2, {"INVALID"})
<1>1. /\ L = {j \in Idx : IsLive(sl[j])} /\ L2 = {j \in Idx : IsLive(sl2[j])}
      /\ W = {j \in Idx : sl[j].flags = "INVALID"}
      /\ W2 = {j \in Idx : sl2[j].flags = "INVALID"}
  BY LiveIs
<1> HIDE DEF L, L2, W, W2
<1>2. /\ IsFiniteSet(L) /\ IsFiniteSet(L2) /\ IsFiniteSet(W)
      /\ Cardinality(L) \in Nat /\ Cardinality(L2) \in Nat /\ Cardinality(W) \in Nat
  BY <1>1, IdxFinite
<1>3. IsLive(sl2[i]) /\ ~IsLive(sl[i]) => L2 = L \cup {i} /\ i \notin L
  BY <1>1
<1>4. ~IsLive(sl2[i]) /\ IsLive(sl[i]) => L = L2 \cup {i} /\ i \notin L2
  BY <1>1
<1>5. sl2[i].flags = "INVALID" /\ sl[i].flags # "INVALID" => W2 = W \cup {i} /\ i \notin W
  BY <1>1
<1>6. (sl2[i].flags = "INVALID" <=> sl[i].flags = "INVALID") => W2 = W
  BY <1>1
<1>7. IsLive(sl2[i]) /\ ~IsLive(sl[i]) => Cardinality(L2) = Cardinality(L) + 1
  BY <1>2, <1>3, FS_AddElement
<1>8. ~IsLive(sl2[i]) /\ IsLive(sl[i]) => Cardinality(L2) = Cardinality(L) - 1
  <2>1. ~IsLive(sl2[i]) /\ IsLive(sl[i]) => Cardinality(L) = Cardinality(L2) + 1
    BY <1>2, <1>4, FS_AddElement
  <2>2. QED
    BY <1>2, <2>1
<1>9. sl2[i].flags = "INVALID" /\ sl[i].flags # "INVALID" => Cardinality(W2) = Cardinality(W) + 1
  BY <1>2, <1>5, FS_AddElement
<1>10. QED
  BY <1>2, <1>6, <1>7, <1>8, <1>9 DEF L, L2, W, W2

\* A step between calls, or from one call to the next place, that touches neither
\* FLASH nor RAM.
LEMMA QuietMap ==
    ASSUME Given, UNCHANGED <<flash, ram>>, pc \in {"idle", "write"},
           pc' \in {"idle", "write", "swapErase", "remove", "moveErase"},
           pc' = "idle" => call' = NoCall,
           pc' = "moveErase" => call'.op = "repair",
           call'.op \in {"load", "delete"} => pc' = "remove" /\ Faults = {},
           call'.op # "reset"
    PROVE  MapInv' /\ Store' = Store
<1>1. /\ NoNewRecord /\ hdr' = hdr /\ slot' = slot /\ HdrsOK(hdr') /\ Twins(hdr', slot')
      /\ sector' = sector /\ Dst' = Dst /\ hdr[Dst] = ErasedHdr
  BY GivenIs, FlashUntouched DEF ram, Dst, AloneInv, AlonePCs
<1>2. SingleInv'
  BY <1>1, GivenIs, SingleKept
<1>3. TableInv' /\ CountersInv'
  BY <1>1, GivenIs, TableCarried DEF Loaded, LoadedPCs, PlainPCs
<1>4. MapInv'
  BY <1>1, <1>2, <1>3 DEF MapInv, WhereInv, AloneInv, FreshInv, MovedInv, SwappedInv
<1>5. Store' = Store
  BY <1>1 DEF Store
<1>6. QED
  BY <1>4, <1>5

\* The map has the value the entry of a key leads to.
LEMMA EntryIsMapped ==
    ASSUME Given, pc \in {"idle", "write", "commit", "remove"}, NEW k \in Keys
    PROVE  /\ hdr[sector] = ValidHdr /\ Store = Contents(slot[sector])
           /\ idx[k] = Lookup(slot[sector], k)
           /\ idx[k] = NoIdx => Store[k] = NoVal /\ LiveOf(slot[sector], k) = {}
           /\ idx[k] # NoIdx => /\ idx[k] \in Idx /\ idx[k] \in LiveOf(slot[sector], k)
                                /\ Store[k] = slot[sector][idx[k]].val
<1>1. hdr[sector] = ValidHdr
  BY InUse DEF UsePCs
<1>2. Store = Contents(slot[sector])
  BY <1>1, GivenIs, StoreNow DEF Given
<1>3. idx[k] = Lookup(slot[sector], k)
  BY GivenIs DEF TableInv, Loaded, LoadedPCs
<1>4. slot[sector] \in [Idx -> Rec]
  BY GivenIs DEF FlashOK, FlashTypes
<1>5. QED
  BY <1>1, <1>2, <1>3, <1>4, LookupIs

LEMMA SetFullMap ==
    ASSUME Given, SetFull \/ SetSame
    PROVE  MapKept
<1>0. /\ pc = "write" /\ pc' = "idle" /\ call' = NoCall /\ UNCHANGED <<flash, ram>>
      /\ call.op = "set" /\ call # NoCall /\ NoCall.op = "none"
      /\ call.key \in Keys /\ call.val \in Vals
      /\ ret' = "EFAIL" \/ (ret' = "EOK" /\ SameValue)
  BY GivenIs DEF SetFull, SetSame, Return, NoCall, Calls, IndexInv, RecordInv
<1>1. MapInv' /\ Store' = Store
  BY <1>0, QuietMap
<1>2. CASE ret' = "EFAIL"
  BY <1>0, <1>1, <1>2, MapReturns DEF MapKept
<1>3. CASE ret' = "EOK" /\ SameValue
  <2>1. Store[call.key] = call.val /\ Store = Contents(slot[sector])
    BY <1>0, <1>3, EntryIsMapped DEF SameValue
  <2>2. Map!Effect(call) = Store
    BY <1>0, <2>1, EffectIs DEF Contents
  <2>3. QED
    BY <1>0, <1>1, <1>3, <2>2, MapReturns DEF MapKept
<1>4. QED
  BY <1>0, <1>2, <1>3

LEMMA WriteRecordMap ==
    ASSUME Given, WriteRecord
    PROVE  MapKept
<1> DEFINE new == Written("NEW", call.key, call.val)
<1>0. /\ pc = "write" /\ pc' = "commit" /\ call' = call /\ ret' = ret /\ UNCHANGED ram
      /\ sector' = sector /\ Dst' = Dst /\ next \in Idx /\ RecordsInv /\ RecordsInv'
      /\ call.op = "set" /\ call # NoCall /\ call.key \in Keys /\ call.val \in Vals
      /\ SetSlot(sector, next, Program(slot[sector][next], new))
      /\ hdr[Dst] = ErasedHdr
  BY GivenIs, RoomToWrite DEF WriteRecord, Goto, ram, Dst, NoCall, Calls, IndexInv, RecordInv, Given,
     AloneInv, AlonePCs
<1>1. slot[sector][next].flags = "EMPTY"
  BY <1>0, GivenIs, NAssumption DEF LoadedInv, Loaded, LoadedPCs, FilledTo, Unused, Idx
<1>2. /\ new.flags = "NEW" /\ new \in Rec
  BY <1>0, RecordTypes DEF Written, RecFlags
<1>3. SetSlot(sector, next, new)
  BY <1>0, <1>1, <1>2, GivenIs, ProgramUnused DEF FlashOK, FlashTypes
<1> HIDE DEF new
<1>4. /\ hdr' = hdr /\ slot'[Dst] = slot[Dst] /\ slot'[sector][next] = new
      /\ \A j \in Idx : j # next => slot'[sector][j] = slot[sector][j]
      /\ HdrsOK(hdr') /\ Twins(hdr', slot')
      /\ Store = Contents(slot[sector]) /\ Store' = Contents(slot'[sector])
      /\ slot[sector] \in [Idx -> Rec] /\ slot'[sector] \in [Idx -> Rec]
      /\ Packed(slot[sector]) /\ Packed(slot'[sector])
  BY <1>0, <1>3, RecordWritten DEF RecordPCs
<1>5. ~IsLive(slot[sector][next]) /\ ~IsLive(slot'[sector][next])
  BY <1>1, <1>2, <1>4 DEF IsLive
<1>6. /\ Live(slot'[sector]) = Live(slot[sector]) /\ Contents(slot'[sector]) = Contents(slot[sector])
      /\ \A k \in Keys : Lookup(slot'[sector], k) = Lookup(slot[sector], k)
  BY <1>4, <1>5, SameLive
<1>7. With(slot'[sector], {"INVALID"}) = With(slot[sector], {"INVALID"})
  BY <1>0, <1>1, <1>2, <1>4, CountsAre
<1>8. NoNewRecord
  <2>1. \A s \in Sectors : s = sector \/ s = Dst
    BY GivenIs DEF Sectors, Dst, Other
  <2>2. QED
    BY <1>4, <1>5, <2>1 DEF NoNewRecord
<1>9. SingleInv'
  BY <1>0, <1>8, GivenIs, SingleKept
<1>10. TableInv' /\ CountersInv'
  BY <1>0, <1>6, <1>7, GivenIs, TableCarried DEF Loaded, LoadedPCs, PlainPCs
<1>11. MapInv'
  BY <1>0, <1>4, <1>9, <1>10, GivenIs
     DEF MapInv, WhereInv, AloneInv, FreshInv, MovedInv, SwappedInv
<1>12. QED
  BY <1>0, <1>4, <1>6, <1>11, MapStutters DEF MapKept

\* The write of VALID makes the record the value of its key: here the set takes
\* effect.
LEMMA CommitMap ==
    ASSUME Given, Commit
    PROVE  MapKept
<1> DEFINE old == Written("NEW", call.key, call.val)
           new == Written("VALID", call.key, call.val)
<1>0. /\ pc = "commit" /\ pc' = "retire" /\ call' = call /\ ret' = ret /\ next \in Idx
      /\ next' = next + 1 /\ inuse' = inuse + 1 /\ invalid' = invalid /\ idx' = idx
      /\ sector' = sector /\ Dst' = Dst /\ RecordsInv /\ RecordsInv'
      /\ call.op = "set" /\ call # NoCall
      /\ SetSlot(sector, next, SetValid(slot[sector][next]))
      /\ hdr[Dst] = ErasedHdr
  BY GivenIs, IndexesInSector DEF Commit, Goto, Dst, NoCall, IndexInv, RecordInv, IndexChecksHold, Given,
     AloneInv, AlonePCs
<1>a. PICK k \in Keys : k = call.key
  BY <1>0, GivenIs DEF Calls, NoCall
<1>1. /\ slot[sector][next] = old /\ SetValid(old) = new
      /\ old.flags = "NEW" /\ new.flags = "VALID" /\ new.sum /\ new.key = k /\ new.val = call.val
  BY <1>0, <1>a DEF RecordsInv, SetInv, Written, SetValid
<1>2. SetSlot(sector, next, new)
  BY <1>0, <1>1
<1> HIDE DEF old, new
<1> DEFINE a == slot[sector]
           a2 == slot'[sector]
<1>3. /\ hdr' = hdr /\ slot'[Dst] = slot[Dst] /\ a2[next] = new
      /\ \A j \in Idx : j # next => a2[j] = a[j]
      /\ HdrsOK(hdr') /\ Twins(hdr', slot')
      /\ Store = Contents(a) /\ Store' = Contents(a2)
      /\ a \in [Idx -> Rec] /\ a2 \in [Idx -> Rec]
      /\ Packed(a) /\ Packed(a2)
  BY <1>0, <1>2, RecordWritten DEF RecordPCs
<1>4. /\ ~IsLive(a[next]) /\ IsLive(a2[next])
      /\ a[next].flags # "INVALID" /\ a2[next].flags # "INVALID"
  BY <1>1, <1>3 DEF IsLive
<1>5. ASSUME NEW j \in Idx, IsLive(a[j]) PROVE j < next
  <2>1. ~(j >= next + 1)
    BY <1>0, <1>5, GivenIs DEF LoadedInv, Loaded, LoadedPCs, FilledTo, Unused, IsLive
  <2>2. j # next
    BY <1>4, <1>5
  <2>3. QED
    BY <1>0, <2>1, <2>2, NAssumption DEF Idx
<1> HIDE DEF a, a2
<1>6. \A l \in Keys :
         IF l = k
         THEN /\ LiveOf(a2, l) = LiveOf(a, l) \cup {next}
              /\ Lookup(a2, l) = next /\ Contents(a2)[l] = call.val
         ELSE /\ LiveOf(a2, l) = LiveOf(a, l) /\ Lookup(a2, l) = Lookup(a, l)
              /\ Contents(a2)[l] = Contents(a)[l]
  BY <1>0, <1>1, <1>3, <1>4, <1>5, Appended
<1>7. LastWritten' = next
  BY <1>0, NAssumption DEF LastWritten, Idx
<1>8. \A l \in Keys : idx[l] = Lookup(a, l)
  BY <1>0, EntryIsMapped DEF a
<1>9. TableInv'
  <2>1. \A l \in Keys : IF l = k THEN Lookup(a2, l) = LastWritten' ELSE idx'[l] = Lookup(a2, l)
    BY <1>0, <1>6, <1>7, <1>8
  <2>2. QED
    BY <1>0, <1>a, <2>1 DEF TableInv, a2
<1>10. CountersInv'
  <2>1. /\ Cardinality(Live(a2)) = Cardinality(Live(a)) + 1
        /\ With(a2, {"INVALID"}) = With(a, {"INVALID"})
        /\ Cardinality(Live(a)) \in Nat /\ Cardinality(With(a, {"INVALID"})) \in Nat
    BY <1>0, <1>1, <1>3, <1>4, CountsAre
  <2>2. inuse = Cardinality(Live(a)) + 0 /\ invalid = Cardinality(With(a, {"INVALID"})) - 0
    BY <1>0, GivenIs DEF CountersInv, Loaded, LoadedPCs, a
  <2>3. inuse' = Cardinality(Live(a2)) + 0 /\ invalid' = Cardinality(With(a2, {"INVALID"})) - 0
    BY <1>0, <2>1, <2>2
  <2>4. QED
    BY <1>0, <2>3 DEF CountersInv, a2
<1>11. SingleInv'
  <2>1. ASSUME Faults = {}, NEW s \in Sectors, NEW l \in Keys
        PROVE  IF s = sector /\ l = k
               THEN LiveOf(slot'[s], l) \subseteq {idx'[l], LastWritten'}
               ELSE \A x \in LiveOf(slot'[s], l), y \in LiveOf(slot'[s], l) : x = y
    <3>1. \A x \in LiveOf(slot[s], l), y \in LiveOf(slot[s], l) : x = y
      BY <1>0, <2>1, GivenIs DEF SingleInv
    <3>2. CASE s = sector /\ l = k
      <4>1. LiveOf(a, l) \subseteq {idx[l]}
        BY <1>0, <3>1, <3>2, EntryIsMapped DEF a
      <4>2. QED
        BY <1>0, <1>6, <1>7, <3>2, <4>1 DEF a2
    <3>3. CASE s = sector /\ l # k
      BY <1>6, <3>1, <3>3 DEF a, a2
    <3>4. CASE s = Dst
      BY <1>3, <3>1, <3>4, GivenIs
    <3>5. QED
      BY <3>2, <3>3, <3>4, GivenIs DEF Sectors, Dst, Other
  <2>2. QED
    BY <1>0, <1>a, <2>1 DEF SingleInv
<1>12. MapInv'
  BY <1>0, <1>3, <1>9, <1>10, <1>11, GivenIs
     DEF MapInv, WhereInv, AloneInv, FreshInv, MovedInv, SwappedInv
<1>13. Store' = Map!Effect(call)
  <2>1. Map!Effect(call) = [Store EXCEPT ![k] = call.val]
    BY <1>0, <1>a, EffectIs
  <2>2. Store = [l \in Keys |-> Contents(a)[l]] /\ Store' = [l \in Keys |-> Contents(a2)[l]]
    BY <1>3 DEF Contents
  <2>3. QED
    BY <1>6, <2>1, <2>2
<1>14. QED
  BY <1>0, <1>12, <1>13, MapApplies DEF MapKept

\* The old record goes, and the dictionary gets the new one.
\* The record the key had before is marked: the one just written counts.
LEMMA OldRecordMarked ==
    ASSUME Given, pc = "retire", NEW k \in Keys, k = call.key, idx[k] # NoIdx,
           NEW x, ~IsLive(x), SetSlot(sector, idx[k], x)
    PROVE  /\ idx[k] \in Idx /\ IsLive(slot[sector][idx[k]])
           /\ \A l \in Keys : \A j \in LiveOf(slot'[sector], l) :
                                j \in LiveOf(slot[sector], l) /\ j # idx[k]
           /\ \A l \in Keys : Lookup(slot'[sector], l) = Lookup(slot[sector], l)
           /\ Store' = Store
<1> DEFINE a == slot[sector]
           a2 == slot'[sector]
           i == idx[k]
<1>1. /\ a \in [Idx -> Rec] /\ a2 \in [Idx -> Rec] /\ Packed(a) /\ Packed(a2)
      /\ i \in Idx /\ Lookup(a, k) = LastWritten /\ i # LastWritten
  BY GivenIs DEF FlashOK, FlashTypes, IndexInv, TypeOK, TableInv, Loaded, LoadedPCs, Given,
                 RecordsInv, SetInv
<1>2. /\ a2[i] = x /\ Store = Contents(a) /\ Store' = Contents(a2)
      /\ \A j \in Idx : j # i => a2[j] = a[j]
  BY <1>1, RecordWritten DEF RecordPCs
<1>3. IsLive(a[i]) /\ a[i].key = k
  BY GivenIs DEF LoadedInv, Loaded, LoadedPCs, Exempt, Good, GoodIn, IsLive
<1>4. \A l \in Keys : LiveOf(a2, l) = LiveOf(a, l) \ {i} /\ (l # k => i \notin LiveOf(a, l))
  BY <1>1, <1>2, <1>3, Dropped
<1>5. ASSUME NEW l \in Keys PROVE i # Lookup(a, l)
  <2>1. CASE l = k
    BY <1>1, <2>1
  <2>2. CASE l # k
    BY <1>1, <1>4, <2>2, LookupIs
  <2>3. QED
    BY <2>1, <2>2
<1>6. \A l \in Keys : Lookup(a2, l) = Lookup(a, l) /\ Contents(a2)[l] = Contents(a)[l]
  BY <1>1, <1>2, <1>3, <1>5, Dropped
<1>7. Store' = Store
  BY <1>2, <1>6, SameMap
<1>8. QED
  BY <1>1, <1>3, <1>4, <1>6, <1>7

LEMMA RetireMap ==
    ASSUME Given, Retire
    PROVE  MapKept
<1>0. /\ pc = "retire" /\ pc' = "idle" /\ call' = NoCall /\ ret' = "EOK"
      /\ sector' = sector /\ Dst' = Dst /\ RecordsInv /\ RecordsInv'
      /\ call.op = "set" /\ call # NoCall /\ hdr[Dst] = ErasedHdr /\ hdr[sector] = ValidHdr
      /\ idx' = [idx EXCEPT ![call.key] = LastWritten]
      /\ idx \in [Keys -> Idx \cup {NoIdx}] /\ LastWritten \in Idx
  BY GivenIs, InUse, IndexesInSector
     DEF Retire, Return, Dst, NoCall, IndexInv, RecordInv, IndexChecksHold, Given, TypeOK,
         AloneInv, AlonePCs, UsePCs
<1>a. PICK k \in Keys : k = call.key
  BY <1>0, GivenIs DEF Calls, NoCall
<1> DEFINE a == slot[sector]
           a2 == slot'[sector]
           i == idx[k]
<1>b. a \in [Idx -> Rec] /\ a2 \in [Idx -> Rec] /\ Packed(a) /\ Packed(a2)
  BY <1>0, GivenIs DEF FlashOK, FlashTypes
<1>1. /\ Lookup(a, k) = LastWritten /\ i # LastWritten
      /\ \A l \in Keys : l # k => idx[l] = Lookup(a, l)
      /\ inuse = Cardinality(Live(a)) + 0 /\ invalid = Cardinality(With(a, {"INVALID"})) - 0
  BY <1>0, <1>a, GivenIs DEF TableInv, CountersInv, Loaded, LoadedPCs, RecordsInv, SetInv
<1>2. \A l \in Keys : idx'[l] = Lookup(a, l)
  BY <1>0, <1>a, <1>1
<1>3. Store = Contents(a) /\ Store[k] = call.val
  <2>1. Store = Contents(a)
    BY <1>0, GivenIs, StoreNow
  <2>2. a[LastWritten] = Written("VALID", call.key, call.val)
    BY <1>0 DEF RecordsInv, SetInv
  <2>3. Contents(a)[k] = a[LastWritten].val
    <3>1. LastWritten # NoIdx
      BY <1>0, NAssumption DEF Idx, NoIdx
    <3>2. QED
      BY <1>1, <3>1 DEF Contents, ValueAt
  <2>4. QED
    BY <2>1, <2>2, <2>3 DEF Written
<1>4. Store = Map!Effect(call)
  BY <1>0, <1>a, <1>3, EffectIs DEF Contents
<1>5. ASSUME Faults = {}, NEW s \in Sectors, NEW l \in Keys
      PROVE  IF s = sector /\ l = k
             THEN LiveOf(slot[s], l) \subseteq {idx[l], LastWritten}
             ELSE \A x \in LiveOf(slot[s], l), y \in LiveOf(slot[s], l) : x = y
  BY <1>0, <1>a, <1>5, GivenIs DEF SingleInv
<1>6. CASE i = NoIdx
  <2>1. UNCHANGED <<flash, inuse, invalid>>
    BY <1>a, <1>6, <1>0 DEF Retire
  <2>2. /\ hdr' = hdr /\ slot' = slot /\ HdrsOK(hdr') /\ Twins(hdr', slot')
    BY <2>1, GivenIs, FlashUntouched
  <2>3. SingleInv'
    <3>1. LiveOf(a, k) \subseteq Idx /\ NoIdx \notin Idx
      BY NAssumption DEF LiveOf, Live, Scanned, Idx, NoIdx
    <3>2. QED
      BY <1>0, <1>5, <1>6, <2>2, <3>1 DEF SingleInv
  <2>4. TableInv'
    BY <1>0, <1>2, <2>2 DEF TableInv
  <2>5. CountersInv'
    BY <1>0, <1>1, <2>1, <2>2 DEF CountersInv
  <2>6. MapInv'
    BY <1>0, <2>2, <2>3, <2>4, <2>5
       DEF MapInv, WhereInv, NoCall, AloneInv, FreshInv, MovedInv, SwappedInv
  <2>7. Store' = Store
    BY <2>2 DEF Store
  <2>8. QED
    BY <1>0, <1>4, <2>6, <2>7, MapReturns DEF MapKept
<1>7. CASE i # NoIdx
  <2>1. /\ SetSlot(sector, i, Spoiled("INVALID"))
        /\ inuse' = inuse - 1 /\ invalid' = invalid + 1 /\ i \in Idx
    BY <1>0, <1>a, <1>7, GivenIs DEF Retire, May
  <2>2. /\ hdr' = hdr /\ slot'[Dst] = slot[Dst] /\ a2[i] = Spoiled("INVALID")
        /\ \A j \in Idx : j # i => a2[j] = a[j]
        /\ HdrsOK(hdr') /\ Twins(hdr', slot') /\ Store' = Contents(a2)
    BY <1>0, <2>1, RecordWritten DEF RecordPCs
  <2>3. ~IsLive(Spoiled("INVALID")) /\ Spoiled("INVALID").flags = "INVALID"
    BY DEF IsLive, Spoiled
  <2>a. pc = "retire" /\ idx[k] # NoIdx /\ SetSlot(sector, idx[k], Spoiled("INVALID"))
    BY <1>0, <1>7, <2>1
  <2>4. IsLive(a[i]) /\ Store' = Store
    BY <1>a, <2>3, <2>a, OldRecordMarked
  <2>b. \A l \in Keys : \A j \in LiveOf(a2, l) : j \in LiveOf(a, l) /\ j # i
    BY <1>a, <2>3, <2>a, OldRecordMarked
  <2>c. \A l \in Keys : Lookup(a2, l) = Lookup(a, l)
    BY <1>a, <2>3, <2>a, OldRecordMarked
  <2>5. ~IsLive(a2[i]) /\ a2[i].flags = "INVALID" /\ a[i].flags # "INVALID"
    BY <2>2, <2>3, <2>4 DEF IsLive
  <2>6. TableInv'
    <3>1. \A l \in Keys : idx'[l] = Lookup(slot'[sector'], l)
      BY <1>0, <1>2, <2>c
    <3>2. QED
      BY <1>0, <3>1 DEF TableInv
  <2>7. CountersInv'
    <3>1. /\ Cardinality(Live(a2)) = Cardinality(Live(a)) - 1
          /\ Cardinality(With(a2, {"INVALID"})) = Cardinality(With(a, {"INVALID"})) + 1
          /\ Cardinality(Live(a)) \in Nat /\ Cardinality(With(a, {"INVALID"})) \in Nat
      BY <1>b, <2>1, <2>2, <2>4, <2>5, CountsAre
    <3>2. inuse' = Cardinality(Live(a2)) + 0 /\ invalid' = Cardinality(With(a2, {"INVALID"})) - 0
      BY <1>1, <2>1, <3>1
    <3>3. QED
      BY <1>0, <3>2 DEF CountersInv
  <2>8. SingleInv'
    <3>1. ASSUME Faults = {}, NEW s \in Sectors, NEW l \in Keys,
                 NEW x \in LiveOf(slot'[s], l), NEW y \in LiveOf(slot'[s], l)
          PROVE  x = y
      <4>1. CASE s = Dst
        BY <1>5, <2>2, <3>1, <4>1, GivenIs
      <4>2. CASE s = sector /\ l # k
        BY <1>5, <2>b, <3>1, <4>2
      <4>3. CASE s = sector /\ l = k
        BY <1>5, <2>b, <3>1, <4>3
      <4>4. QED
        BY <4>1, <4>2, <4>3, GivenIs DEF Sectors, Dst, Other
    <3>2. QED
      BY <1>0, <3>1 DEF SingleInv
  <2>9. MapInv'
    BY <1>0, <2>2, <2>6, <2>7, <2>8
       DEF MapInv, WhereInv, NoCall, AloneInv, FreshInv, MovedInv, SwappedInv
  <2>10. QED
    BY <1>0, <1>4, <2>4, <2>9, MapReturns DEF MapKept
<1>8. QED
  BY <1>6, <1>7

LEMMA SetStepMap ==
    ASSUME Given, SetStep
    PROVE  MapKept
<1>1. ~WriteRecordFail
  <2>1. SUFFICES ASSUME WriteRecordFail PROVE FALSE
    OBVIOUS
  <2>2. pc = "write" /\ ~VolumeFull /\ next >= N
    BY <2>1, GivenIs DEF WriteRecordFail, May
  <2>3. QED
    BY <2>2, RoomToWrite, NAssumption DEF Idx, Given
<1>2. ~CommitFail
  BY GivenIs DEF CommitFail, May
<1>3. QED
  BY <1>1, <1>2, SetFullMap, WriteRecordMap, CommitMap, RetireMap DEF SetStep

\* The write of INVALID takes the only record of the key away: here the delete
\* takes effect.
LEMMA RemoveMap ==
    ASSUME Given, Remove
    PROVE  MapKept
<1>0. /\ pc = "remove" /\ pc' = "forget" /\ call' = call /\ ret' = ret /\ UNCHANGED ram
      /\ sector' = sector /\ Dst' = Dst /\ RecordsInv /\ RecordsInv'
      /\ call.op = "delete" /\ call # NoCall /\ hdr[Dst] = ErasedHdr /\ Faults = {}
      /\ idx[call.key] \in Idx
      /\ SetSlot(sector, idx[call.key], Spoiled("INVALID"))
  BY GivenIs DEF Remove, Goto, May, Dst, ram, NoCall, IndexInv, RecordInv, Given,
     AloneInv, AlonePCs, WhereInv
<1>a. PICK k \in Keys : k = call.key
  BY <1>0, GivenIs DEF Calls, NoCall
<1> DEFINE a == slot[sector]
           a2 == slot'[sector]
           i == idx[k]
<1>1. /\ i \in Idx /\ i # NoIdx /\ i \in LiveOf(a, k) /\ i = Lookup(a, k)
      /\ \A l \in Keys : idx[l] = Lookup(a, l)
  <2>1. i \in Idx /\ i # NoIdx
    BY <1>0, <1>a, NAssumption DEF Idx, NoIdx
  <2>2. QED
    BY <1>0, <2>1, EntryIsMapped
<1>2. /\ hdr' = hdr /\ slot'[Dst] = slot[Dst] /\ a2[i] = Spoiled("INVALID")
      /\ \A j \in Idx : j # i => a2[j] = a[j]
      /\ HdrsOK(hdr') /\ Twins(hdr', slot')
      /\ Store = Contents(a) /\ Store' = Contents(a2)
      /\ a \in [Idx -> Rec] /\ a2 \in [Idx -> Rec] /\ Packed(a) /\ Packed(a2)
  BY <1>0, <1>a, <1>1, RecordWritten DEF RecordPCs
<1>3. IsLive(a[i]) /\ a[i].key = k
  BY <1>1, <1>2, LiveIs
<1>4. ~IsLive(a2[i]) /\ a2[i].flags = "INVALID" /\ a[i].flags # "INVALID"
  BY <1>2, <1>3 DEF IsLive, Spoiled
<1>5. \A l \in Keys : LiveOf(a2, l) = LiveOf(a, l) \ {i} /\ (l # k => i \notin LiveOf(a, l))
  BY <1>1, <1>2, <1>3, <1>4, Dropped
<1>6. ASSUME NEW l \in Keys, l # k
      PROVE  Lookup(a2, l) = Lookup(a, l) /\ Contents(a2)[l] = Contents(a)[l]
  <2>1. i # Lookup(a, l)
    BY <1>1, <1>2, <1>5, <1>6, LookupIs
  <2>2. QED
    BY <1>1, <1>2, <1>3, <1>4, <2>1, Dropped
<1>7. Lookup(a2, k) = NoIdx /\ Contents(a2)[k] = NoVal
  <2>1. \A x \in LiveOf(a, k) : x = i
    BY <1>0, <1>1, GivenIs DEF SingleInv
  <2>2. LiveOf(a2, k) = {}
    BY <1>5, <2>1
  <2>3. QED
    BY <1>2, <2>2, LookupIs
<1>8. TableInv'
  <2>1. idx' = idx
    BY <1>0 DEF ram
  <2>2. \A l \in Keys : IF l = k THEN Lookup(a2, l) = NoIdx ELSE idx'[l] = Lookup(a2, l)
    BY <1>1, <1>6, <1>7, <2>1
  <2>3. QED
    BY <1>0, <1>a, <2>2 DEF TableInv
<1>9. CountersInv'
  <2>1. /\ Cardinality(Live(a2)) = Cardinality(Live(a)) - 1
        /\ Cardinality(With(a2, {"INVALID"})) = Cardinality(With(a, {"INVALID"})) + 1
        /\ Cardinality(Live(a)) \in Nat /\ Cardinality(With(a, {"INVALID"})) \in Nat
    BY <1>1, <1>2, <1>3, <1>4, CountsAre
  <2>2. inuse = Cardinality(Live(a)) + 0 /\ invalid = Cardinality(With(a, {"INVALID"})) - 0
    BY <1>0, GivenIs DEF CountersInv, Loaded, LoadedPCs
  <2>3. inuse' = inuse /\ invalid' = invalid
    BY <1>0 DEF ram
  <2>4. inuse' = Cardinality(Live(a2)) + 1 /\ invalid' = Cardinality(With(a2, {"INVALID"})) - 1
    BY <2>1, <2>2, <2>3
  <2>5. QED
    BY <1>0, <2>4 DEF CountersInv
<1>10. NoNewRecord
  <2>1. \A s \in Sectors : s = sector \/ s = Dst
    BY GivenIs DEF Sectors, Dst, Other
  <2>2. QED
    BY <1>2, <1>4, <2>1 DEF NoNewRecord
<1>11. SingleInv'
  BY <1>0, <1>10, GivenIs, SingleKept
<1>12. MapInv'
  BY <1>0, <1>2, <1>8, <1>9, <1>11, GivenIs
     DEF MapInv, WhereInv, AloneInv, FreshInv, MovedInv, SwappedInv
<1>13. Store' = Map!Effect(call)
  <2>1. Map!Effect(call) = [Store EXCEPT ![k] = NoVal]
    BY <1>0, <1>a, EffectIs
  <2>2. Store = [l \in Keys |-> Contents(a)[l]] /\ Store' = [l \in Keys |-> Contents(a2)[l]]
    BY <1>2 DEF Contents
  <2>3. QED
    BY <1>6, <1>7, <2>1, <2>2
<1>14. QED
  BY <1>0, <1>12, <1>13, MapApplies DEF MapKept

LEMMA ForgetMap ==
    ASSUME Given, Forget
    PROVE  MapKept
<1>0. /\ pc = "forget" /\ pc' = "idle" /\ call' = NoCall /\ ret' = "EOK" /\ UNCHANGED flash
      /\ sector' = sector /\ Dst' = Dst /\ RecordsInv
      /\ call.op = "delete" /\ call # NoCall /\ hdr[Dst] = ErasedHdr /\ hdr[sector] = ValidHdr
      /\ idx' = [idx EXCEPT ![call.key] = NoIdx]
      /\ idx \in [Keys -> Idx \cup {NoIdx}]
      /\ inuse' = inuse - 1 /\ invalid' = invalid + 1
      /\ inuse \in Int /\ invalid \in Int
  BY GivenIs, InUse
     DEF Forget, Return, Dst, NoCall, IndexInv, RecordInv, Given, TypeOK, AloneInv, AlonePCs, UsePCs
<1>a. PICK k \in Keys : k = call.key
  BY <1>0, GivenIs DEF Calls, NoCall
<1> DEFINE a == slot[sector]
<1>1. /\ Lookup(a, k) = NoIdx
      /\ \A l \in Keys : l # k => idx[l] = Lookup(a, l)
      /\ inuse = Cardinality(Live(a)) + 1 /\ invalid = Cardinality(With(a, {"INVALID"})) - 1
  BY <1>0, <1>a, GivenIs DEF TableInv, CountersInv, Loaded, LoadedPCs
<1>2. /\ NoNewRecord /\ hdr' = hdr /\ slot' = slot /\ HdrsOK(hdr') /\ Twins(hdr', slot')
  BY <1>0, GivenIs, FlashUntouched
<1>3. SingleInv'
  BY <1>0, <1>2, GivenIs, SingleKept
<1>4. TableInv'
  <2>1. \A l \in Keys : idx'[l] = Lookup(a, l)
    BY <1>0, <1>a, <1>1
  <2>2. QED
    BY <1>0, <1>2, <2>1 DEF TableInv
<1>5. CountersInv'
  <2>1. a \in [Idx -> Rec] /\ Packed(a)
    BY GivenIs DEF FlashOK, FlashTypes
  <2>2. Cardinality(Live(a)) \in Int /\ Cardinality(With(a, {"INVALID"})) \in Int
    <3>1. Live(a) \in SUBSET Idx /\ With(a, {"INVALID"}) \in SUBSET Idx
      BY DEF Live, With, Scanned
    <3>2. QED
      BY <3>1, IdxFinite
  <2>3. inuse' = Cardinality(Live(a)) + 0 /\ invalid' = Cardinality(With(a, {"INVALID"})) - 0
    BY <1>0, <1>1, <2>2
  <2>4. QED
    BY <1>0, <1>2, <2>3 DEF CountersInv
<1>6. MapInv'
  BY <1>0, <1>2, <1>3, <1>4, <1>5
     DEF MapInv, WhereInv, NoCall, AloneInv, FreshInv, MovedInv, SwappedInv
<1>7. Store = Contents(a) /\ Store' = Store
  BY <1>0, <1>2, GivenIs, StoreNow DEF Store
<1>8. Store = Map!Effect(call)
  <2>1. Store[k] = NoVal
    BY <1>1, <1>7 DEF Contents, ValueAt
  <2>2. QED
    BY <1>0, <1>a, <1>7, <2>1, EffectIs DEF Contents
<1>9. QED
  BY <1>0, <1>6, <1>7, <1>8, MapReturns DEF MapKept

LEMMA DeleteStepMap ==
    ASSUME Given, DeleteStep
    PROVE  MapKept
BY RemoveMap, ForgetMap DEF DeleteStep

-----------------------------------------------------------------------------
(***************************************************************************)
(* The client's calls, and the loss of power.                              *)
(***************************************************************************)
LEMMA StartMap ==
    ASSUME Given, Start
    PROVE  MapKept
<1>0. /\ pc = "off" /\ pc' \in {"scrub1", "reset1"} /\ call' = [NoCall EXCEPT !.op = "load"]
      /\ call = NoCall /\ UNCHANGED flash /\ ret' = ret /\ RecordsInv
      /\ pc' = IF Validate(hdr) = "EOK" THEN "scrub1" ELSE "reset1"
      /\ hdr \in [Sectors -> Hdr]
  BY GivenIs DEF Start, WhereInv, Given, FlashOK, FlashTypes
<1>1. /\ NoNewRecord /\ hdr' = hdr /\ slot' = slot /\ HdrsOK(hdr') /\ Twins(hdr', slot')
  BY <1>0, GivenIs, FlashUntouched
<1>2. SingleInv'
  BY <1>0, <1>1, GivenIs, SingleKept
<1>3. pc' = "reset1" => Fresh(hdr)
  <2>1. SomeValid(hdr) => Validate(hdr) = "EOK"
    BY <1>0, GivenIs, ValidateEOK
       DEF SomeValid, HdrsOK, Sectors, KnownFlags, ErasedHdr, InitHdr, ValidHdr
  <2>2. QED
    BY <1>0, <2>1, GivenIs DEF HdrsOK
<1>4. FreshInv' /\ call'.op = "load"
  BY <1>0, <1>1, <1>3 DEF FreshInv, NoCall
<1>5. pc' = "reset1" => \E s \in Sectors : hdr'[s] = ErasedHdr
  BY <1>1, <1>3 DEF Fresh, Sectors
<1>6. MapInv'
  BY <1>0, <1>1, <1>2, <1>4, <1>5, EarlyMap DEF LoadPCs
<1>7. Store' = Store
  BY <1>1 DEF Store
<1>8. ret' = "none"
  BY <1>0, GivenIs DEF WhereInv
<1>9. QED
  BY <1>0, <1>6, <1>7, <1>8, MapInvokes DEF MapKept

\* What a client may call.
LEMMA DeletesDoNotFail ==
    ASSUME Given, NEW k \in Deletable
    PROVE  k \in Keys /\ Faults = {}
BY DeletableAssumption DEF Given, Benign

LEMMA SetMap ==
    ASSUME Given, NEW p \in Puts, Set(p[1], p[2])
    PROVE  MapKept
<1>0. /\ pc = "idle" /\ pc' \in {"swapErase", "write"} /\ ret' = "none"
      /\ call' = [op |-> "set", key |-> p[1], val |-> p[2]]
      /\ UNCHANGED <<flash, ram>>
  BY DEF Set, Invoke
<1>1. p[1] \in Keys /\ p[2] \in Vals
  BY PutsAssumption
<1>2. MapInv' /\ Store' = Store
  BY <1>0, QuietMap
<1>3. call = NoCall
  BY <1>0, GivenIs DEF WhereInv
<1>4. call' \in [op : {"set"}, key : Keys, val : Vals]
  BY <1>0, <1>1
<1>5. QED
  BY <1>0, <1>2, <1>3, <1>4, MapInvokes DEF MapKept

LEMMA DeleteMap ==
    ASSUME Given, NEW k \in Deletable, Delete(k)
    PROVE  MapKept
<1>0. /\ pc = "idle" /\ call = NoCall /\ UNCHANGED <<flash, ram>>
      /\ k \in Keys /\ Faults = {} /\ NoCall.op = "none"
  BY GivenIs, DeletesDoNotFail DEF Delete, WhereInv, NoCall
<1>1. CASE idx[k] = NoIdx
  <2>1. pc' = "idle" /\ call' = NoCall /\ ret' = "E_NOTFOUND"
    BY <1>0, <1>1 DEF Delete
  <2>2. MapInv' /\ Store' = Store
    BY <1>0, <2>1, QuietMap
  <2>3. Store[k] = NoVal
    BY <1>0, <1>1, EntryIsMapped
  <2>4. Map!NotFound
    BY <1>0, <2>1, <2>2, <2>3 DEF Map!NotFound, Map!NoCall, NoCall, Done
  <2>5. QED
    BY <2>2, <2>4 DEF MapKept, Map!Next
<1>2. CASE idx[k] # NoIdx
  <2>1. pc' = "remove" /\ ret' = "none" /\ call' = [op |-> "delete", key |-> k, val |-> NoVal]
    BY <1>2 DEF Delete
  <2>2. MapInv' /\ Store' = Store
    BY <1>0, <2>1, QuietMap
  <2>3. call' \in [op : {"delete"}, key : Keys, val : {NoVal}]
    BY <1>0, <2>1
  <2>4. QED
    BY <1>0, <2>1, <2>2, <2>3, MapInvokes DEF MapKept
<1>3. QED
  BY <1>1, <1>2

LEMMA RepairMap ==
    ASSUME Given, Repair
    PROVE  MapKept
<1>0. /\ pc = "idle" /\ pc' = "moveErase" /\ ret' = "none" /\ call = NoCall
      /\ call' = [op |-> "repair", key |-> NoKey, val |-> NoVal]
      /\ UNCHANGED <<flash, ram>>
  BY GivenIs DEF Repair, Invoke, WhereInv, NoCall
<1>1. MapInv' /\ Store' = Store
  BY <1>0, QuietMap
<1>2. call' \in [op : {"repair", "reset", "wipe"}, key : {NoKey}, val : {NoVal}]
  BY <1>0
<1>3. QED
  BY <1>0, <1>1, <1>2, MapInvokes DEF MapKept

\* A loaded volume is erased by nvol3_reset or by nvol3_delete.
LEMMA ResetMap ==
    ASSUME Given, Reset \/ Wipe
    PROVE  MapKept
<1>0. /\ pc = "idle" /\ pc' = "reset1" /\ ret' = "none" /\ call = NoCall /\ UNCHANGED flash
      /\ call'.op \in {"reset", "wipe"} /\ RecordsInv
      /\ call' \in [op : {"repair", "reset", "wipe"}, key : {NoKey}, val : {NoVal}]
  BY GivenIs DEF Reset, Wipe, Invoke, WhereInv, NoCall, Given
<1>1. /\ NoNewRecord /\ hdr' = hdr /\ slot' = slot /\ HdrsOK(hdr') /\ Twins(hdr', slot')
  BY <1>0, GivenIs, FlashUntouched
<1>2. SingleInv'
  BY <1>0, <1>1, GivenIs, SingleKept
<1>3. \E s \in Sectors : hdr'[s] = ErasedHdr
  BY <1>0, <1>1, GivenIs DEF AloneInv, AlonePCs
<1>4. FreshInv'
  BY <1>0 DEF FreshInv
<1>5. MapInv'
  BY <1>0, <1>1, <1>2, <1>3, <1>4, EarlyMap DEF LoadPCs
<1>6. Store' = Store
  BY <1>1 DEF Store
<1>7. QED
  BY <1>0, <1>5, <1>6, MapInvokes DEF MapKept

LEMMA UnloadMap ==
    ASSUME Given, Unload
    PROVE  MapKept
<1>0. /\ pc = "idle" /\ PowerOff /\ UNCHANGED flash /\ call = NoCall
  BY GivenIs DEF Unload, WhereInv
<1>1. /\ NoNewRecord /\ hdr' = hdr /\ slot' = slot /\ HdrsOK(hdr') /\ Twins(hdr', slot')
  BY <1>0, GivenIs, FlashUntouched
<1>2. SingleInv'
  BY <1>0, <1>1, GivenIs, SingleKept DEF PowerOff
<1>3. MapInv' /\ Store' = Store
  BY <1>0, <1>1, <1>2, PowerOffMap DEF Store
<1>4. Map!Down
  BY <1>0, <1>3 DEF Map!Down, Map!NoCall, NoCall, Done, PowerOff
<1>5. QED
  BY <1>3, <1>4 DEF MapKept, Map!Next

LEMMA ClientMap ==
    ASSUME Given, Client
    PROVE  MapKept
BY StartMap, SetMap, DeleteMap, RepairMap, ResetMap, UnloadMap DEF Client

-----------------------------------------------------------------------------
\* A loss of power that leaves the map as it was.
LEMMA LossMap ==
    ASSUME Given, pc # "off", PowerOff, SingleInv \/ Faults # {}, SingleInv',
           HdrsOK(hdr'), Twins(hdr', slot'), Store' = Store
    PROVE  MapKept
BY PowerOffMap, MapLosesPower DEF MapKept

LEMMA CrashMap ==
    ASSUME Given, Crash
    PROVE  MapKept
<1>0. pc # "off" /\ PowerOff /\ UNCHANGED flash /\ Faults # {}
  BY DEF Crash, May
<1>1. /\ hdr' = hdr /\ slot' = slot /\ HdrsOK(hdr') /\ Twins(hdr', slot')
  BY <1>0, GivenIs, FlashUntouched
<1>2. SingleInv' /\ Store' = Store
  BY <1>0, <1>1 DEF SingleInv, Store
<1>3. QED
  BY <1>0, <1>1, <1>2, LossMap

\* Inside the write of the new record: it does not become good.
LEMMA TornNewMap ==
    ASSUME Given, PowerOff, Faults # {}, pc = "write", ~VolumeFull,
           NEW x \in TornWrites(slot[sector][next], "NEW"), SetSlot(sector, next, x)
    PROVE  MapKept
<1> DEFINE a == slot[sector]
           a2 == slot'[sector]
<1>1. next \in Idx /\ a[next].flags = "EMPTY"
  <2>1. RecordsInv
    BY DEF Given
  <2>2. next \in Idx
    BY <2>1, RoomToWrite
  <2>3. QED
    BY <2>1, <2>2 DEF RecordsInv, LoadedInv, Loaded, LoadedPCs, FilledTo, Unused, Idx
<1>2. /\ a2[next] = x /\ HdrsOK(hdr') /\ Twins(hdr', slot')
      /\ \A j \in Idx : j # next => a2[j] = a[j]
      /\ Store = Contents(a) /\ Store' = Contents(a2)
      /\ a \in [Idx -> Rec] /\ a2 \in [Idx -> Rec] /\ Packed(a) /\ Packed(a2)
  BY <1>1, RecordWritten DEF RecordPCs
<1>3. ~IsLive(a[next]) /\ ~IsLive(x)
  BY <1>1 DEF IsLive, TornWrites, Program, Spoiled
<1>4. Store' = Store
  BY <1>1, <1>2, <1>3, SameLive
<1>5. SingleInv'
  BY DEF SingleInv
<1>6. QED
  BY <1>2, <1>4, <1>5, LossMap

\* Inside the copy of a record by move_sector or swap_sectors: the copy is not
\* used before it is finished.
LEMMA TornCopyMap ==
    ASSUME Given, PowerOff, Faults # {}, pc \in {"moveCopy", "swapCopy"},
           NEW x, SetSlot(Dst, dst_i, x)
    PROVE  MapKept
<1>1. hdr' = hdr /\ slot'[sector] = slot[sector]
  BY GivenIs DEF SetSlot, FlashOK, FlashTypes
<1>2. hdr[Dst] # ValidHdr
  BY GivenIs DEF HdrInv, CopyInv
<1>3. Twins(hdr', slot')
  BY <1>1, <1>2, GivenIs DEF Twins, Sectors, Dst, Other
<1>4. Store' = Store
  BY <1>1, <1>3, GivenIs, StoreStays DEF UsePCs, MovePCs
<1>5. SingleInv'
  BY DEF SingleInv
<1>6. QED
  BY <1>1, <1>3, <1>4, <1>5, GivenIs, LossMap

\* Inside the write of INVALID over the previous record of the key.
LEMMA TornRetireMap ==
    ASSUME Given, PowerOff, Faults # {}, pc = "retire", idx[call.key] # NoIdx,
           SetSlot(sector, idx[call.key], Torn(slot[sector][idx[call.key]]))
    PROVE  MapKept
<1>1. PICK k \in Keys : k = call.key
  BY GivenIs DEF Calls, NoCall, IndexInv, RecordInv
<1>2. ~IsLive(Torn(slot[sector][idx[k]]))
  BY DEF IsLive, Torn, Spoiled
<1>3. idx[k] \in Idx /\ Store' = Store
  BY <1>1, <1>2, OldRecordMarked
<1>4. HdrsOK(hdr') /\ Twins(hdr', slot')
  BY <1>1, <1>3, RecordWritten DEF RecordPCs
<1>5. SingleInv'
  BY DEF SingleInv
<1>6. QED
  BY <1>3, <1>4, <1>5, LossMap

\* Inside construct_lookup_table, which marks records that were not good anyway.
LEMMA TornBuildMap ==
    ASSUME Given, PowerOff, Faults # {}, pc # "off", NEW s \in Sectors,
           NEW m \in SUBSET Bad(slot[s]), MarkBad(s, m)
    PROVE  MapKept
<1>1. /\ hdr' = hdr /\ \A u \in Sectors : u # s => slot'[u] = slot[u]
      /\ \A i \in Idx : slot'[s][i] = IF i \in m THEN Spoiled("INVALID") ELSE slot[s][i]
  BY GivenIs DEF MarkBad, FlashOK, FlashTypes
<1>2. /\ slot[s] \in [Idx -> Rec] /\ slot'[s] \in [Idx -> Rec]
      /\ Packed(slot[s]) /\ Packed(slot'[s])
  BY GivenIs DEF FlashOK, FlashTypes
<1>3. ~IsLive(Spoiled("INVALID")) /\ \A i \in m : ~IsLive(slot[s][i])
  BY <1>2, LiveIs DEF Spoiled, IsLive
<1>4. \A i \in Idx : slot'[s][i] = slot[s][i] \/ (~IsLive(slot[s][i]) /\ ~IsLive(slot'[s][i]))
  BY <1>1, <1>3
<1>5. Contents(slot'[s]) = Contents(slot[s])
  BY <1>2, <1>4, SameLive
<1>6. \A u \in Sectors : Contents(slot'[u]) = Contents(slot[u])
  BY <1>1, <1>5
<1>7. Twins(hdr', slot')
  BY <1>1, <1>6, GivenIs DEF Twins
<1>8. Store' = Store
  BY <1>1, <1>6, <1>7, GivenIs, StoreNow, StoreThen DEF HdrsOK, SomeValid, Given
<1>9. SingleInv'
  BY DEF SingleInv
<1>10. QED
  BY <1>1, <1>7, <1>8, <1>9, GivenIs, LossMap

LEMMA PowerLossMap ==
    ASSUME Given, PowerLoss
    PROVE  MapKept
<1>1. CASE TornWrite
  <2>1. PowerOff /\ Faults # {}
    BY <1>1 DEF TornWrite, May
  <2>2. CASE /\ pc = "write" /\ ~VolumeFull
             /\ \E x \in TornWrites(slot[sector][next], "NEW") : SetSlot(sector, next, x)
    BY <2>1, <2>2, TornNewMap
  <2>3. CASE /\ pc \in {"moveCopy", "swapCopy"}
             /\ \E x \in TornWrites(slot[Dst][dst_i], "VALID") : SetSlot(Dst, dst_i, x)
    BY <2>1, <2>3, TornCopyMap
  <2>4. CASE /\ pc \in {"retire", "remove"} /\ idx[call.key] # NoIdx
             /\ SetSlot(sector, idx[call.key], Torn(slot[sector][idx[call.key]]))
    <3>1. pc # "remove"
      BY <2>1, GivenIs DEF IndexInv, RecordInv, WhereInv
    <3>2. QED
      BY <2>1, <2>4, <3>1, TornRetireMap
  <2>5. CASE pc = "build" /\ \E m \in SUBSET Bad(slot[sector]) : MarkBad(sector, m)
    BY <2>1, <2>5, GivenIs, TornBuildMap
  <2>6. CASE pc = "switch" /\ \E m \in SUBSET Bad(slot[Dst]) : MarkBad(Dst, m)
    BY <2>1, <2>6, GivenIs, TornBuildMap
  <2>7. QED
    BY <1>1, <2>2, <2>3, <2>4, <2>5, <2>6 DEF TornWrite
<1>2. ~TornHeader /\ ~TornErase
  BY DEF TornHeader, TornErase, Given, Benign, May
<1>3. QED
  BY <1>1, <1>2, CrashMap DEF PowerLoss

-----------------------------------------------------------------------------
\* next_idx never passes the end of the sector.
NextInv == next <= N

LEMMA NextStep ==
    ASSUME WritesWork, RecordsInv, NextInv, [Next]_vars
    PROVE  NextInv'
<1>0. FlashTypes /\ SlotInv /\ sector \in Sectors /\ Dst \in Sectors
  BY DEF RecordsInv, IndexInv, TypeOK, FlashTypes, Sectors, Dst, Other
<1>1. \A s \in Sectors : Construct(s) => next' <= N
  BY <1>0, ConstructIs
<1>2. NoRam => next' <= N
  BY NAssumption DEF NoRam
<1>3. CASE Build \/ Switch
  BY <1>0, <1>1, <1>3 DEF Build, Switch, NextInv
<1>4. CASE WriteRecordFail
  <2>1. pc = "write" /\ ~VolumeFull /\ next >= N
    BY <1>4 DEF WriteRecordFail, WritesWork, May
  <2>2. QED
    BY <2>1, RoomToWrite, NAssumption DEF Idx
<1>5. CASE Commit
  <2>1. next \in Idx /\ next' = next + 1
    BY <1>5, IndexesInSector DEF Commit, IndexChecksHold, RecordsInv
  <2>2. QED
    BY <2>1, NAssumption DEF NextInv, Idx
<1>6. CASE CommitFail
  BY <1>6 DEF CommitFail, WritesWork, May
<1>7. CASE next' = next
  BY <1>7 DEF NextInv
<1>8. CASE PowerOff \/ Reset
  BY <1>2, <1>8 DEF PowerOff, Reset, NextInv
<1>9. CASE LoadStep
  BY <1>3, <1>7, <1>8, <1>9
     DEF LoadStep, ResetErase1, ResetErase2, Scrub1, Scrub2, Scrub, PlanStep, FormatErase,
         FormatValid, DropOther, ram
<1>10. CASE MoveStep
  BY <1>7, <1>10 DEF MoveStep, MoveErase, MoveInit, MoveCopy, MoveValid, ram
<1>11. CASE SwapStep
  BY <1>3, <1>7, <1>11
     DEF SwapStep, SwapErase, SwapInit, SwapCopy, SwapCopyFail, SwapValid, EraseSource, ram
<1>12. CASE SetStep \/ DeleteStep
  BY <1>4, <1>5, <1>6, <1>7, <1>12
     DEF SetStep, SetFull, SetSame, WriteRecord, Retire, DeleteStep, Remove, Forget, ram
<1>13. CASE Client
  BY <1>7, <1>8, <1>13 DEF Client, Start, Set, Delete, Repair, Wipe, Unload, ram
<1>14. CASE PowerLoss
  BY <1>8, <1>14 DEF PowerLoss, Crash, TornWrite, TornHeader, TornErase
<1>15. CASE UNCHANGED vars
  BY <1>7, <1>15 DEF vars, ram
<1>16. QED
  BY <1>9, <1>10, <1>11, <1>12, <1>13, <1>14, <1>15 DEF Next, Step

LEMMA MapInit == Init => MapInv /\ Map!Init
<1> SUFFICES ASSUME Init PROVE MapInv /\ Map!Init
  OBVIOUS
<1>1. /\ pc = "off" /\ call = NoCall /\ ret = "none" /\ Fresh(hdr) /\ hdr \in [Sectors -> Hdr]
      /\ \A s \in Sectors : slot[s] = [i \in Idx |-> Blank]
  BY DEF Init, Fresh, ErasedHdr, Hdr, HdrFlags
<1>2. HdrsOK(hdr) /\ Twins(hdr, slot)
  BY <1>1 DEF Fresh, HdrsOK, Twins
<1>3. ~Loaded
  BY <1>1 DEF Loaded, LoadedPCs
<1>4. SingleInv
  <2>1. Blank.flags # "VALID"
    BY DEF Blank, Spoiled
  <2>2. \A s \in Sectors, k \in Keys : LiveOf(slot[s], k) = {}
    BY <1>1, <2>1 DEF LiveOf, Live, Scanned
  <2>3. QED
    BY <1>1, <2>2 DEF SingleInv
<1>5. MapInv
  BY <1>1, <1>2, <1>3, <1>4
     DEF MapInv, WhereInv, NoCall, AloneInv, AlonePCs, FreshInv, TableInv, CountersInv, MovedInv,
         SwappedInv
<1>6. Store = Nothing
  BY <1>1, <1>2, StoreIs DEF Store
<1>7. QED
  BY <1>1, <1>5, <1>6 DEF Map!Init, Map!Nothing, Map!NoCall, Nothing, NoCall, Done

\* Every step keeps the invariants and is a step of the map or a stutter.
LEMMA MapStep ==
    ASSUME Benign, RecordsInv, HdrInv, MapInv, [Next]_vars
    PROVE  RecordsInv' /\ HdrInv' /\ MapKept
<1>1. RecordsInv' /\ HdrInv'
  BY RecordsStep, HdrStep DEF Benign, WritesWork
<1>2. Given
  BY <1>1 DEF Given
<1>3. CASE Next
  BY <1>1, <1>2, <1>3, LoadStepMap, MoveStepMap, SwapStepMap, SetStepMap, DeleteStepMap, ClientMap,
     PowerLossMap DEF Next, Step
<1>4. CASE UNCHANGED vars
  <2> USE <1>4 DEF vars, flash, ram, ctl
  <2>1. /\ HdrsOK(hdr') /\ Twins(hdr', slot')
        /\ WhereInv' <=> WhereInv
    BY <1>2, GivenIs DEF WhereInv
  <2>2. AloneInv' /\ FreshInv'
    BY <1>2, GivenIs DEF AloneInv, FreshInv, Dst
  <2>3. Loaded' <=> Loaded
    BY DEF Loaded
  <2>4. TableInv' /\ CountersInv'
    BY <1>2, <2>3, GivenIs DEF TableInv, CountersInv, LastWritten
  <2>5. SingleInv'
    BY <1>2, GivenIs DEF SingleInv, LastWritten
  <2>6. MovedInv' /\ SwappedInv'
    BY <1>2, GivenIs DEF MovedInv, SwappedInv, Passed, Entries, Dst
  <2>7. UNCHANGED (Map!vars)
    BY DEF Map!vars, Store, Done
  <2>8. QED
    BY <1>1, <1>2, <2>1, <2>2, <2>4, <2>5, <2>6, <2>7, GivenIs DEF MapInv, MapKept
<1>5. QED
  BY <1>1, <1>3, <1>4

-----------------------------------------------------------------------------
\* A volume implements a durable map (registry.c over nvol3.c): a call takes
\* effect at most once, between its start and its return, at the one FLASH write
\* that NvolDurable names; one that returned EOK has; and neither a loss of power
\* anywhere between or inside the writes of records, nor swap_sectors, nor
\* nvol3_repair, nor a load, changes the map.
THEOREM VolumeIsDurable ==
    ASSUME Benign
    PROVE  Spec => Durable
<1>1. Init => RecordsInv /\ HdrInv /\ MapInv /\ Map!Init
  BY RecordsInit, HdrInit, MapInit
<1>2. ASSUME RecordsInv /\ HdrInv /\ MapInv, [Next]_vars
      PROVE  (RecordsInv /\ HdrInv /\ MapInv)' /\ [Map!Next]_(Map!vars)
  BY <1>2, MapStep DEF MapKept
<1>3. QED
  BY <1>1, <1>2, PTL DEF Spec, Durable, Map!Spec

\* Between calls RAM is what construct_lookup_table would make of the sector
\* now: the dictionary, next_idx, the counters, and every value
\* nvol3_record_get returns.
THEOREM RamAlwaysMatchesFlash ==
    ASSUME Benign
    PROVE  Spec => []RamMatchesFlash
<1>1. Init => RecordsInv /\ HdrInv /\ MapInv /\ NextInv
  BY RecordsInit, HdrInit, MapInit, NAssumption DEF NextInv, Init
<1>2. ASSUME RecordsInv /\ HdrInv /\ MapInv /\ NextInv, [Next]_vars
      PROVE  (RecordsInv /\ HdrInv /\ MapInv /\ NextInv)'
  <2>1. WritesWork
    BY DEF Benign, WritesWork
  <2>2. QED
    BY <1>2, <2>1, MapStep, NextStep DEF MapKept
<1>3. ASSUME RecordsInv, MapInv, NextInv, pc = "idle"
      PROVE  /\ \A k \in Keys : idx[k] = Lookup(slot[sector], k)
                                /\ RecordGet(k) = Contents(slot[sector])[k]
             /\ next = Cardinality(Scanned(slot[sector]))
             /\ inuse = Cardinality(Live(slot[sector]))
             /\ invalid = Cardinality(With(slot[sector], {"INVALID"}))
  <2>1. /\ FlashTypes /\ SlotInv /\ sector \in Sectors /\ next \in Nat
        /\ FilledTo(sector, next) /\ \A k \in Keys : idx[k] # NoIdx => Good(k)
        /\ inuse \in Int /\ invalid \in Int
    BY <1>3 DEF RecordsInv, IndexInv, TypeOK, FlashTypes, LoadedInv, Loaded, LoadedPCs, Exempt
  <2>2. /\ \A k \in Keys : idx[k] = Lookup(slot[sector], k)
        /\ inuse = Cardinality(Live(slot[sector])) + 0
        /\ invalid = Cardinality(With(slot[sector], {"INVALID"})) - 0
    BY <1>3 DEF MapInv, TableInv, CountersInv, Loaded, LoadedPCs
  <2>3. ASSUME NEW k \in Keys PROVE RecordGet(k) = Contents(slot[sector])[k]
    <3>1. Contents(slot[sector])[k] = ValueAt(slot[sector], idx[k])
      BY <2>2 DEF Contents
    <3>2. CASE idx[k] = NoIdx
      BY <3>1, <3>2 DEF RecordGet, ValueAt
    <3>3. CASE idx[k] # NoIdx
      <4>1. /\ slot[sector][idx[k]].flags = "VALID"
            /\ local[k] = Cache(slot[sector][idx[k]].val)
        BY <2>1, <3>3 DEF Good, GoodIn
      <4>2. local[k] # NoVal => local[k] = slot[sector][idx[k]].val
        BY <4>1 DEF Cache
      <4>3. QED
        BY <3>1, <3>3, <4>1, <4>2 DEF RecordGet, ValueAt
    <3>4. QED
      BY <3>2, <3>3
  <2>4. next = Cardinality(Scanned(slot[sector]))
    <3>1. next \in 0 .. N
      BY <1>3, <2>1, NAssumption DEF NextInv
    <3>2. QED
      BY <2>1, <3>1, ScannedIs, FilledOnce
  <2>5. Cardinality(Live(slot[sector])) \in Nat /\ Cardinality(With(slot[sector], {"INVALID"})) \in Nat
    <3>1. Live(slot[sector]) \in SUBSET Idx /\ With(slot[sector], {"INVALID"}) \in SUBSET Idx
      BY DEF Live, With, Scanned
    <3>2. QED
      BY <3>1, IdxFinite
  <2>6. QED
    BY <2>2, <2>3, <2>4, <2>5
<1>4. RecordsInv /\ MapInv /\ NextInv => RamMatchesFlash
  BY <1>3 DEF RamMatchesFlash
<1>5. QED
  BY <1>1, <1>2, <1>4, PTL DEF Spec
=============================================================================
