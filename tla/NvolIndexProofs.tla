--------------------------- MODULE NvolIndexProofs ---------------------------
(***************************************************************************)
(* First, the sector in use is a valid one: InUseIsValid for every number  *)
(* of slots, every set of keys and values, and every fault but a driver    *)
(* that reports a failed header write or erase (which init_sectors         *)
(* ignores).  Then every variable keeps its type and every record index    *)
(* stays inside its sector, under every fault.                             *)
(***************************************************************************)
EXTENDS Nvol, TLAPS, FiniteSetTheorems, WellFoundedInduction

-----------------------------------------------------------------------------
(***************************************************************************)
(* The headers of the sectors.                                             *)
(***************************************************************************)
ValidHdr == [flags |-> "VALID", ver |-> TRUE]
InitHdr  == [flags |-> "INIT", ver |-> TRUE]

LoadOps == {"load", "reset", "wipe"}

\* Places where the sector in use is a finished one, whatever the call.
UsePCs == {"idle", "dropOther", "build", "swapErase", "swapInit", "swapCopy",
           "eraseSource", "write", "commit", "retire", "remove", "forget"}
\* Places where it may be one that was never finished, when loading.
MovePCs == {"moveErase", "moveInit", "moveCopy", "switch"}
\* Places only a load, a reset or nvol3_delete reaches.
LoadPCs == {"reset1", "reset2", "scrub1", "scrub2", "plan", "formatErase",
            "formatValid", "dropOther", "build"}

HdrTypes ==
    /\ hdr \in [Sectors -> Hdr]
    /\ sector \in Sectors
    /\ pc \in PCs

\* Only sector 1 is ever formatted, so only its version can be missing.
Sector2 == hdr[2].flags = "VALID" => hdr[2].ver

\* What init_sectors can count on: nvol3_validate has accepted the volume, or
\* nvol3_reset has erased it.
Accepted == Validate(hdr) = "EOK" \/ \A s \in Sectors : hdr[s].flags = "EMPTY"

LoadInv ==
    /\ pc = "reset2" => hdr[1].flags = "EMPTY"
    /\ pc \in {"scrub1", "scrub2", "plan"} => Accepted
    /\ pc \in {"formatErase", "formatValid"} => sector = 1
    /\ pc = "formatValid" => hdr[1].flags = "EMPTY"
    /\ pc \in LoadPCs => call.op \in LoadOps

UseInv ==
    /\ pc \in UsePCs => hdr[sector] = ValidHdr
    /\ pc \in MovePCs /\ call.op \notin LoadOps => hdr[sector] = ValidHdr

\* The stages of the other sector in move_sector and swap_sectors.
CopyInv ==
    /\ pc \in {"moveInit", "swapInit"} => hdr[Dst].flags = "EMPTY"
    /\ pc \in {"moveCopy", "swapCopy"} => hdr[Dst] = InitHdr
    /\ pc = "switch" => hdr[Dst] = ValidHdr

HdrInv == HdrTypes /\ Sector2 /\ LoadInv /\ UseInv /\ CopyInv

-----------------------------------------------------------------------------
(***************************************************************************)
(* nvol3_validate, without the choice of the first sector.                 *)
(***************************************************************************)
KnownFlags == {"INIT", "VALID"}

\* What the version check says: the first of the two sectors that has known
\* flags has the right version.
LEMMA ValidateEOK ==
    ASSUME NEW h \in [Sectors -> Hdr]
    PROVE  Validate(h) = "EOK" <=>
               \/ h[1].flags \in KnownFlags /\ h[1].ver
               \/ h[1].flags \notin KnownFlags /\ h[2].flags \in KnownFlags /\ h[2].ver
<1> DEFINE known == {s \in Sectors : h[s].flags \in KnownFlags}
<1>1. h[1].ver \in BOOLEAN /\ h[2].ver \in BOOLEAN
  BY DEF Sectors, Hdr
<1>2. ASSUME NEW m \in known, \A s \in known : m <= s
      PROVE  Min(known) = m
  BY <1>2 DEF Min, Sectors
<1>3. Validate(h) = "EOK" <=> known # {} /\ h[Min(known)].ver
  <2>1. known = {s \in Sectors : h[s].flags \in {"INIT", "VALID"}}
    BY DEF KnownFlags
  <2> HIDE DEF known
  <2>2. Validate(h) = IF known = {} THEN "EFAIL"
                      ELSE IF h[Min(known)].ver THEN "EOK" ELSE "E_VERSION"
    BY <2>1 DEF Validate
  <2>3. CASE known = {}
    BY <2>2, <2>3
  <2>4. CASE known # {} /\ h[Min(known)].ver
    BY <2>2, <2>4
  <2>5. CASE known # {} /\ ~h[Min(known)].ver
    BY <2>2, <2>5
  <2>6. QED
    BY <2>3, <2>4, <2>5
<1>4. CASE h[1].flags \in KnownFlags
  BY <1>1, <1>2, <1>3, <1>4 DEF Sectors
<1>5. CASE h[1].flags \notin KnownFlags /\ h[2].flags \in KnownFlags
  BY <1>1, <1>2, <1>3, <1>5 DEF Sectors
<1>6. CASE h[1].flags \notin KnownFlags /\ h[2].flags \notin KnownFlags
  BY <1>3, <1>6 DEF Sectors
<1>7. QED
  BY <1>4, <1>5, <1>6

-----------------------------------------------------------------------------
LEMMA HdrInit == Init => HdrInv
BY DEF Init, HdrInv, HdrTypes, Sector2, LoadInv, UseInv, CopyInv, Sectors, Hdr,
       HdrFlags, ErasedHdr, PCs, UsePCs, MovePCs, LoadPCs

\* What init_sectors makes of a volume it can count on.
LEMMA PlanOfAccepted ==
    ASSUME HdrTypes, Sector2, Accepted
    PROVE  /\ Plan(hdr).use \in Sectors
           /\ Plan(hdr).act \in {"eraseOther", "none"} => hdr[Plan(hdr).use] = ValidHdr
           /\ Plan(hdr).act = "format" => /\ Plan(hdr).use = 1
                                          /\ \A s \in Sectors : hdr[s].flags = "EMPTY"
<1> DEFINE f1 == Seen(hdr, 1)
           f2 == Seen(hdr, 2)
           use == Plan(hdr).use
           act == Plan(hdr).act
<1>1. /\ f1 \in {"EMPTY", "INIT", "VALID"} /\ f2 \in {"EMPTY", "INIT", "VALID"}
      /\ f1 = hdr[1].flags \/ (f1 = "EMPTY" /\ hdr[1].flags = "GARBAGE")
      /\ f2 = hdr[2].flags \/ (f2 = "EMPTY" /\ hdr[2].flags = "GARBAGE")
  BY DEF HdrTypes, Seen, KnownFlags, Sectors, Hdr, HdrFlags
<1>2. /\ f1 = "VALID" => use = 1 /\ act = "eraseOther"
      /\ f1 = "INIT" /\ f2 = "VALID" => use = 2 /\ act = "eraseOther"
      /\ f1 = "INIT" /\ f2 # "VALID" => use = 1 /\ act = "repair"
      /\ f1 = "EMPTY" /\ f2 = "VALID" => use = 2 /\ act = "none"
      /\ f1 = "EMPTY" /\ f2 = "INIT" => use = 2 /\ act = "repair"
      /\ f1 = "EMPTY" /\ f2 = "EMPTY" => use = 1 /\ act = "format"
  BY DEF Plan
<1>3. \/ hdr[1].flags \in KnownFlags /\ hdr[1].ver
      \/ hdr[1].flags \notin KnownFlags /\ hdr[2].flags \in KnownFlags /\ hdr[2].ver
      \/ hdr[1].flags = "EMPTY" /\ hdr[2].flags = "EMPTY"
  BY ValidateEOK DEF HdrTypes, Accepted, Sectors
<1>4. \A s \in Sectors : hdr[s].flags = "VALID" /\ hdr[s].ver => hdr[s] = ValidHdr
  BY DEF HdrTypes, ValidHdr, Hdr
<1> HIDE DEF f1, f2, use, act
<1>5. CASE f1 = "VALID"
  BY <1>1, <1>2, <1>3, <1>4, <1>5 DEF Sectors, KnownFlags, use, act
<1>6. CASE f1 = "INIT"
  BY <1>1, <1>2, <1>3, <1>4, <1>6 DEF Sector2, Sectors, KnownFlags, use, act
<1>7. CASE f1 = "EMPTY"
  BY <1>1, <1>2, <1>3, <1>4, <1>7 DEF Sector2, Sectors, KnownFlags, use, act
<1>8. QED
  BY <1>1, <1>5, <1>6, <1>7

\* A half written header is a header.
LEMMA TornHdrsType ==
    ASSUME NEW old \in Hdr, NEW f \in {"INIT", "VALID"}, NEW h \in TornHdrs(old, f)
    PROVE  h \in Hdr
<1>1. CASE h = old
  BY <1>1
<1>2. CASE h = [flags |-> "GARBAGE", ver |-> FALSE]
  BY <1>2 DEF Hdr, HdrFlags
<1>3. CASE h = [ProgramHdr(old, f) EXCEPT !.ver = old.ver]
  <2>1. ProgramHdr(old, f) \in Hdr
    BY DEF ProgramHdr, Hdr, HdrFlags
  <2>2. QED
    BY <1>3, <2>1 DEF Hdr
<1>4. QED
  BY <1>1, <1>2, <1>3 DEF TornHdrs

\* Erasing a sector with garbage flags does not change what nvol3_validate says.
LEMMA ScrubAccepted ==
    ASSUME HdrTypes, Accepted, NEW s \in Sectors, hdr[s].flags = "GARBAGE",
           hdr' = [hdr EXCEPT ![s] = ErasedHdr]
    PROVE  Accepted'
<1>1. hdr' \in [Sectors -> Hdr]
  BY DEF HdrTypes, ErasedHdr, Hdr, HdrFlags
<1>2. QED
  BY <1>1, ValidateEOK DEF HdrTypes, Accepted, KnownFlags, ErasedHdr, Sectors

\* A step keeps the headers as the invariant says, whatever the step does.
LEMMA HdrStep ==
    ASSUME "headerFail" \notin Faults, "eraseFail" \notin Faults,
           HdrInv, [Next]_vars
    PROVE  HdrInv'
<1> USE DEF HdrInv, HdrTypes, Sector2, LoadInv, UseInv, CopyInv, Sectors, Other, Dst,
            PCs, UsePCs, MovePCs, LoadPCs, LoadOps, Goto, Return, Invoke, May, NoCall
<1>0. /\ ErasedHdr \in Hdr /\ ErasedHdr.flags = "EMPTY"
      /\ ValidHdr \in Hdr /\ ValidHdr.flags = "VALID" /\ ValidHdr.ver
      /\ InitHdr \in Hdr /\ InitHdr.flags = "INIT" /\ InitHdr.ver
  BY DEF ErasedHdr, ValidHdr, InitHdr, Hdr, HdrFlags
<1>1. CASE ResetErase1
  BY <1>0, <1>1 DEF ResetErase1, TryErase, Erased, ram, flash
<1>2. CASE ResetErase2
  BY <1>0, <1>2 DEF ResetErase2, TryErase, Erased, ram, flash, PowerOff, NoRam, Accepted
<1>3. CASE Scrub1
  <2>1. /\ hdr' = hdr \/ (hdr[1].flags = "GARBAGE" /\ hdr' = [hdr EXCEPT ![1] = ErasedHdr])
        /\ pc = "scrub1" /\ pc' = IF 1 = 1 THEN "scrub2" ELSE "plan"
        /\ UNCHANGED <<sector, call>>
    BY <1>3 DEF Scrub1, Scrub, TryErase, Erased, ram, flash
  <2>2. Accepted'
    BY <2>1, ScrubAccepted DEF Accepted
  <2>3. QED
    BY <1>0, <2>1, <2>2
<1>4. CASE Scrub2
  <2>1. /\ hdr' = hdr \/ (hdr[2].flags = "GARBAGE" /\ hdr' = [hdr EXCEPT ![2] = ErasedHdr])
        /\ pc = "scrub2" /\ pc' = IF 2 = 1 THEN "scrub2" ELSE "plan"
        /\ UNCHANGED <<sector, call>>
    BY <1>4 DEF Scrub2, Scrub, TryErase, Erased, ram, flash
  <2>2. Accepted'
    BY <2>1, ScrubAccepted DEF Accepted
  <2>3. QED
    BY <1>0, <2>1, <2>2
<1>5. CASE PlanStep
  BY <1>0, <1>5, PlanOfAccepted DEF PlanStep, flash
<1>6. CASE FormatErase
  BY <1>0, <1>6 DEF FormatErase, TryErase, Erased, ram, flash
<1>7. CASE FormatValid
  <2>1. /\ pc = "formatValid" /\ pc' = "build"
        /\ sector = 1 /\ hdr[1].flags = "EMPTY"
        /\ UNCHANGED <<sector, call>>
    BY <1>7 DEF FormatValid, ram
  <2>2. ProgramHdr(hdr[1], "VALID") = ValidHdr
    BY <2>1 DEF ProgramHdr, ValidHdr
  <2>3. hdr' = [hdr EXCEPT ![1] = ValidHdr]
    BY <1>7, <2>1, <2>2 DEF FormatValid, TrySetHdr
  <2>4. QED
    BY <1>0, <2>1, <2>3
<1>8. CASE DropOther
  BY <1>0, <1>8 DEF DropOther, TryErase, Erased, ram, flash
<1>9. CASE Build
  BY <1>0, <1>9 DEF Build, Construct, MarkBad, ram, flash
<1>10. CASE MoveErase
  BY <1>0, <1>10 DEF MoveErase, MoveFailed, NeedsErase, TryErase, Erased, ram, flash
<1>11. CASE MoveInit
  <2>1. ProgramHdr(hdr[Dst], "INIT") = InitHdr
    BY <1>11 DEF MoveInit, ProgramHdr, InitHdr
  <2>2. QED
    BY <1>0, <1>11, <2>1 DEF MoveInit, ram
<1>12. CASE MoveCopy
  BY <1>0, <1>12 DEF MoveCopy, SetSlot, ram, flash
<1>13. CASE MoveValid
  BY <1>0, <1>13 DEF MoveValid, ProgramHdr, ValidHdr, InitHdr, ram
<1>14. CASE SwapErase
  BY <1>0, <1>14 DEF SwapErase, NeedsErase, TryErase, Erased, ram, flash
<1>15. CASE SwapInit
  <2>1. ProgramHdr(hdr[Dst], "INIT") = InitHdr
    BY <1>15 DEF SwapInit, ProgramHdr, InitHdr
  <2>2. QED
    BY <1>0, <1>15, <2>1 DEF SwapInit, ram
<1>16. CASE SwapCopy
  BY <1>0, <1>16 DEF SwapCopy, SetSlot, ram, flash
<1>17. CASE SwapCopyFail
  BY <1>0, <1>17 DEF SwapCopyFail, SetSlot, ram, flash, Fallback
<1>18. CASE SwapValid
  BY <1>0, <1>18 DEF SwapValid, ProgramHdr, ValidHdr, InitHdr, ram
<1>19. CASE Switch
  BY <1>0, <1>19 DEF Switch, Construct, MarkBad
<1>20. CASE EraseSource
  BY <1>0, <1>20 DEF EraseSource, Loading, TryErase, Erased, ram, flash
<1>21. CASE SetFull
  BY <1>0, <1>21 DEF SetFull, ram, flash
<1>22. CASE SetSame
  BY <1>0, <1>22 DEF SetSame, ram, flash
<1>23. CASE WriteRecord
  BY <1>0, <1>23 DEF WriteRecord, SetSlot, ram, flash
<1>24. CASE WriteRecordFail
  BY <1>0, <1>24 DEF WriteRecordFail, SetSlot, ram, flash
<1>25. CASE Commit
  BY <1>0, <1>25 DEF Commit, SetSlot, ram, flash
<1>26. CASE CommitFail
  BY <1>0, <1>26 DEF CommitFail, SetSlot, ram, flash
<1>27. CASE Retire
  BY <1>0, <1>27 DEF Retire, SetSlot, ram, flash
<1>28. CASE Remove
  BY <1>0, <1>28 DEF Remove, SetSlot, ram, flash
<1>29. CASE Forget
  BY <1>0, <1>29 DEF Forget, SetSlot, ram, flash
<1>30. CASE Start
  BY <1>0, <1>30 DEF Start, Accepted, ram, flash
<1>31. CASE Repair
  BY <1>0, <1>31 DEF Repair, ram, flash
<1>32. CASE Reset
  BY <1>0, <1>32 DEF Reset, NoRam, flash
<1>33. CASE Wipe
  BY <1>0, <1>33 DEF Wipe, ram, flash
<1>34. CASE Unload
  BY <1>0, <1>34 DEF Unload, PowerOff, NoRam, flash
<1>35. CASE Crash
  BY <1>0, <1>35 DEF Crash, PowerOff, NoRam, flash
<1>36. CASE TornWrite
  BY <1>0, <1>36 DEF TornWrite, SetSlot, MarkBad, PowerOff, NoRam
<1>37. CASE TornHeader
  <2>0. PICK s \in Sectors, f \in {"INIT", "VALID"} :
            WritesHdr(s, f) /\ \E h \in TornHdrs(hdr[s], f) : hdr' = [hdr EXCEPT ![s] = h]
    BY <1>37 DEF TornHeader
  <2>1. PICK h \in TornHdrs(hdr[s], f) : hdr' = [hdr EXCEPT ![s] = h]
    BY <2>0
  <2>2. h \in Hdr
    BY <2>1, TornHdrsType
  <2>3. s = 2 /\ h.flags = "VALID" => h.ver
    <3>1. CASE f = "INIT"
      BY <2>0, <3>1 DEF WritesHdr, TornHdrs, ProgramHdr
    <3>2. CASE f = "VALID" /\ s = 2
      <4>1. hdr[s] = InitHdr
        BY <2>0, <3>2 DEF WritesHdr
      <4>2. QED
        BY <1>0, <4>1, <3>2 DEF TornHdrs, ProgramHdr, Hdr
    <3>3. QED
      BY <3>1, <3>2
  <2>4. QED
    BY <1>37, <2>1, <2>2, <2>3 DEF TornHeader, PowerOff, NoRam
<1>38. CASE TornErase
  BY <1>0, <1>38 DEF TornErase, TornErasedHdrs, Hdr, HdrFlags, PowerOff, NoRam
<1>39. ASSUME NEW k \in Keys, NEW v \in Vals, Set(k, v) PROVE HdrInv'
  BY <1>39 DEF Set, ram, flash
<1>40. ASSUME NEW k \in Keys, Delete(k) PROVE HdrInv'
  BY <1>40 DEF Delete, ram, flash
<1>41. CASE UNCHANGED vars
  BY <1>41 DEF vars, flash, ram, ctl, Accepted
<1>42. QED
  BY <1>1, <1>2, <1>3, <1>4, <1>5, <1>6, <1>7, <1>8, <1>9, <1>10, <1>11, <1>12,
     <1>13, <1>14, <1>15, <1>16, <1>17, <1>18, <1>19, <1>20, <1>21, <1>22, <1>23,
     <1>24, <1>25, <1>26, <1>27, <1>28, <1>29, <1>30, <1>31, <1>32, <1>33, <1>34,
     <1>35, <1>36, <1>37, <1>38, <1>39, <1>40, <1>41,
     PutsAssumption, DeletableAssumption
     DEF Next, Step, LoadStep, MoveStep, SwapStep, SetStep, DeleteStep, Client, PowerLoss
-----------------------------------------------------------------------------
\* At every FLASH operation of set, delete, nvol3_repair and swap_sectors the
\* sector in use is VALID with the right version (nvol3.c:1340-1581): whenever
\* power is lost there, or whatever record write fails, init_sectors finds it.
\* The two excluded faults are header writes and erases whose failure the code
\* does not look at in init_sectors and nvol3_reset.
THEOREM SectorInUseIsValid ==
    ASSUME "headerFail" \notin Faults, "eraseFail" \notin Faults
    PROVE  Spec => []InUseIsValid
<1>1. Init => HdrInv
  BY HdrInit
<1>2. HdrInv /\ [Next]_vars => HdrInv'
  BY HdrStep
<1>3. HdrInv => InUseIsValid
  BY DEF HdrInv, HdrTypes, LoadInv, UseInv, InUseIsValid, ValidHdr, PCs, UsePCs,
         MovePCs, LoadPCs, LoadOps
<1>4. QED
  BY <1>1, <1>2, <1>3, PTL DEF Spec

-----------------------------------------------------------------------------
(***************************************************************************)
(* The records and the dictionary.                                         *)
(***************************************************************************)
Entries == {k \in Keys : idx[k] # NoIdx}

\* The dictionary never has more entries than a sector has records.
CountInv ==
    /\ Count <= N
    /\ pc \in {"commit", "retire"} => Count < N

\* record_set and nvol3_record_delete.
RecordInv ==
    /\ pc \in {"write", "commit", "retire"} => call.op = "set"
    /\ pc \in {"remove", "forget"} => call.op = "delete"
    /\ pc = "commit" => next < N
    /\ pc = "retire" => next \in 1..N
    /\ pc = "remove" => idx[call.key] \in Idx

\* The destination index never overtakes the source index, or what there is
\* left to copy.
CopyIndexInv ==
    /\ pc = "moveCopy" => dst_i <= src_i
    /\ pc = "swapCopy" => todo \subseteq Entries /\ dst_i + Cardinality(todo) <= N

IndexInv == TypeOK /\ CountInv /\ RecordInv /\ CopyIndexInv

-----------------------------------------------------------------------------
(***************************************************************************)
(* Sets of records, and the record a key is looked up at.                  *)
(***************************************************************************)
\* A set of natural numbers that is not empty has a smallest element.
LEMMA MinOfNat ==
    ASSUME NEW S \in SUBSET Nat, S # {}
    PROVE  Min(S) \in S /\ \A j \in S : Min(S) <= j
<1> DEFINE R == {p \in Nat \X Nat : p[1] < p[2]}
<1>1. IsWellFoundedOn(R, Nat)
  BY NatLessThanWellFounded DEF OpToRel
<1> HIDE DEF R
<1>2. PICK m \in S : \A j \in S : ~(<<j, m>> \in R)
  BY <1>1, WFMin
<1>3. ASSUME NEW a \in Nat, NEW b \in Nat, a < b PROVE <<a, b>> \in R
  BY <1>3 DEF R
<1>4. ASSUME NEW j \in S PROVE m <= j
  <2>1. m \in Nat /\ j \in Nat
    OBVIOUS
  <2>2. ~(j < m)
    BY <1>2, <1>3, <2>1
  <2>3. QED
    BY <2>1, <2>2
<1>5. QED
  BY <1>4 DEF Min

\* A set of slots that is not empty has a last one.
LEMMA MaxOfIdx ==
    ASSUME NEW S \in SUBSET Idx, S # {}
    PROVE  Max(S) \in S /\ \A j \in S : j <= Max(S)
<1> DEFINE T == {N - j : j \in S}
<1>1. T \in SUBSET Nat /\ T # {}
  <2>1. \A j \in S : N - j \in Nat
    BY NAssumption DEF Idx
  <2>2. QED
    BY <2>1
<1>2. Min(T) \in T /\ \A t \in T : Min(T) <= t
  BY <1>1, MinOfNat
<1>3. PICK m \in S : \A j \in S : N - m <= N - j
  BY <1>2
<1>4. \A j \in S : j <= m
  BY <1>3, NAssumption DEF Idx
<1>5. QED
  BY <1>4 DEF Max

LEMMA IdxFinite ==
    /\ IsFiniteSet(Idx) /\ Cardinality(Idx) = N
    /\ \A S \in SUBSET Idx : IsFiniteSet(S) /\ Cardinality(S) \in Nat /\ Cardinality(S) <= N
<1>1. IsFiniteSet(Idx) /\ Cardinality(Idx) = N
  BY FS_Interval, NAssumption DEF Idx
<1>2. QED
  BY <1>1, FS_Subset, FS_CardinalityType

LEMMA KeysFinite ==
    \A S \in SUBSET Keys : IsFiniteSet(S) /\ Cardinality(S) \in Nat
BY KeysAssumption, FS_Subset, FS_CardinalityType

LEMMA LookupType ==
    ASSUME NEW sl \in [Idx -> Rec], NEW k \in Keys
    PROVE  \/ Lookup(sl, k) = NoIdx
           \/ Lookup(sl, k) \in Idx /\ sl[Lookup(sl, k)].key = k
<1> DEFINE I == LiveOf(sl, k)
<1>1. I \in SUBSET Idx /\ \A i \in I : sl[i].key = k
  BY DEF LiveOf, Live, Scanned
<1>2. CASE I = {}
  BY <1>2 DEF Lookup
<1>3. CASE I # {}
  <2>1. Lookup(sl, k) = Max(I)
    BY <1>3 DEF Lookup
  <2>2. QED
    BY <1>1, <1>3, <2>1, MaxOfIdx
<1>4. QED
  BY <1>2, <1>3

\* Two keys are never looked up at the same record, so there are no more
\* entries than records.
LEMMA LookupCount ==
    ASSUME NEW sl \in [Idx -> Rec]
    PROVE  Cardinality({k \in Keys : Lookup(sl, k) # NoIdx}) <= N
<1> DEFINE K == {k \in Keys : Lookup(sl, k) # NoIdx}
           f == [k \in K |-> Lookup(sl, k)]
<1>1. f \in [K -> Idx] /\ \A k \in K : sl[f[k]].key = k
  BY LookupType
<1>2. f \in Injection(K, Idx)
  BY <1>1 DEF Injection, IsInjective
<1>3. QED
  BY <1>2, FS_Injection, IdxFinite
-----------------------------------------------------------------------------
(***************************************************************************)
(* What the operations on a record, a header and a sector return.          *)
(***************************************************************************)
LEMMA RecordTypes ==
    /\ \A f \in RecFlags : Spoiled(f) \in Rec
    /\ \A f \in RecFlags, k \in Keys \cup {NoKey}, v \in Vals \cup {NoVal} : Written(f, k, v) \in Rec
    /\ \A old \in Rec, new \in Rec : Program(old, new) \in Rec
    /\ \A old \in Rec : SetValid(old) \in Rec /\ Torn(old) \in Rec
    /\ \A old \in Rec, f \in {"NEW", "VALID"} : TornWrites(old, f) \subseteq Rec
<1>1. \A f \in RecFlags : Spoiled(f) \in Rec
  BY DEF Spoiled, Rec
<1>2. \A f \in RecFlags, k \in Keys \cup {NoKey}, v \in Vals \cup {NoVal} : Written(f, k, v) \in Rec
  BY DEF Written, Rec
<1>3. ASSUME NEW old \in Rec, NEW f \in RecFlags PROVE [old EXCEPT !.flags = f] \in Rec
  BY DEF Rec
<1>4. ASSUME NEW old \in Rec, NEW new \in Rec PROVE Program(old, new) \in Rec
  BY <1>1, <1>3 DEF Program, RecFlags
<1>5. ASSUME NEW old \in Rec PROVE SetValid(old) \in Rec /\ Torn(old) \in Rec
  BY <1>1, <1>3 DEF SetValid, Torn, RecFlags
<1>6. ASSUME NEW old \in Rec, NEW f \in {"NEW", "VALID"} PROVE TornWrites(old, f) \subseteq Rec
  BY <1>1, <1>4 DEF TornWrites, RecFlags
<1>7. QED
  BY <1>1, <1>2, <1>4, <1>5, <1>6

LEMMA HeaderTypes ==
    /\ ErasedHdr \in Hdr
    /\ \A old \in Hdr, f \in {"INIT", "VALID"} :
          ProgramHdr(old, f) \in Hdr /\ TornHdrs(old, f) \subseteq Hdr
    /\ \A old \in Hdr : TornErasedHdrs(old) \subseteq Hdr
<1>1. ErasedHdr \in Hdr
  BY DEF ErasedHdr, Hdr, HdrFlags
<1>2. ASSUME NEW old \in Hdr, NEW f \in {"INIT", "VALID"}
      PROVE  ProgramHdr(old, f) \in Hdr /\ TornHdrs(old, f) \subseteq Hdr
  BY TornHdrsType DEF ProgramHdr, Hdr, HdrFlags
<1>3. ASSUME NEW old \in Hdr PROVE [old EXCEPT !.flags = "INIT"] \in Hdr
  BY DEF Hdr, HdrFlags
<1>4. \A old \in Hdr : TornErasedHdrs(old) \subseteq Hdr
  BY <1>1, <1>3 DEF TornErasedHdrs
<1>5. QED
  BY <1>1, <1>2, <1>4

FlashTypes == hdr \in [Sectors -> Hdr] /\ slot \in [Sectors -> [Idx -> Rec]]

\* construct_lookup_table keeps the types and leaves no more entries than
\* there are records.
LEMMA ConstructTypes ==
    ASSUME FlashTypes, NEW s \in Sectors, Construct(s)
    PROVE  /\ idx' \in [Keys -> Idx \cup {NoIdx}] /\ local' \in [Keys -> Vals \cup {NoVal}]
           /\ inuse' \in Nat /\ invalid' \in Nat /\ next' \in Nat /\ sector' = s
           /\ FlashTypes' /\ hdr' = hdr
           /\ Count' <= N
<1> DEFINE sl == slot[s]
<1>1. sl \in [Idx -> Rec]
  BY DEF FlashTypes
<1>2. \A k \in Keys : Lookup(sl, k) \in Idx \cup {NoIdx}
  BY <1>1, LookupType
<1>3. \A k \in Keys : Contents(sl)[k] \in Vals \cup {NoVal}
  <2>1. \A i \in Idx : sl[i].val \in Vals \cup {NoVal}
    BY <1>1 DEF Rec
  <2>2. QED
    BY <1>2, <2>1 DEF Contents, ValueAt
<1>4. idx' \in [Keys -> Idx \cup {NoIdx}]
  BY <1>2 DEF Construct
<1>5. local' \in [Keys -> Vals \cup {NoVal}]
  BY <1>3, LocalAssumption DEF Construct, Cache
<1>6. /\ Live(sl) \in SUBSET Idx /\ Bad(sl) \in SUBSET Idx /\ Scanned(sl) \in SUBSET Idx
      /\ With(sl, {"INVALID"}) \in SUBSET Idx
  BY DEF Live, Bad, Scanned, With
<1>7. inuse' \in Nat /\ invalid' \in Nat /\ next' \in Nat /\ sector' = s
  BY <1>6, IdxFinite DEF Construct
<1>8. FlashTypes' /\ hdr' = hdr
  <2>1. PICK m \in SUBSET Bad(sl) : MarkBad(s, m)
    BY DEF Construct
  <2>2. \A i \in Idx : (IF i \in m THEN Spoiled("INVALID") ELSE slot[s][i]) \in Rec
    BY <1>1, RecordTypes DEF RecFlags
  <2>3. QED
    BY <2>1, <2>2 DEF MarkBad, FlashTypes
<1>9. Count' <= N
  <2>1. \A k \in Keys : idx'[k] = Lookup(sl, k)
    BY DEF Construct
  <2>2. {k \in Keys : idx'[k] # NoIdx} = {k \in Keys : Lookup(sl, k) # NoIdx}
    BY <2>1
  <2>3. QED
    BY <1>1, <2>2, LookupCount DEF Count
<1>10. QED
  BY <1>4, <1>5, <1>7, <1>8, <1>9
-----------------------------------------------------------------------------
(***************************************************************************)
(* The steps.                                                              *)
(***************************************************************************)
LEMMA SetSlotTypes ==
    ASSUME FlashTypes, NEW s, NEW i, NEW r \in Rec, SetSlot(s, i, r)
    PROVE  FlashTypes'
BY DEF FlashTypes, SetSlot

LEMMA ErasedTypes ==
    ASSUME FlashTypes, NEW s, Erased(s)
    PROVE  FlashTypes'
BY HeaderTypes, RecordTypes DEF FlashTypes, Erased, Blank, RecFlags

\* Loss of power, and the client's unloading, leave nothing but FLASH.
LEMMA PowerOffInv ==
    ASSUME FlashTypes', PowerOff
    PROVE  IndexInv'
<1>1. Count' = 0
  BY FS_EmptySet DEF PowerOff, NoRam, Count
<1>2. QED
  BY <1>1, NAssumption
     DEF FlashTypes, PowerOff, NoRam, IndexInv, TypeOK, CountInv, RecordInv, CopyIndexInv,
         Calls, NoCall, Statuses, PCs, Sectors

LEMMA IndexInit == Init => IndexInv
<1> SUFFICES ASSUME Init PROVE IndexInv
  OBVIOUS
<1>1. FlashTypes
  BY HeaderTypes, RecordTypes DEF Init, FlashTypes, Blank, RecFlags
<1>2. Count = 0
  BY FS_EmptySet DEF Init, Count
<1>3. QED
  BY <1>1, <1>2, NAssumption
     DEF FlashTypes, Init, IndexInv, TypeOK, CountInv, RecordInv, CopyIndexInv,
         Calls, NoCall, Statuses, PCs, Sectors

\* The invariant keeps every index in its sector.
LEMMA IndexesInSector ==
    ASSUME IndexInv
    PROVE  IndexChecksHold
<1> USE DEF IndexInv, TypeOK, RecordInv, CopyIndexInv
<1>1. pc = "commit" => next \in Idx
  BY NAssumption DEF Idx
<1>2. pc = "retire" => LastWritten \in Idx
  BY NAssumption DEF Idx, LastWritten
<1>3. pc = "moveCopy" /\ MoveLeft # {} => dst_i \in Idx
  <2>1. \A i \in MoveLeft : i \in Idx /\ i >= src_i
    BY DEF MoveLeft, Live, Scanned
  <2>2. QED
    BY <2>1, NAssumption DEF Idx
<1>4. pc = "swapCopy" => \A k \in todo : dst_i \in Idx /\ idx[k] \in Idx
  <2>1. Cardinality(todo) \in Nat /\ (todo # {} => Cardinality(todo) > 0)
    BY KeysFinite, FS_EmptySet
  <2>2. pc = "swapCopy" /\ todo # {} => dst_i \in Idx
    BY <2>1, NAssumption DEF Idx
  <2>3. QED
    BY <2>2 DEF Entries
<1>5. QED
  BY <1>1, <1>2, <1>3, <1>4 DEF IndexChecksHold

\* A step keeps types and indexes.
LEMMA IndexStep ==
    ASSUME IndexInv, [Next]_vars
    PROVE  IndexInv'
<1> USE DEF IndexInv, TypeOK, CountInv, RecordInv, CopyIndexInv, Sectors, Other, Dst,
            PCs, Statuses, Goto, NoCall
<1>0. FlashTypes /\ Count \in Nat /\ (FlashTypes' => hdr' \in [Sectors -> Hdr] /\ slot' \in [Sectors -> [Idx -> Rec]])
  BY KeysFinite DEF FlashTypes, Count
<1>a. UNCHANGED idx => Count' = Count
  BY DEF Count
<1>1. CASE ResetErase1
  <2>1. FlashTypes'
    BY <1>0, <1>1, ErasedTypes DEF ResetErase1, TryErase, FlashTypes, flash
  <2>2. QED
    BY <1>0, <1>a, <1>1, <2>1 DEF ResetErase1, Return, Calls, ram
<1>2. CASE ResetErase2
  <2>1. FlashTypes'
    BY <1>0, <1>2, ErasedTypes DEF ResetErase2, TryErase, FlashTypes, flash
  <2>2. QED
    BY <1>0, <1>a, <1>2, <2>1, PowerOffInv DEF ResetErase2, ram
<1>3. CASE Scrub1
  <2>1. FlashTypes'
    BY <1>0, <1>3, ErasedTypes DEF Scrub1, Scrub, TryErase, FlashTypes, flash
  <2>2. QED
    BY <1>0, <1>a, <1>3, <2>1 DEF Scrub1, Scrub, Return, Calls, ram
<1>4. CASE Scrub2
  <2>1. FlashTypes'
    BY <1>0, <1>4, ErasedTypes DEF Scrub2, Scrub, TryErase, FlashTypes, flash
  <2>2. QED
    BY <1>0, <1>a, <1>4, <2>1 DEF Scrub2, Scrub, Return, Calls, ram
<1>5. CASE PlanStep
  <2>1. Plan(hdr).use \in Sectors
    BY DEF Plan
  <2>2. QED
    BY <1>0, <1>a, <1>5, <2>1 DEF PlanStep, flash
<1>6. CASE FormatErase
  <2>1. FlashTypes'
    BY <1>0, <1>6, ErasedTypes DEF FormatErase, TryErase, FlashTypes, flash
  <2>2. QED
    BY <1>0, <1>a, <1>6, <2>1 DEF FormatErase, Return, Calls, ram
<1>7. CASE FormatValid
  <2>1. hdr' \in [Sectors -> Hdr]
    BY <1>7, HeaderTypes DEF FormatValid, TrySetHdr
  <2>2. QED
    BY <1>0, <1>a, <1>7, <2>1 DEF FormatValid, TrySetHdr, ram
<1>8. CASE DropOther
  <2>1. FlashTypes'
    BY <1>0, <1>8, ErasedTypes DEF DropOther, TryErase, FlashTypes, flash
  <2>2. QED
    BY <1>0, <1>a, <1>8, <2>1 DEF DropOther, Return, Calls, ram
<1>9. CASE Build
  <2>1. Construct(sector) /\ sector \in Sectors
    BY <1>9 DEF Build
  <2>2. QED
    BY <1>0, <1>9, <2>1, ConstructTypes DEF Build, Return, Calls
<1>10. CASE Switch
  <2>1. Construct(Dst) /\ Dst \in Sectors
    BY <1>10 DEF Switch
  <2>2. QED
    BY <1>0, <1>10, <2>1, ConstructTypes DEF Switch, Calls
<1>11. CASE MoveErase
  <2>1. FlashTypes'
    BY <1>0, <1>11, ErasedTypes DEF MoveErase, MoveFailed, Loading, TryErase, FlashTypes, flash
  <2>2. QED
    BY <1>0, <1>a, <1>11, <2>1 DEF MoveErase, MoveFailed, Loading, Return, Calls, ram
<1>12. CASE MoveInit
  <2>1. hdr' \in [Sectors -> Hdr]
    BY <1>12, HeaderTypes DEF MoveInit, MoveFailed
  <2>2. QED
    BY <1>0, <1>a, <1>12, <2>1 DEF MoveInit, MoveFailed, Loading, Return, Calls, ram
<1>13. CASE MoveCopy
  <2> DEFINE i == Min(MoveLeft)
             old == slot[Dst][dst_i]
  <2>1. i \in Idx /\ i >= src_i
    <3>1. MoveLeft \in SUBSET Nat /\ MoveLeft \in SUBSET Idx
      BY NAssumption DEF MoveLeft, Live, Scanned, Idx
    <3>2. i \in MoveLeft
      BY <1>13, <3>1, MinOfNat DEF MoveCopy
    <3>3. QED
      BY <3>1, <3>2 DEF MoveLeft
  <2>2. dst_i \in Idx
    BY <1>13, <2>1, NAssumption DEF MoveCopy, Idx
  <2>3. old \in Rec /\ slot[sector][i] \in Rec
    BY <2>1, <2>2
  <2>4. src_i' = i + 1 /\ dst_i' = dst_i + 1 /\ UNCHANGED <<ram, pc, call, ret, todo>>
    BY <1>13 DEF MoveCopy
  <2>5. FlashTypes'
    BY <1>0, <1>13, <2>3, SetSlotTypes, RecordTypes DEF MoveCopy
  <2> HIDE DEF i
  <2>6. src_i' \in Nat /\ dst_i' \in Nat /\ dst_i' <= src_i'
    BY <1>13, <2>1, <2>4, NAssumption DEF MoveCopy, Idx
  <2>7. QED
    BY <1>0, <1>a, <1>13, <2>4, <2>5, <2>6 DEF MoveCopy, ram
<1>14. CASE MoveValid
  <2>1. hdr' \in [Sectors -> Hdr]
    BY <1>14, HeaderTypes DEF MoveValid, MoveFailed
  <2>2. QED
    BY <1>0, <1>a, <1>14, <2>1 DEF MoveValid, MoveFailed, Loading, Return, Calls, ram
<1>15. CASE SwapErase
  <2>1. FlashTypes'
    BY <1>0, <1>15, ErasedTypes DEF SwapErase, TryErase, FlashTypes, flash
  <2>2. QED
    BY <1>0, <1>a, <1>15, <2>1 DEF SwapErase, Return, Calls, ram
<1>16. CASE SwapInit
  <2>1. hdr' \in [Sectors -> Hdr]
    BY <1>16, HeaderTypes DEF SwapInit
  <2>2. Cardinality(Entries) = Count /\ (idx' = idx => Entries' = Entries)
    BY DEF Entries, Count
  <2>3. CASE pc' = "swapCopy"
    <3>1. todo' = Entries /\ dst_i' = 0 /\ src_i' = 0 /\ UNCHANGED <<call, ret>>
      BY <1>16, <2>3 DEF SwapInit, Return, Entries
    <3>2. QED
      BY <1>0, <1>a, <1>16, <2>1, <2>2, <2>3, <3>1 DEF SwapInit, ram, Entries
  <2>4. CASE pc' # "swapCopy"
    BY <1>0, <1>a, <1>16, <2>1, <2>4 DEF SwapInit, Return, Calls, ram
  <2>5. QED
    BY <2>3, <2>4
<1>17. CASE SwapCopy
  <2>1. PICK k \in todo :
            /\ SetSlot(Dst, dst_i, Program(slot[Dst][dst_i], slot[sector][idx[k]]))
            /\ idx' = [idx EXCEPT ![k] = dst_i]
            /\ todo' = todo \ {k}
    BY <1>17 DEF SwapCopy
  <2>2. k \in Keys /\ idx[k] \in Idx
    BY <1>17 DEF SwapCopy, Entries
  <2>3. /\ Cardinality(todo) \in Nat /\ Cardinality(todo) > 0
        /\ Cardinality(todo') = Cardinality(todo) - 1
    BY <2>1, KeysFinite, FS_RemoveElement, FS_EmptySet
  <2>4. dst_i \in Idx
    BY <1>17, <2>3, NAssumption DEF SwapCopy, Idx
  <2>5. FlashTypes'
    BY <1>0, <2>1, <2>2, <2>4, SetSlotTypes, RecordTypes
  <2>6. Entries' = Entries /\ Count' = Count
    <3>1. dst_i # NoIdx
      BY <2>4, NAssumption DEF Idx, NoIdx
    <3>2. \A j \in Keys : idx'[j] # NoIdx <=> idx[j] # NoIdx
      BY <2>1, <2>2, <3>1 DEF NoIdx, Idx
    <3>3. Entries' = Entries
      BY <3>2 DEF Entries
    <3>4. QED
      BY <3>3 DEF Entries, Count
  <2>7. idx' \in [Keys -> Idx \cup {NoIdx}] /\ todo' \in SUBSET Keys /\ todo' \subseteq Entries
    BY <1>17, <2>1, <2>4 DEF SwapCopy
  <2>8. dst_i' = dst_i + 1 /\ UNCHANGED <<sector, next, inuse, invalid, local, pc, call, ret, src_i>>
    BY <1>17 DEF SwapCopy
  <2>9. dst_i' \in Nat /\ dst_i' + Cardinality(todo') <= N
    BY <1>17, <2>3, <2>8, NAssumption DEF SwapCopy
  <2>10. QED
    BY <1>0, <1>17, <2>5, <2>6, <2>7, <2>8, <2>9 DEF SwapCopy
<1>18. CASE SwapCopyFail
  <2>1. todo # {} => dst_i \in Idx
    <3>1. Cardinality(todo) \in Nat /\ (todo # {} => Cardinality(todo) > 0)
      BY KeysFinite, FS_EmptySet
    <3>2. QED
      BY <1>18, <3>1, NAssumption DEF SwapCopyFail, Idx
  <2>2. FlashTypes'
    <3>1. \/ UNCHANGED flash
          \/ /\ todo # {}
             /\ \E x \in TornWrites(slot[Dst][dst_i], "VALID") : SetSlot(Dst, dst_i, x)
      BY <1>18 DEF SwapCopyFail
    <3>2. QED
      BY <1>0, <2>1, <3>1, SetSlotTypes, RecordTypes DEF FlashTypes, flash
  <2>3. QED
    BY <1>0, <1>a, <1>18, <2>2 DEF SwapCopyFail, Fallback, ram
<1>19. CASE SwapValid
  <2>1. hdr' \in [Sectors -> Hdr]
    BY <1>19, HeaderTypes DEF SwapValid, Return
  <2>2. QED
    BY <1>0, <1>a, <1>19, <2>1 DEF SwapValid, Return, Calls, ram
<1>20. CASE EraseSource
  <2>1. FlashTypes'
    BY <1>0, <1>20, ErasedTypes DEF EraseSource, Loading, TryErase, FlashTypes, flash
  <2>2. QED
    BY <1>0, <1>a, <1>20, <2>1 DEF EraseSource, Loading, Return, Calls, ram
<1>21. CASE SetFull
  BY <1>0, <1>a, <1>21 DEF SetFull, Return, Calls, flash, ram
<1>22. CASE SetSame
  BY <1>0, <1>a, <1>22 DEF SetSame, Return, Calls, flash, ram
<1>23. CASE WriteRecord
  <2>1. next \in Idx
    BY <1>23, NAssumption DEF WriteRecord, Idx
  <2>2. call.key \in Keys \cup {NoKey} /\ call.val \in Vals \cup {NoVal}
    BY DEF Calls
  <2>3. FlashTypes'
    BY <1>0, <1>23, <2>1, <2>2, SetSlotTypes, RecordTypes DEF WriteRecord, RecFlags
  <2>4. Count < N
    BY <1>0, <1>23, NAssumption, HeadroomAssumption DEF WriteRecord, VolumeFull
  <2>5. QED
    BY <1>0, <1>a, <1>23, <2>3, <2>4 DEF WriteRecord, ram
<1>24. CASE WriteRecordFail
  <2>1. FlashTypes'
    <3>1. CASE UNCHANGED flash
      BY <1>0, <3>1 DEF FlashTypes, flash
    <3>2. CASE next < N /\ \E x \in TornWrites(slot[sector][next], "NEW") \cup {Spoiled("INVALID")} :
                              SetSlot(sector, next, x)
      <4>1. next \in Idx
        BY <3>2, NAssumption DEF Idx
      <4>2. QED
        BY <1>0, <3>2, <4>1, SetSlotTypes, RecordTypes DEF RecFlags
    <3>3. QED
      BY <1>24, <3>1, <3>2 DEF WriteRecordFail
  <2>2. QED
    BY <1>0, <1>a, <1>24, <2>1 DEF WriteRecordFail, Return, Calls
<1>25. CASE Commit
  <2>1. next \in Idx
    BY <1>25, NAssumption DEF Commit, Idx
  <2>2. FlashTypes'
    BY <1>0, <1>25, <2>1, SetSlotTypes, RecordTypes DEF Commit
  <2>3. QED
    BY <1>0, <1>a, <1>25, <2>1, <2>2, NAssumption DEF Commit, Return, Calls, Idx
<1>26. CASE CommitFail
  <2>1. next \in Idx
    BY <1>26, NAssumption DEF CommitFail, Idx
  <2>2. FlashTypes'
    BY <1>0, <1>26, <2>1, SetSlotTypes, RecordTypes DEF CommitFail
  <2>3. QED
    BY <1>0, <1>a, <1>26, <2>1, <2>2, NAssumption DEF CommitFail, Return, Calls, Idx
<1>27. CASE Retire
  <2> DEFINE k == call.key
  <2>1. k \in Keys /\ call.val \in Vals
    BY <1>27 DEF Retire, Calls
  <2>2. LastWritten \in Idx
    BY <1>27, NAssumption DEF Retire, LastWritten, Idx
  <2>3. FlashTypes' /\ inuse' \in Int /\ invalid' \in Int
    <3>1. CASE idx[k] = NoIdx
      BY <1>0, <1>27, <3>1 DEF Retire, FlashTypes, flash
    <3>2. CASE idx[k] # NoIdx
      <4>1. idx[k] \in Idx
        BY <2>1, <3>2
      <4>2. QED
        BY <1>0, <1>27, <3>2, <4>1, SetSlotTypes, RecordTypes DEF Retire, RecFlags
    <3>3. QED
      BY <3>1, <3>2
  <2>4. idx' = [idx EXCEPT ![k] = LastWritten] /\ local' = [local EXCEPT ![k] = Cache(call.val)]
    BY <1>27 DEF Retire
  <2>5. Count' <= N
    <3>1. Entries' \subseteq Entries \cup {k}
      <4>1. \A j \in Keys : j # k => idx'[j] = idx[j]
        BY <2>4
      <4>2. QED
        BY <4>1 DEF Entries
    <3>2. IsFiniteSet(Entries) /\ Cardinality(Entries) = Count /\ Cardinality(Entries') = Count'
      BY KeysFinite DEF Entries, Count
    <3>3. /\ IsFiniteSet(Entries \cup {k})
          /\ Cardinality(Entries \cup {k}) <= Count + 1
      <4>1. /\ IsFiniteSet(Entries \cup {k})
            /\ Cardinality(Entries \cup {k}) = IF k \in Entries THEN Count ELSE Count + 1
        BY <3>2, FS_AddElement
      <4>2. QED
        BY <1>0, <4>1
    <3>4. Count' <= Cardinality(Entries \cup {k}) /\ Count' \in Nat /\ Cardinality(Entries \cup {k}) \in Nat
      BY <3>1, <3>2, <3>3, FS_Subset, FS_CardinalityType
    <3>5. QED
      BY <1>0, <1>27, <3>3, <3>4, NAssumption DEF Retire
  <2>6. idx' \in [Keys -> Idx \cup {NoIdx}] /\ local' \in [Keys -> Vals \cup {NoVal}]
    BY <2>1, <2>2, <2>4, LocalAssumption DEF Cache
  <2>7. QED
    BY <1>0, <1>27, <2>3, <2>5, <2>6 DEF Retire, Return, Calls
<1>28. CASE Remove
  <2>1. FlashTypes'
    BY <1>0, <1>28, SetSlotTypes, RecordTypes DEF Remove, RecFlags
  <2>2. QED
    BY <1>0, <1>a, <1>28, <2>1 DEF Remove, ram
<1>29. CASE Forget
  <2>1. idx' = [idx EXCEPT ![call.key] = NoIdx] /\ local' = [local EXCEPT ![call.key] = NoVal]
    BY <1>29 DEF Forget
  <2>2. Count' <= Count /\ Count' \in Nat
    <3>1. Entries' \subseteq Entries
      BY <2>1 DEF Entries
    <3>2. IsFiniteSet(Entries) /\ Cardinality(Entries) = Count /\ Cardinality(Entries') = Count'
      BY KeysFinite DEF Entries, Count
    <3>3. QED
      BY <3>1, <3>2, FS_Subset, FS_CardinalityType
  <2>3. idx' \in [Keys -> Idx \cup {NoIdx}] /\ local' \in [Keys -> Vals \cup {NoVal}]
    BY <2>1
  <2>4. QED
    BY <1>0, <1>29, <2>2, <2>3, NAssumption DEF Forget, Return, Calls, flash
<1>30. CASE Start
  BY <1>0, <1>a, <1>30 DEF Start, Calls, flash, ram
<1>31. ASSUME NEW k \in Keys, NEW v \in Vals, Set(k, v) PROVE IndexInv'
  BY <1>0, <1>a, <1>31 DEF Set, Invoke, Calls, flash, ram
<1>32. ASSUME NEW k \in Keys, Delete(k) PROVE IndexInv'
  BY <1>0, <1>a, <1>32 DEF Delete, Calls, flash, ram
<1>33. CASE Repair
  BY <1>0, <1>a, <1>33 DEF Repair, Invoke, Calls, flash, ram
<1>34. CASE Wipe
  BY <1>0, <1>a, <1>34 DEF Wipe, Invoke, Calls, flash, ram
<1>35. CASE Reset
  <2>1. Count' = 0
    BY <1>35, FS_EmptySet DEF Reset, NoRam, Count
  <2>2. QED
    BY <1>0, <1>35, <2>1, NAssumption DEF Reset, NoRam, Invoke, Calls, flash
<1>36. CASE Unload
  BY <1>0, <1>36, PowerOffInv DEF Unload, FlashTypes, flash
<1>37. CASE Crash
  BY <1>0, <1>37, PowerOffInv DEF Crash, FlashTypes, flash
<1>38. CASE TornWrite
  <2>1. FlashTypes'
    <3>1. CASE /\ pc = "write" /\ next < N
               /\ \E x \in TornWrites(slot[sector][next], "NEW") : SetSlot(sector, next, x)
      <4>1. next \in Idx
        BY <3>1, NAssumption DEF Idx
      <4>2. QED
        BY <1>0, <3>1, <4>1, SetSlotTypes, RecordTypes
    <3>2. CASE /\ \/ pc = "moveCopy" /\ MoveLeft # {}
                  \/ pc = "swapCopy" /\ todo # {}
               /\ \E x \in TornWrites(slot[Dst][dst_i], "VALID") : SetSlot(Dst, dst_i, x)
      <4>1. dst_i \in Idx
        BY <3>2, IndexesInSector DEF IndexChecksHold
      <4>2. QED
        BY <1>0, <3>2, <4>1, SetSlotTypes, RecordTypes
    <3>3. CASE /\ pc \in {"retire", "remove"} /\ idx[call.key] # NoIdx
               /\ SetSlot(sector, idx[call.key], Torn(slot[sector][idx[call.key]]))
      <4>1. idx[call.key] \in Idx
        BY <3>3 DEF Calls
      <4>2. QED
        BY <1>0, <3>3, <4>1, SetSlotTypes, RecordTypes
    <3>4. CASE \E s \in Sectors : \E m \in SUBSET Bad(slot[s]) : MarkBad(s, m)
      BY <1>0, <3>4, RecordTypes DEF MarkBad, FlashTypes, RecFlags
    <3>5. QED
      BY <1>38, <3>1, <3>2, <3>3, <3>4 DEF TornWrite
  <2>2. QED
    BY <1>38, <2>1, PowerOffInv DEF TornWrite
<1>39. CASE TornHeader
  <2>1. FlashTypes'
    BY <1>0, <1>39, HeaderTypes DEF TornHeader, FlashTypes
  <2>2. QED
    BY <1>39, <2>1, PowerOffInv DEF TornHeader
<1>40. CASE TornErase
  <2>1. FlashTypes'
    <3>1. PICK s \in Sectors, n \in 0..N :
             \E h \in TornErasedHdrs(hdr[s]) :
                /\ Erases(s)
                /\ h.flags # "EMPTY" => n = 0
                /\ hdr' = [hdr EXCEPT ![s] = h]
                /\ slot' = [slot EXCEPT ![s] = [i \in Idx |-> IF i < n THEN Blank ELSE slot[s][i]]]
      BY <1>40 DEF TornErase
    <3>2. hdr' \in [Sectors -> Hdr]
      BY <3>1, HeaderTypes
    <3>3. \A i \in Idx : (IF i < n THEN Blank ELSE slot[s][i]) \in Rec
      BY RecordTypes DEF Blank, RecFlags
    <3>4. QED
      BY <3>1, <3>2, <3>3 DEF FlashTypes
  <2>2. QED
    BY <1>40, <2>1, PowerOffInv DEF TornErase
<1>41. CASE UNCHANGED vars
  <2>1. Entries' = Entries
    BY <1>41 DEF Entries, vars, ram
  <2>2. QED
    BY <1>0, <1>a, <1>41, <2>1 DEF vars, flash, ram, ctl
<1>42. QED
  BY <1>1, <1>2, <1>3, <1>4, <1>5, <1>6, <1>7, <1>8, <1>9, <1>10, <1>11, <1>12,
     <1>13, <1>14, <1>15, <1>16, <1>17, <1>18, <1>19, <1>20, <1>21, <1>22, <1>23,
     <1>24, <1>25, <1>26, <1>27, <1>28, <1>29, <1>30, <1>31, <1>32, <1>33, <1>34,
     <1>35, <1>36, <1>37, <1>38, <1>39, <1>40, <1>41,
     PutsAssumption, DeletableAssumption
     DEF Next, Step, LoadStep, MoveStep, SwapStep, SetStep, DeleteStep, Client, PowerLoss

\* Every variable keeps its type (nvol3.c, all of it), under every fault.
THEOREM TypeCorrect == Spec => []TypeOK
<1>1. IndexInv => TypeOK
  BY DEF IndexInv
<1>2. QED
  BY <1>1, IndexInit, IndexStep, PTL DEF Spec

\* The DBG_CHECKs of the record index (nvol3.c:1139, 1181, 1204) that
\* IndexChecksHold names never fail, under every fault: a swap never has more
\* entries to copy than there are records, and a move never copies more records
\* than it has read.
THEOREM IndexChecksAlwaysHold == Spec => []IndexChecksHold
<1>1. IndexInv => IndexChecksHold
  BY IndexesInSector
<1>2. QED
  BY <1>1, IndexInit, IndexStep, PTL DEF Spec
=============================================================================
