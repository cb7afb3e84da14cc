-------------------------------- MODULE Nvol --------------------------------
(***************************************************************************)
(* One nvol3 volume (nvram/nvol3.c) as its client drives it through        *)
(* registry.c: load, set, delete, repair, reset and unload, down to the    *)
(* single FLASH operations, between any two of which power may be lost.    *)
(*                                                                         *)
(* The program is single threaded: pc names the place in nvol3.c a call    *)
(* has reached, and each action is the code from there to its next FLASH   *)
(* operation.  Faults says what the environment may do.                    *)
(***************************************************************************)
EXTENDS NvolFormat

CONSTANTS
    LocalVals,  \* values short enough for the RAM copy: length <= local_size
    Headroom,   \* NVOL3_HEADROOM
    Puts,       \* the key/value pairs clients set
    Deletable,  \* the keys clients delete
    Faults      \* the faults that may happen

FaultKinds == {
    "crash",        \* power lost between two FLASH operations
    "tornWrite",    \* power lost inside the write of a record or of its flags
    "tornHeader",   \* power lost inside the write of a sector header
    "tornErase",    \* power lost inside the erase of a sector
    "writeFail",    \* the driver fails a write of a record or of its flags
    "headerFail",   \* the driver fails a write of a sector header
    "eraseFail"}    \* the driver fails an erase

ASSUME LocalAssumption == LocalVals \subseteq Vals
ASSUME HeadroomAssumption == Headroom \in 1 .. N
ASSUME PutsAssumption == Puts \subseteq Keys \X Vals
ASSUME DeletableAssumption == Deletable \subseteq Keys
ASSUME FaultsAssumption == Faults \subseteq FaultKinds

VARIABLES
    hdr, slot,      \* FLASH: sector headers and record slots
    sector,         \* RAM, NVOL3_INSTANCE_T: the sector in use,
    next,           \*   next_idx, the slot the next record goes to,
    inuse, invalid,         \*   two of its counters (error is only logged),
    idx, local,     \*   dict: NVOL3_ENTRY_T.idx and .local of every key
    pc, call, ret,  \* where the call in progress is, the call, the last status
    src_i, dst_i,   \* locals of move_sector and swap_sectors: the next slot
    todo            \*   to read and to write, the keys not yet copied

flash == <<hdr, slot>>
ram == <<sector, next, inuse, invalid, idx, local>>
ctl == <<pc, call, ret, src_i, dst_i, todo>>
vars == <<flash, ram, ctl>>

NoCall == [op |-> "none", key |-> NoKey, val |-> NoVal]
Calls ==
         {NoCall}
    \cup [op : {"load", "reset", "wipe", "repair"}, key : {NoKey}, val : {NoVal}]
    \cup [op : {"set"}, key : Keys, val : Vals]
    \cup [op : {"delete"}, key : Keys, val : {NoVal}]

Statuses == {"none", "EOK", "EFAIL", "E_NOTFOUND", "E_VERSION"}

PCs == {"off", "idle",
        "reset1", "reset2",                             \* nvol3_reset
        "scrub1", "scrub2", "plan",                     \* init_sectors
        "formatErase", "formatValid", "dropOther", "build",
        "moveErase", "moveInit", "moveCopy",            \* move_sector
        "swapErase", "swapInit", "swapCopy",            \* swap_sectors
        "switch", "eraseSource",
        "write", "commit", "retire",                    \* record_set
        "remove", "forget"}                             \* nvol3_record_delete

Dst == Other(sector)

\* Deliberate errors, for the mutants of the checks: leftovers of an
\* interrupted copy are not erased; the index after the last record is used.
NeedsEraseWrong(s) == hdr[s].flags = "VALID"
LastWrittenWrong == next

\* move_sector and swap_sectors erase a destination that is not empty.
NeedsErase(s) == hdr[s].flags # "EMPTY"
\* The slot of the record just written, once next_idx has moved on.
LastWritten == next - 1

Count == Cardinality({k \in Keys : idx[k] # NoIdx})     \* dictionary_count
Loading == call.op \in {"load", "reset"}                \* inside nvol3_load
Cache(v) == IF v \in LocalVals THEN v ELSE NoVal

-----------------------------------------------------------------------------
(***************************************************************************)
(* Building blocks.                                                        *)
(***************************************************************************)
May(fault) == fault \in Faults

Goto(l) == pc' = l /\ UNCHANGED <<call, ret, src_i, dst_i, todo>>

Return(st) ==
    /\ pc' = "idle" /\ call' = NoCall /\ ret' = st
    /\ src_i' = 0 /\ dst_i' = 0 /\ todo' = {}

Invoke(c, l) ==
    /\ pc = "idle"
    /\ pc' = l /\ call' = c /\ ret' = "none"
    /\ UNCHANGED <<src_i, dst_i, todo>>

\* RAM when there is no dictionary: all zero.
NoRam ==
    /\ sector' = 1 /\ next' = 0
    /\ inuse' = 0 /\ invalid' = 0
    /\ idx' = [k \in Keys |-> NoIdx] /\ local' = [k \in Keys |-> NoVal]

PowerOff ==
    /\ NoRam
    /\ pc' = "off" /\ call' = NoCall /\ ret' = "none"
    /\ src_i' = 0 /\ dst_i' = 0 /\ todo' = {}

Erased(s) ==
    /\ hdr'  = [hdr EXCEPT ![s] = ErasedHdr]
    /\ slot' = [slot EXCEPT ![s] = [i \in Idx |-> Blank]]

\* erase_sector where the caller ignores its status.
TryErase(s) ==
    \/ Erased(s)
    \/ May("eraseFail") /\ UNCHANGED flash

\* set_sector_flags where the caller ignores its status.
TrySetHdr(s, f) ==
    /\ \/ hdr' = [hdr EXCEPT ![s] = ProgramHdr(hdr[s], f)]
       \/ /\ May("headerFail")
          /\ \E h \in TornHdrs(hdr[s], f) : hdr' = [hdr EXCEPT ![s] = h]
    /\ UNCHANGED slot

SetSlot(s, i, r) == slot' = [slot EXCEPT ![s][i] = r] /\ UNCHANGED hdr

\* construct_lookup_table on sector s.  A record with a bad checksum is
\* marked invalid; the status of that write is ignored.
MarkBad(s, marked) ==
    /\ slot' = [slot EXCEPT ![s] =
                  [i \in Idx |-> IF i \in marked THEN Spoiled("INVALID") ELSE slot[s][i]]]
    /\ UNCHANGED hdr

Construct(s) ==
    LET sl == slot[s] IN
    /\ idx'     = [k \in Keys |-> Lookup(sl, k)]
    /\ local'   = [k \in Keys |-> Cache(Contents(sl)[k])]
    /\ inuse'   = Cardinality(Live(sl))
    /\ invalid' = Cardinality(With(sl, {"INVALID"})) + Cardinality(Bad(sl))
    /\ next'    = Cardinality(Scanned(sl))
    /\ sector'  = s
    /\ \E m \in SUBSET Bad(sl) :
          /\ m = Bad(sl) \/ May("writeFail")
          /\ MarkBad(s, m)

-----------------------------------------------------------------------------
(***************************************************************************)
(* Load: registry_start, nvol3_validate, nvol3_load and init_sectors.      *)
(***************************************************************************)
Start ==
    /\ pc = "off"
    /\ pc' = IF Validate(hdr) = "EOK" THEN "scrub1" ELSE "reset1"
    /\ call' = [NoCall EXCEPT !.op = "load"]
    /\ UNCHANGED <<flash, ram, ret, src_i, dst_i, todo>>

\* nvol3_reset erases both sectors and loads; nvol3_delete (op "wipe") erases
\* both and drops the dictionary.  Neither looks at the status of the erase.
ResetErase1 ==
    /\ pc = "reset1"
    /\ TryErase(1)
    /\ Goto("reset2")
    /\ UNCHANGED ram

ResetErase2 ==
    /\ pc = "reset2"
    /\ TryErase(2)
    /\ IF call.op = "wipe" THEN PowerOff ELSE Goto("scrub1") /\ UNCHANGED ram

Scrub(s, from, to) ==
    /\ pc = from
    /\ IF hdr[s].flags = "GARBAGE" THEN TryErase(s) ELSE UNCHANGED flash
    /\ Goto(to)
    /\ UNCHANGED ram

Scrub1 == Scrub(1, "scrub1", "scrub2")
Scrub2 == Scrub(2, "scrub2", "plan")

PlanStep ==
    /\ pc = "plan"
    /\ sector' = Plan(hdr).use
    /\ \/ Plan(hdr).act = "format"     /\ Goto("formatErase")
       \/ Plan(hdr).act = "eraseOther" /\ Goto("dropOther")
       \/ Plan(hdr).act = "repair"     /\ Goto("moveErase")
       \/ Plan(hdr).act = "none"       /\ Goto("build")
    /\ UNCHANGED <<flash, next, inuse, invalid, idx, local>>

FormatErase == pc = "formatErase" /\ TryErase(sector) /\ Goto("formatValid") /\ UNCHANGED ram
FormatValid == pc = "formatValid" /\ TrySetHdr(sector, "VALID") /\ Goto("build") /\ UNCHANGED ram
DropOther   == pc = "dropOther" /\ TryErase(Dst) /\ Goto("build") /\ UNCHANGED ram

\* The construct_lookup_table that ends init_sectors.
Build ==
    /\ pc = "build"
    /\ Construct(sector)
    /\ Return(IF hdr[sector].ver THEN "EOK" ELSE "E_VERSION")

-----------------------------------------------------------------------------
(***************************************************************************)
(* move_sector: copy every good record of the sector, in slot order.       *)
(* nvol3_repair and a failed swap_sectors use it.                          *)
(***************************************************************************)
\* move_sector returned an error, which init_sectors ignores.
MoveFailed ==
    IF Loading THEN Goto("build") ELSE Return("EFAIL")

MoveErase ==
    /\ pc = "moveErase"
    /\ \/ /\ IF NeedsErase(Dst) THEN Erased(Dst) ELSE UNCHANGED flash
          /\ Goto("moveInit")
       \/ /\ May("eraseFail") /\ NeedsErase(Dst)
          /\ UNCHANGED flash
          /\ MoveFailed
    /\ UNCHANGED ram

MoveInit ==
    /\ pc = "moveInit"
    /\ \/ /\ hdr' = [hdr EXCEPT ![Dst] = ProgramHdr(hdr[Dst], "INIT")]
          /\ pc' = "moveCopy" /\ src_i' = 0 /\ dst_i' = 0 /\ todo' = {}
          /\ UNCHANGED <<call, ret>>
       \/ /\ May("headerFail")
          /\ \E h \in TornHdrs(hdr[Dst], "INIT") : hdr' = [hdr EXCEPT ![Dst] = h]
          /\ MoveFailed
    /\ UNCHANGED <<slot, ram>>

\* Deliberate error, for the mutants of the checks: the loop starts over after
\* every record.
MoveLeftWrong == Live(slot[sector])

\* The records the loop of move_sector has still to copy.
MoveLeft == {i \in Live(slot[sector]) : i >= src_i}

\* A failed write of a record is logged and the record is dropped.
MoveCopy ==
    /\ pc = "moveCopy" /\ MoveLeft # {}
    /\ LET i == Min(MoveLeft)
           r == slot[sector][i]
           old == slot[Dst][dst_i]
       IN  /\ \/ SetSlot(Dst, dst_i, Program(old, r))
              \/ May("writeFail") /\ \E x \in TornWrites(old, "VALID") : SetSlot(Dst, dst_i, x)
           /\ src_i' = i + 1
    /\ dst_i' = dst_i + 1
    /\ UNCHANGED <<ram, pc, call, ret, todo>>

MoveValid ==
    /\ pc = "moveCopy" /\ MoveLeft = {}
    /\ \/ /\ hdr' = [hdr EXCEPT ![Dst] = ProgramHdr(hdr[Dst], "VALID")]
          /\ Goto("switch")
       \/ /\ May("headerFail")
          /\ \E h \in TornHdrs(hdr[Dst], "VALID") : hdr' = [hdr EXCEPT ![Dst] = h]
          /\ MoveFailed
    /\ UNCHANGED <<slot, ram>>

-----------------------------------------------------------------------------
(***************************************************************************)
(* swap_sectors: copy the records the dictionary points to, in the order   *)
(* of the hash table.                                                      *)
(***************************************************************************)
SwapErase ==
    /\ pc = "swapErase"
    /\ \/ /\ IF NeedsErase(Dst) THEN Erased(Dst) ELSE UNCHANGED flash
          /\ Goto("swapInit")
       \/ /\ May("eraseFail") /\ NeedsErase(Dst)
          /\ UNCHANGED flash
          /\ Return("EFAIL")
    /\ UNCHANGED ram

SwapInit ==
    /\ pc = "swapInit"
    /\ \/ /\ hdr' = [hdr EXCEPT ![Dst] = ProgramHdr(hdr[Dst], "INIT")]
          /\ pc' = "swapCopy" /\ src_i' = 0 /\ dst_i' = 0
          /\ todo' = {k \in Keys : idx[k] # NoIdx}
          /\ UNCHANGED <<call, ret>>
       \/ /\ May("headerFail")
          /\ \E h \in TornHdrs(hdr[Dst], "INIT") : hdr' = [hdr EXCEPT ![Dst] = h]
          /\ Return("EFAIL")
    /\ UNCHANGED <<slot, ram>>

\* The entry's idx is already the one in the new sector when the loop goes on.
SwapCopy ==
    /\ pc = "swapCopy"
    /\ \E k \in todo :
          /\ slot[sector][idx[k]].flags = "VALID"
          /\ SetSlot(Dst, dst_i, Program(slot[Dst][dst_i], slot[sector][idx[k]]))
          /\ idx' = [idx EXCEPT ![k] = dst_i]
          /\ todo' = todo \ {k}
    /\ dst_i' = dst_i + 1
    /\ UNCHANGED <<sector, next, inuse, invalid, local, pc, call, ret, src_i>>

\* Deliberate error, for the mutants of the checks: the swap starts over.
FallbackWrong == "swapErase"

\* A record that cannot be read or written: start again with move_sector.
Fallback == "moveErase"

SwapCopyFail ==
    /\ pc = "swapCopy"
    /\ \E k \in todo :
          \/ /\ slot[sector][idx[k]].flags # "VALID"
             /\ UNCHANGED flash
          \/ /\ slot[sector][idx[k]].flags = "VALID"
             /\ May("writeFail")
             /\ \E x \in TornWrites(slot[Dst][dst_i], "VALID") : SetSlot(Dst, dst_i, x)
    /\ Goto(Fallback)
    /\ UNCHANGED ram

SwapValid ==
    /\ pc = "swapCopy" /\ todo = {}
    /\ \/ /\ hdr' = [hdr EXCEPT ![Dst] = ProgramHdr(hdr[Dst], "VALID")]
          /\ Goto("switch")
       \/ /\ May("headerFail")
          /\ \E h \in TornHdrs(hdr[Dst], "VALID") : hdr' = [hdr EXCEPT ![Dst] = h]
          /\ Return("EFAIL")
    /\ UNCHANGED <<slot, ram>>

\* swap_sectors and nvol3_repair: use the destination, rebuild the dictionary
\* from it, erase the source.
Switch ==
    /\ pc = "switch"
    /\ Construct(Dst)
    /\ Goto("eraseSource")

EraseSource ==
    /\ pc = "eraseSource"
    /\ \/ /\ Erased(Dst)
          /\ \/ call.op = "set"    /\ Goto("write")
             \/ Loading            /\ Goto("build")
             \/ call.op = "repair" /\ Return("EOK")
       \/ /\ May("eraseFail")
          /\ UNCHANGED flash
          /\ IF Loading THEN Goto("build") ELSE Return("EFAIL")
    /\ UNCHANGED ram

-----------------------------------------------------------------------------
(***************************************************************************)
(* nvol3_record_set and record_set.                                        *)
(***************************************************************************)
Set(k, v) ==
    /\ Invoke([op |-> "set", key |-> k, val |-> v], IF next >= N THEN "swapErase" ELSE "write")
    /\ UNCHANGED <<flash, ram>>

\* Deliberate error, for the mutants of the checks: no headroom.
VolumeFullWrong == Count > N

VolumeFull == Count >= N - Headroom
SameValue ==
    /\ idx[call.key] # NoIdx
    /\ slot[sector][idx[call.key]].flags = "VALID"
    /\ slot[sector][idx[call.key]].key = call.key
    /\ slot[sector][idx[call.key]].val = call.val

SetFull == pc = "write" /\ VolumeFull /\ Return("EFAIL") /\ UNCHANGED <<flash, ram>>
SetSame == pc = "write" /\ ~VolumeFull /\ SameValue /\ Return("EOK") /\ UNCHANGED <<flash, ram>>

WriteRecord ==
    /\ pc = "write" /\ ~VolumeFull /\ ~SameValue /\ next < N
    /\ SetSlot(sector, next, Program(slot[sector][next], Written("NEW", call.key, call.val)))
    /\ Goto("commit")
    /\ UNCHANGED ram

\* write_variable_record fails, also because there is no slot at next_idx; the
\* slot is given up, and marking it invalid may fail too.
WriteRecordFail ==
    /\ pc = "write" /\ ~VolumeFull /\ ~SameValue
    /\ \/ next >= N /\ UNCHANGED flash
       \/ /\ next < N /\ May("writeFail")
          /\ \E x \in TornWrites(slot[sector][next], "NEW") \cup {Spoiled("INVALID")} :
                SetSlot(sector, next, x)
    /\ next' = next + 1 /\ invalid' = invalid + 1
    /\ Return("EFAIL")
    /\ UNCHANGED <<sector, inuse, idx, local>>

Commit ==
    /\ pc = "commit"
    /\ SetSlot(sector, next, SetValid(slot[sector][next]))
    /\ next' = next + 1 /\ inuse' = inuse + 1
    /\ Goto("retire")
    /\ UNCHANGED <<sector, invalid, idx, local>>

CommitFail ==
    /\ pc = "commit" /\ May("writeFail")
    /\ \E x \in {slot[sector][next], SetValid(slot[sector][next])} : SetSlot(sector, next, x)
    /\ next' = next + 1
    /\ Return("EFAIL")
    /\ UNCHANGED <<sector, inuse, invalid, idx, local>>

\* The previous record, if any, is marked invalid, the status of that write is
\* ignored, and the dictionary gets the new one.
Retire ==
    LET k == call.key IN
    /\ pc = "retire"
    /\ IF idx[k] = NoIdx
       THEN UNCHANGED <<flash, inuse, invalid>>
       ELSE /\ \/ SetSlot(sector, idx[k], Spoiled("INVALID"))
               \/ /\ May("writeFail")
                  /\ \E x \in {slot[sector][idx[k]], Torn(slot[sector][idx[k]])} :
                        SetSlot(sector, idx[k], x)
            /\ inuse' = inuse - 1 /\ invalid' = invalid + 1
    /\ idx' = [idx EXCEPT ![k] = LastWritten]
    /\ local' = [local EXCEPT ![k] = Cache(call.val)]
    /\ Return("EOK")
    /\ UNCHANGED <<sector, next>>

-----------------------------------------------------------------------------
(***************************************************************************)
(* nvol3_record_delete: the record is marked invalid, the status of that   *)
(* write is ignored, and the key leaves the dictionary.                    *)
(***************************************************************************)
Delete(k) ==
    /\ pc = "idle"
    /\ IF idx[k] = NoIdx
       THEN pc' = pc /\ call' = call /\ ret' = "E_NOTFOUND"
       ELSE /\ pc' = "remove" /\ ret' = "none"
            /\ call' = [op |-> "delete", key |-> k, val |-> NoVal]
    /\ UNCHANGED <<flash, ram, src_i, dst_i, todo>>

Remove ==
    /\ pc = "remove"
    /\ LET i == idx[call.key] IN
          \/ SetSlot(sector, i, Spoiled("INVALID"))
          \/ /\ May("writeFail")
             /\ \E x \in {slot[sector][i], Torn(slot[sector][i])} : SetSlot(sector, i, x)
    /\ Goto("forget")
    /\ UNCHANGED ram

Forget ==
    /\ pc = "forget"
    /\ inuse' = inuse - 1 /\ invalid' = invalid + 1
    /\ idx' = [idx EXCEPT ![call.key] = NoIdx]
    /\ local' = [local EXCEPT ![call.key] = NoVal]
    /\ Return("EOK")
    /\ UNCHANGED <<flash, sector, next>>

-----------------------------------------------------------------------------
(***************************************************************************)
(* The other calls a client makes on a loaded volume.                      *)
(***************************************************************************)
Repair ==
    /\ Invoke([NoCall EXCEPT !.op = "repair"], "moveErase")
    /\ UNCHANGED <<flash, ram>>

\* registry_erase.  The dictionary is destroyed first.
Reset ==
    /\ Invoke([NoCall EXCEPT !.op = "reset"], "reset1")
    /\ NoRam /\ UNCHANGED flash

Wipe ==
    /\ Invoke([NoCall EXCEPT !.op = "wipe"], "reset1")
    /\ UNCHANGED <<flash, ram>>

\* registry_stop.
Unload == pc = "idle" /\ PowerOff /\ UNCHANGED flash

\* nvol3_record_get, once loaded: the copy in RAM if there is one, else FLASH.
RecordGet(k) ==
    IF idx[k] = NoIdx                              THEN NoVal
    ELSE IF local[k] # NoVal                       THEN local[k]
    ELSE IF slot[sector][idx[k]].flags = "VALID"   THEN slot[sector][idx[k]].val
    ELSE NoVal

-----------------------------------------------------------------------------
(***************************************************************************)
(* Loss of power.  RAM is lost; FLASH is as the last operation left it, or *)
(* as the operation in progress left it half done.                         *)
(***************************************************************************)
Crash == May("crash") /\ pc # "off" /\ PowerOff /\ UNCHANGED flash

TornWrite ==
    /\ May("tornWrite")
    /\ \/ /\ pc = "write" /\ ~VolumeFull /\ ~SameValue /\ next < N
          /\ \E x \in TornWrites(slot[sector][next], "NEW") : SetSlot(sector, next, x)
       \/ /\ \/ pc = "moveCopy" /\ MoveLeft # {}
             \/ pc = "swapCopy" /\ todo # {}
          /\ \E x \in TornWrites(slot[Dst][dst_i], "VALID") : SetSlot(Dst, dst_i, x)
       \/ /\ pc \in {"retire", "remove"} /\ idx[call.key] # NoIdx
          /\ LET i == idx[call.key] IN SetSlot(sector, i, Torn(slot[sector][i]))
       \/ pc = "build"  /\ \E m \in SUBSET Bad(slot[sector]) : MarkBad(sector, m)
       \/ pc = "switch" /\ \E m \in SUBSET Bad(slot[Dst]) : MarkBad(Dst, m)
    /\ PowerOff

\* A call is about to write flags f to the header of sector s.
WritesHdr(s, f) ==
    \/ pc = "formatValid"               /\ s = sector /\ f = "VALID"
    \/ pc \in {"moveInit", "swapInit"}  /\ s = Dst    /\ f = "INIT"
    \/ pc = "moveCopy" /\ MoveLeft = {} /\ s = Dst    /\ f = "VALID"
    \/ pc = "swapCopy" /\ todo = {}     /\ s = Dst    /\ f = "VALID"

TornHeader ==
    /\ May("tornHeader")
    /\ \E s \in Sectors, f \in {"INIT", "VALID"} :
          /\ WritesHdr(s, f)
          /\ \E h \in TornHdrs(hdr[s], f) : hdr' = [hdr EXCEPT ![s] = h]
    /\ PowerOff /\ UNCHANGED slot

\* A call is about to erase sector s.
Erases(s) ==
    \/ pc = "reset1" /\ s = 1
    \/ pc = "reset2" /\ s = 2
    \/ pc = "scrub1" /\ s = 1 /\ hdr[s].flags = "GARBAGE"
    \/ pc = "scrub2" /\ s = 2 /\ hdr[s].flags = "GARBAGE"
    \/ pc = "formatErase" /\ s = sector
    \/ pc \in {"dropOther", "eraseSource"} /\ s = Dst
    \/ pc \in {"moveErase", "swapErase"} /\ s = Dst /\ NeedsErase(s)

\* Either the header alone is half erased, or it and the first n slots are.
TornErase ==
    /\ May("tornErase")
    /\ \E s \in Sectors, n \in 0..N :
          \E h \in TornErasedHdrs(hdr[s]) :
             /\ Erases(s)
             /\ h.flags # "EMPTY" => n = 0
             /\ hdr' = [hdr EXCEPT ![s] = h]
             /\ slot' = [slot EXCEPT ![s] = [i \in Idx |-> IF i < n THEN Blank ELSE slot[s][i]]]
    /\ PowerOff

-----------------------------------------------------------------------------
\* An erased FLASH and no power.
Init ==
    /\ hdr = [s \in Sectors |-> ErasedHdr]
    /\ slot = [s \in Sectors |-> [i \in Idx |-> Blank]]
    /\ sector = 1 /\ next = 0 /\ inuse = 0 /\ invalid = 0
    /\ idx = [k \in Keys |-> NoIdx] /\ local = [k \in Keys |-> NoVal]
    /\ pc = "off" /\ call = NoCall /\ ret = "none"
    /\ src_i = 0 /\ dst_i = 0 /\ todo = {}

LoadStep == ResetErase1 \/ ResetErase2 \/ Scrub1 \/ Scrub2 \/ PlanStep
            \/ FormatErase \/ FormatValid \/ DropOther \/ Build
MoveStep == MoveErase \/ MoveInit \/ MoveCopy \/ MoveValid
SwapStep == SwapErase \/ SwapInit \/ SwapCopy \/ SwapCopyFail \/ SwapValid
            \/ Switch \/ EraseSource
SetStep == SetFull \/ SetSame \/ WriteRecord \/ WriteRecordFail
           \/ Commit \/ CommitFail \/ Retire
DeleteStep == Remove \/ Forget

\* What the processor does by itself once a call is made.
Step == LoadStep \/ MoveStep \/ SwapStep \/ SetStep \/ DeleteStep

Client ==
    \/ Start
    \/ \E p \in Puts : Set(p[1], p[2])
    \/ \E k \in Deletable : Delete(k)
    \/ Repair \/ Reset \/ Wipe \/ Unload

PowerLoss == Crash \/ TornWrite \/ TornHeader \/ TornErase

Next == Step \/ Client \/ PowerLoss

Spec == Init /\ [][Next]_vars

\* A call that was made runs on: there is one thread and nothing blocks it.
FairSpec == Spec /\ WF_vars(Step)

-----------------------------------------------------------------------------
(***************************************************************************)
(* Properties.                                                             *)
(***************************************************************************)
\* Every variable has its type.
TypeOK ==
    /\ hdr \in [Sectors -> Hdr]
    /\ slot \in [Sectors -> [Idx -> Rec]]
    /\ sector \in Sectors
    /\ next \in Nat
    /\ inuse \in Int /\ invalid \in Int
    /\ idx \in [Keys -> Idx \cup {NoIdx}]
    /\ local \in [Keys -> Vals \cup {NoVal}]
    /\ pc \in PCs /\ call \in Calls /\ ret \in Statuses
    /\ src_i \in Nat /\ dst_i \in Nat
    /\ todo \in SUBSET Keys

\* Outside a load or a reset the sector in use is marked VALID with the right
\* version, whatever swap_sectors and nvol3_repair are in the middle of: power
\* lost there finds a sector that init_sectors uses as it is.
InUseIsValid ==
    pc # "off" /\ call.op \notin {"load", "reset", "wipe"} =>
        hdr[sector] = [flags |-> "VALID", ver |-> TRUE]

\* Between calls the dictionary and next_idx are what construct_lookup_table
\* would make of the sector now, and so are the counters of
\* nvol3_entry_log_status: RAM kept up to date set by set, delete by delete,
\* never drifts from FLASH.
RamMatchesFlash ==
    LET sl == slot[sector] IN
    pc = "idle" =>
        /\ \A k \in Keys : idx[k] = Lookup(sl, k) /\ RecordGet(k) = Contents(sl)[k]
        /\ next = Cardinality(Scanned(sl))
        /\ inuse = Cardinality(Live(sl))
        /\ invalid = Cardinality(With(sl, {"INVALID"}))

\* Between calls every entry of the dictionary leads to a good record of its
\* key, with the value of the copy in RAM: nvol3_record_get never answers with
\* another key's value or with a record that was given up.
EntriesAreGood ==
    pc = "idle" =>
        \A k \in Keys : idx[k] # NoIdx =>
            LET r == slot[sector][idx[k]] IN
            /\ r.flags = "VALID" /\ r.sum /\ r.key = k
            /\ local[k] = Cache(r.val)

\* record_set always finds a free slot when it gets to write: the swap before
\* it leaves at least the headroom.
WriteHasRoom == pc = "write" /\ ~VolumeFull /\ ~SameValue => next < N

\* No index that record_set, nvol3_record_delete, move_sector or swap_sectors
\* comes up with by itself fails the DBG_CHECK of the routine it is given to: it
\* is a record of the sector, however many records were copied or given up.
\* (record_set asks for the check at next_idx: see WriteHasRoom.)
IndexChecksHold ==
    /\ pc = "commit" => next \in Idx
    /\ pc = "retire" => LastWritten \in Idx
    /\ pc = "remove" => idx[call.key] \in Idx
    /\ pc = "moveCopy" /\ MoveLeft # {} => dst_i \in Idx
    /\ pc = "swapCopy" => \A k \in todo : dst_i \in Idx /\ idx[k] \in Idx

\* FLASH that is not erased is never written with a record: a slot that gets
\* data was EMPTY, and all that changes in it before its sector is erased is
\* its flags.  Otherwise the record would be the AND of two.
WritesErasedSlots ==
    [][\A s \in Sectors, i \in Idx :
          LET old == slot[s][i]
              new == slot'[s][i]
          IN  old.flags # "EMPTY" /\ new.flags \in {"NEW", "VALID"} =>
                  [new EXCEPT !.flags = old.flags] = old]_vars

\* Every call returns, unless power is lost first: the loops of move_sector and
\* swap_sectors end and so does the fallback from one to the other.
CallsReturn == (pc \notin {"off", "idle"}) ~> (pc \in {"off", "idle"})
=============================================================================
