----------------------------- MODULE NvolFormat -----------------------------
(***************************************************************************)
(* What nvol3 keeps on FLASH and how it reads it back (nvram/nvol3.c).     *)
(*                                                                         *)
(* A volume is two sectors.  A sector is a header, holding its flags and   *)
(* the version of the format, and N record slots written in ascending      *)
(* order.  FLASH is erased a sector at a time to all ones, and a write can *)
(* only turn ones into zeros: writing twice leaves the AND of both writes. *)
(*                                                                         *)
(* A record is abstracted to its flags, its key, its value and whether its *)
(* checksum (and length) match the data.  A sector header is abstracted to *)
(* its flags and whether the version word is the configured one.           *)
(***************************************************************************)
EXTENDS Integers, FiniteSets, FiniteSetsExt

CONSTANTS
    Keys,       \* the keys clients use
    Vals,       \* the values clients store
    NoKey,      \* key of a slot whose data is not a complete record
    NoVal,      \* value of such a slot, and of a key that is not in the volume
    N           \* records per sector: max_records (config)

ASSUME NAssumption == N \in Nat \ {0}
ASSUME NoKeyAssumption == NoKey \notin Keys
ASSUME NoValAssumption == NoVal \notin Vals
ASSUME KeysAssumption == IsFiniteSet(Keys)

Sectors == {1, 2}
Other(s) == 3 - s
Idx == 0 .. N-1
NoIdx == -1                 \* NVOL3_INVALID_VAR_IDX

-----------------------------------------------------------------------------
(***************************************************************************)
(* Records.  NEW (0xAFFF) and TORN are read alike, as E_UNKNOWN.  TORN is  *)
(* 0xAA00: a VALID flag half overwritten by INVALID (0x0000).  NEW half    *)
(* overwritten by VALID is 0xAFAF, which in every respect acts as NEW.     *)
(***************************************************************************)
RecFlags == {"EMPTY", "NEW", "VALID", "TORN", "INVALID"}

Rec == [flags : RecFlags, key : Keys \cup {NoKey}, val : Vals \cup {NoVal},
        sum : BOOLEAN]

\* A slot whose data is erased, incomplete or no longer of interest.
Spoiled(f) == [flags |-> f, key |-> NoKey, val |-> NoVal, sum |-> FALSE]
Blank == Spoiled("EMPTY")
Written(f, k, v) == [flags |-> f, key |-> k, val |-> v, sum |-> TRUE]

\* Writing record new (flags NEW or VALID) over slot content old.
Program(old, new) ==
    LET f == IF "VALID" \in {old.flags, new.flags} THEN "VALID" ELSE "NEW"
        same == old.key = new.key /\ old.val = new.val /\ old.sum = new.sum
    IN  IF old.flags = "EMPTY" THEN new
        ELSE IF old.flags \in {"TORN", "INVALID"} THEN old
        ELSE IF same THEN [old EXCEPT !.flags = f]
        ELSE Spoiled(f)

\* set_variable_record_flags: only the two flag bytes are written.
SetValid(old) ==
    IF old.flags \in {"TORN", "INVALID"} THEN old ELSE [old EXCEPT !.flags = "VALID"]

Torn(old) ==
    IF old.flags = "INVALID" THEN old ELSE Spoiled("TORN")

\* What a write of a record leaves when it stops before its end: nothing, or
\* the flags with data that does not match the checksum.
TornWrites(old, f) == {old, Program(old, Spoiled(f))}

-----------------------------------------------------------------------------
(***************************************************************************)
(* Sector headers.  INIT is 0xAAFFFFFF, VALID is 0xAAAAFFFF; GARBAGE is    *)
(* 0xFFAAFFFF, what the write of VALID to an erased header leaves when it  *)
(* stops inside the flags.  The code never writes NVOL3_SECTOR_INVALID.    *)
(***************************************************************************)
HdrFlags == {"EMPTY", "INIT", "VALID", "GARBAGE"}
Hdr == [flags : HdrFlags, ver : BOOLEAN]

ErasedHdr == [flags |-> "EMPTY", ver |-> FALSE]

\* set_sector_flags: the flags are programmed and then the version.
ProgramHdr(old, f) ==
    [flags |-> IF old.flags \in {"EMPTY", f} THEN f ELSE "VALID", ver |-> TRUE]

\* What is there when set_sector_flags stops before its end.
TornHdrs(old, f) ==
         {old, [ProgramHdr(old, f) EXCEPT !.ver = old.ver]}
    \cup (IF old.flags = "EMPTY" /\ f = "VALID"
          THEN {[flags |-> "GARBAGE", ver |-> FALSE]}
          ELSE {})

\* What is there when an erase, which runs upwards from the header, stops
\* inside the header: the VALID flags have become INIT, or the header is gone.
TornErasedHdrs(old) ==
    {ErasedHdr} \cup (IF old.flags = "VALID" THEN {[old EXCEPT !.flags = "INIT"]} ELSE {})

-----------------------------------------------------------------------------
(***************************************************************************)
(* Reading a sector back: sl is the function from Idx to records.          *)
(***************************************************************************)
\* Deliberate errors, for the mutants of the checks: the scan ends at the
\* first record that is not good; the first record of a key wins.
ScannedWrong(sl) == {i \in Idx : \A j \in 0..i : sl[j].flags = "VALID"}
LookupWrong(sl, k) ==
    LET I == {i \in Idx : sl[i].flags = "VALID" /\ sl[i].sum /\ sl[i].key = k}
    IN  IF I = {} THEN NoIdx ELSE Min(I)

\* construct_lookup_table and move_sector stop at the first EMPTY record.
Scanned(sl) == {i \in Idx : \A j \in 0..i : sl[j].flags # "EMPTY"}

\* Records that both of them accept: read_variable_record is EOK and
\* variable_record_valid finds the checksum right.
Live(sl) == {i \in Scanned(sl) : sl[i].flags = "VALID" /\ sl[i].sum}
Bad(sl)  == {i \in Scanned(sl) : sl[i].flags = "VALID" /\ ~sl[i].sum}
With(sl, f) == {i \in Scanned(sl) : sl[i].flags \in f}

LiveOf(sl, k) == {i \in Live(sl) : sl[i].key = k}

\* insert_lookup_table replaces the entry of the key: the last record wins.
Lookup(sl, k) == LET I == LiveOf(sl, k) IN IF I = {} THEN NoIdx ELSE Max(I)
ValueAt(sl, i) == IF i = NoIdx THEN NoVal ELSE sl[i].val
Contents(sl) == [k \in Keys |-> ValueAt(sl, Lookup(sl, k))]

-----------------------------------------------------------------------------
(***************************************************************************)
(* Choosing a sector: h is the function from Sectors to headers.           *)
(***************************************************************************)
\* nvol3_validate: the first sector that is not erased or garbage decides.
Validate(h) ==
    LET known == {s \in Sectors : h[s].flags \in {"INIT", "VALID"}}
    IN  IF known = {} THEN "EFAIL"
        ELSE IF h[Min(known)].ver THEN "EOK"
        ELSE "E_VERSION"

\* init_sectors erases a sector with garbage flags and goes on as if it
\* had found it empty.
Seen(h, s) == IF h[s].flags = "GARBAGE" THEN "EMPTY" ELSE h[s].flags

\* Deliberate error, for the mutants of the checks: a sector that is still
\* being initialised is taken for a valid one.
PlanWrong(h) ==
    LET f1 == Seen(h, 1)
        f2 == Seen(h, 2)
    IN  IF f1 # "EMPTY"      THEN [use |-> 1, act |-> "eraseOther"]
        ELSE IF f2 # "EMPTY" THEN [use |-> 2, act |-> "none"]
        ELSE                      [use |-> 1, act |-> "format"]

\* The nested switch of init_sectors: which sector to use, and what else to
\* do.  The rows for NVOL3_SECTOR_INVALID are left out.
Plan(h) ==
    LET f1 == Seen(h, 1)
        f2 == Seen(h, 2)
    IN  IF f1 = "VALID"      THEN [use |-> 1, act |-> "eraseOther"]
        ELSE IF f2 = "VALID" THEN [use |-> 2, act |-> IF f1 = "INIT" THEN "eraseOther" ELSE "none"]
        ELSE IF f1 = "INIT"  THEN [use |-> 1, act |-> "repair"]
        ELSE IF f2 = "INIT"  THEN [use |-> 2, act |-> "repair"]
        ELSE                      [use |-> 1, act |-> "format"]

\* The key/value map registry_start brings back from FLASH: nothing if it
\* resets the volume, otherwise the contents of the sector init_sectors uses.
Recovered(h, sl) ==
    IF Validate(h) # "EOK" THEN [k \in Keys |-> NoVal] ELSE Contents(sl[Plan(h).use])
=============================================================================
