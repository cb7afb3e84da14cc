------------------------------ MODULE Spiflash ------------------------------
(***************************************************************************)
(* The driver of a SPI NOR FLASH (drivers/spiflash.c) and the device it    *)
(* drives.  Threads call the driver; the mutex of the SPI bus is all that  *)
(* keeps them apart (SPIFLASH_LOCK is empty), and spiflash_sector_erase    *)
(* and spiflash_chip_erase let go of it on the way.                        *)
(*                                                                         *)
(* A step is what the driver does from one SPI command to the next.  The   *)
(* device starts a program or an erase when it is told to and finishes it  *)
(* some time later; until then it obeys nothing but a status read.         *)
(*                                                                         *)
(* The definitions named ...Wrong are deliberate errors, for the mutants   *)
(* of the checks.                                                          *)
(***************************************************************************)
EXTENDS Integers, FiniteSets, Sequences

CONSTANTS
    Threads,
    NoThread,
    Bits,           \* the bits of a cell: a cell is the set of its ones
    Sectors,        \* how many sectors the device has
    SectorSize,     \* SPIFLASH_SECTOR_SIZE_4K, in cells
    PageSize,       \* 0x100
    WordSize,       \* sizeof(uint32_t)
    WipRetry,       \* SPIFLASH_WAIT_WIP_RETRY
    EraseWaits,     \* the 10 of spiflash_sector_erase_start
    ChipRetry,      \* SPIFLASH_WAIT_CHIP_ERASE_RETRY
    Chip,           \* "protected": sst26, its sectors locked at power up;
                    \* "volatile": locked by its status register; "open"
    Requests,       \* the calls each thread makes
    Faults          \* "jobFails", "deaf" (a write enable is not heard), "restart"

Addr == 0 .. Sectors * SectorSize - 1
End == Sectors * SectorSize
Cell == SUBSET Bits

Ops == {"init", "write", "read", "isDirty", "eraseStart", "erase", "chipErase",
        "readSfdp", "writeDisable"}
NoRequest == [op |-> "none", addr |-> 0, end |-> 0, data |-> <<>>]

ASSUME SizesAssumption ==
    /\ {Sectors, SectorSize, PageSize, WordSize} \subseteq Nat \ {0}
    /\ SectorSize % PageSize = 0 /\ SectorSize % WordSize = 0
ASSUME RetryAssumption == {WipRetry, EraseWaits, ChipRetry} \subseteq Nat \ {0}
ASSUME ThreadAssumption == NoThread \notin Threads
ASSUME ChipAssumption == Chip \in {"protected", "volatile", "open"}
ASSUME RequestsAssumption ==
    /\ DOMAIN Requests = Threads
    /\ \A t \in Threads : \A r \in Requests[t] :
        /\ DOMAIN r = {"op", "addr", "end", "data"}
        /\ r.op \in Ops /\ r.addr \in Addr /\ r.end \in r.addr .. End
        /\ r.data \in Seq(Cell)
        /\ r.op = "write" => r.end = r.addr + Len(r.data)
        /\ r.op \in {"erase", "eraseStart"} => r.addr % SectorSize = 0
        /\ r.op = "erase" => r.end % SectorSize = 0

VARIABLES
    mem, job, wel, err, locked, \* the device: cells, what it is busy with, flags
    bus,            \* who has the SPI bus
    pc, ret,        \* where a thread is, and where the subroutine it is in returns
    req, at,        \* its call, and the address the call has reached
    count, tries,   \* polls and waits left
    rv, res,        \* result of the last wait, status of the call
    dirty,          \* what spiflash_is_dirty found
    ready,          \* "no", "yes" or "deaf": whether spiflash_init has run
    spoiled         \* ghost: what went wrong in the device during a call

device == <<mem, job, wel, err, locked>>
thread == <<pc, ret, req, at, count, tries, rv, res, dirty>>
vars == <<device, bus, thread, ready, spoiled>>

NoJob == [kind |-> "none", by |-> NoThread, req |-> NoRequest, addr |-> 0, len |-> 0]
Busy == job # NoJob

-----------------------------------------------------------------------------
(***************************************************************************)
(* The device.  A page program wraps round inside its page, and can only   *)
(* clear bits.  A job that fails may have got part of the way.             *)
(***************************************************************************)
PageOf(a) == a - (a % PageSize)
Wrapped(a, i) == PageOf(a) + ((a + i) % PageSize)

\* The cells of a job, in the order the device gets to them.
Target(j, i) == IF j.kind = "program" THEN Wrapped(j.addr, i-1) ELSE j.addr + i-1

Programmed(j, i) == mem[Target(j, i)] \cap j.req.data[j.addr - j.req.addr + i]

\* The memory once the device has done the first n cells of j.
After(j, n) ==
    [c \in Addr |->
        IF \E i \in 1 .. n : Target(j, i) = c
        THEN IF j.kind = "erase" THEN Bits
             ELSE Programmed(j, CHOOSE i \in 1 .. n : Target(j, i) = c)
        ELSE mem[c]]

Finish ==
    /\ Busy
    /\ mem' = After(job, job.len) /\ job' = NoJob /\ wel' = FALSE
    /\ UNCHANGED <<err, locked, bus, thread, ready, spoiled>>

\* The job fails: E_ERR or P_ERR goes up.
Fail ==
    /\ Busy /\ "jobFails" \in Faults
    /\ \E n \in 0 .. job.len-1 : mem' = After(job, n)
    /\ job' = NoJob /\ err' = TRUE
    /\ spoiled' = [spoiled EXCEPT ![job.by] = @ \cup {"job"}]
    /\ UNCHANGED <<wel, locked, bus, thread, ready>>

\* The device is given a job, which it takes if it is free to.
Start(t, kind, addr, len) ==
    /\ IF ~Busy /\ wel /\ ~locked
       THEN job' = [kind |-> kind, by |-> t, req |-> req[t], addr |-> addr, len |-> len]
       ELSE UNCHANGED job
    /\ UNCHANGED <<mem, wel, err, locked>>

\* A write enable, and whether the device heard it.
Enable(t, heard) ==
    /\ heard \/ "deaf" \in Faults
    /\ wel' = (wel \/ (heard /\ ~Busy))
    /\ spoiled' = [spoiled EXCEPT ![t] = IF heard THEN @ ELSE @ \cup {"deaf"}]

-----------------------------------------------------------------------------
(***************************************************************************)
(* Building blocks of the driver.                                          *)
(***************************************************************************)
Goto(t, l) == pc' = [pc EXCEPT ![t] = l]
Result(t, v) == res' = [res EXCEPT ![t] = v]

\* spiflash_wait_wip, which goes on at l.
Wait(t, l) ==
    /\ pc' = [pc EXCEPT ![t] = "poll"] /\ ret' = [ret EXCEPT ![t] = l]
    /\ count' = [count EXCEPT ![t] = WipRetry]

\* spiAcquireBus, which goes on at l.
Acquire(t, l) == Goto(t, "acquire") /\ ret' = [ret EXCEPT ![t] = l]

\* Routines that begin with a wait, at the place they go on from.
WaitFirstWrong == {"dFirst", "sFirst", "eEnd", "cFirst", "fFirst"}
WaitFirst == {"wFirst", "dFirst", "sFirst", "eEnd", "cFirst", "fFirst"}

GetBus(t) ==
    /\ pc[t] = "acquire" /\ bus = NoThread
    /\ bus' = t
    /\ IF ret[t] \in WaitFirst THEN Wait(t, ret[t])
       ELSE Goto(t, ret[t]) /\ UNCHANGED <<ret, count>>
    /\ UNCHANGED <<device, req, at, tries, rv, res, dirty, ready, spoiled>>

PollAgainWrong(t) ==
    pc[t] = "poll" /\ Busy /\ count[t] > 1 /\ UNCHANGED vars

PollAgain(t) ==
    /\ pc[t] = "poll" /\ Busy /\ count[t] > 1
    /\ count' = [count EXCEPT ![t] = @ - 1]
    /\ UNCHANGED <<device, bus, pc, ret, req, at, tries, rv, res, dirty, ready, spoiled>>

PollDone(t) ==
    /\ pc[t] = "poll" /\ (Busy => count[t] = 1)
    /\ Goto(t, ret[t])
    /\ rv' = [rv EXCEPT ![t] = IF err THEN "EFAIL" ELSE IF Busy THEN "E_TIMEOUT" ELSE "EOK"]
    /\ IF err /\ ~Busy THEN wel' = FALSE /\ err' = FALSE    \* WRDI, CLSR
       ELSE UNCHANGED <<wel, err>>
    /\ count' = [count EXCEPT ![t] = 0]
    /\ UNCHANGED <<mem, job, locked, bus, ret, req, at, tries, res, dirty, ready, spoiled>>

-----------------------------------------------------------------------------
(***************************************************************************)
(* A call.                                                                 *)
(***************************************************************************)
Entry ==
    [op \in Ops |->
        CASE op = "init" -> "iReset"        [] op = "write" -> "wFirst"
          [] op = "read" -> "read"          [] op = "isDirty" -> "dFirst"
          [] op = "eraseStart" -> "sFirst"  [] op = "chipErase" -> "cFirst"
          [] op = "readSfdp" -> "fFirst"    [] op = "writeDisable" -> "disable"
          [] op = "erase" -> "eSector"]

Call(t, r) ==
    /\ pc[t] = "idle"
    /\ IF r.op = "init" THEN ready = "no" /\ \A u \in Threads : pc[u] = "idle"
       ELSE ready # "no"
    /\ req' = [req EXCEPT ![t] = r] /\ at' = [at EXCEPT ![t] = r.addr]
    /\ Result(t, "EOK") /\ spoiled' = [spoiled EXCEPT ![t] = {}]
    /\ IF r.op = "erase" THEN Goto(t, "eSector") /\ UNCHANGED ret
       ELSE Acquire(t, Entry[r.op])
    /\ UNCHANGED <<device, bus, count, tries, rv, dirty, ready>>

\* spiReleaseBus at the end of a routine.  One that spiflash_sector_erase called
\* goes back to it; otherwise the call returns, and its locals are gone.
Return(t) ==
    /\ pc[t] = "release" /\ (req[t].op = "erase" => ret[t] = "eEnd")
    /\ bus' = NoThread
    /\ Goto(t, "idle") /\ ret' = [ret EXCEPT ![t] = "idle"]
    /\ req' = [req EXCEPT ![t] = NoRequest] /\ at' = [at EXCEPT ![t] = 0]
    /\ tries' = [tries EXCEPT ![t] = 0] /\ dirty' = [dirty EXCEPT ![t] = FALSE]
    /\ rv' = [rv EXCEPT ![t] = "EOK"] /\ Result(t, "EOK")
    /\ spoiled' = [spoiled EXCEPT ![t] = {}]
    /\ UNCHANGED <<device, count, ready>>

BackToErase(t) ==
    /\ pc[t] = "release" /\ req[t].op = "erase" /\ ret[t] # "eEnd"
    /\ bus' = NoThread
    /\ Goto(t, IF ret[t] = "dFirst" THEN "eSeen" ELSE "eStarted")
    /\ rv' = [rv EXCEPT ![t] = "EOK"] /\ tries' = [tries EXCEPT ![t] = 0]
    /\ UNCHANGED <<device, ret, req, at, count, res, dirty, ready, spoiled>>

-----------------------------------------------------------------------------
(***************************************************************************)
(* spiflash_init.  The reset stops what the device is doing.               *)
(***************************************************************************)
InitReset(t) ==
    /\ pc[t] = "iReset"
    /\ \E n \in 0 .. job.len : mem' = After(job, n)
    /\ job' = NoJob /\ wel' = FALSE
    /\ Goto(t, IF Chip = "protected" THEN "iEnable" ELSE "iClear")
    /\ locked' = (locked /\ Chip # "volatile")
    /\ UNCHANGED <<err, bus, ret, req, at, count, tries, rv, res, dirty, ready, spoiled>>

InitEnable(t) ==
    /\ pc[t] = "iEnable"
    /\ \E heard \in BOOLEAN : Enable(t, heard)
    /\ Goto(t, "iUnlock")
    /\ UNCHANGED <<mem, job, err, locked, bus, ret, req, at, count, tries, rv, res, dirty, ready>>

InitUnlock(t) ==
    /\ pc[t] = "iUnlock"
    /\ locked' = (locked /\ ~wel) /\ wel' = FALSE
    /\ Wait(t, "iClear")
    /\ UNCHANGED <<mem, job, err, bus, req, at, tries, rv, res, dirty, ready, spoiled>>

InitClear(t) ==
    /\ pc[t] = "iClear"
    /\ err' = FALSE
    /\ ready' = IF "deaf" \in spoiled[t] THEN "deaf" ELSE "yes"
    /\ Goto(t, "release")
    /\ UNCHANGED <<mem, job, wel, locked, bus, ret, req, at, count, tries, rv, res, dirty, spoiled>>

\* spiflash_write_disable.
Disable(t) ==
    /\ pc[t] = "disable"
    /\ wel' = (wel /\ Busy)
    /\ Goto(t, "release")
    /\ UNCHANGED <<mem, job, err, locked>>
    /\ UNCHANGED <<bus, ret, req, at, count, tries, rv, res, dirty, ready, spoiled>>

-----------------------------------------------------------------------------
(***************************************************************************)
(* spiflash_write.                                                         *)
(***************************************************************************)
ChunkWrong(t) ==
    LET left == req[t].end - at[t] IN IF left < PageSize THEN left ELSE PageSize

\* The bytes that go into the page at[t] is in.
Chunk(t) ==
    LET room == PageSize - (IF at[t] = req[t].addr THEN at[t] % PageSize ELSE 0)
        left == req[t].end - at[t]
    IN  IF left < room THEN left ELSE room

WriteFirstWrong(t) ==
    /\ pc[t] = "wFirst"
    /\ Result(t, rv[t])
    /\ Goto(t, IF rv[t] # "EOK" THEN "idle"
               ELSE IF at[t] < req[t].end THEN "wEnable" ELSE "release")
    /\ UNCHANGED <<device, bus, ret, req, at, count, tries, rv, dirty, ready, spoiled>>

\* A wait that failed fails the call.  The assertion there stops a program that is
\* compiled with assertions, which Restart may do in its place; without them the
\* call goes on.
WriteFirst(t) ==
    /\ pc[t] = "wFirst"
    /\ Result(t, rv[t])
    /\ Goto(t, IF rv[t] = "EOK" /\ at[t] < req[t].end THEN "wEnable" ELSE "release")
    /\ UNCHANGED <<device, bus, ret, req, at, count, tries, rv, dirty, ready, spoiled>>

\* The status of the write enable only decides whether the page is sent: the
\* wait that follows overwrites it.
WriteEnable(t) ==
    /\ pc[t] = "wEnable"
    /\ \E heard \in BOOLEAN :
        /\ Enable(t, heard)
        /\ IF wel' THEN Goto(t, "wSend") /\ UNCHANGED <<ret, count>> ELSE Wait(t, "wAfter")
    /\ UNCHANGED <<mem, job, err, locked, bus, req, at, tries, rv, res, dirty, ready>>

WriteSend(t) ==
    /\ pc[t] = "wSend"
    /\ Start(t, "program", at[t], Chunk(t))
    /\ Wait(t, "wAfter")
    /\ UNCHANGED <<bus, req, at, tries, rv, res, dirty, ready, spoiled>>

WriteAfterWrong(t) ==
    /\ pc[t] = "wAfter"
    /\ at' = [at EXCEPT ![t] = @ + Chunk(t)]
    /\ Goto(t, IF at'[t] < req[t].end THEN "wEnable" ELSE "release")
    /\ UNCHANGED <<device, bus, ret, req, count, tries, rv, res, dirty, ready, spoiled>>

WriteAfter(t) ==
    /\ pc[t] = "wAfter"
    /\ Result(t, rv[t])
    /\ at' = [at EXCEPT ![t] = @ + Chunk(t)]
    /\ Goto(t, IF rv[t] = "EOK" /\ at'[t] < req[t].end THEN "wEnable" ELSE "release")
    /\ UNCHANGED <<device, bus, ret, req, count, tries, rv, dirty, ready, spoiled>>

-----------------------------------------------------------------------------
(***************************************************************************)
(* spiflash_read sends its command whatever the device is doing;           *)
(* spiflash_read_sfdp waits first.                                         *)
(***************************************************************************)
Read(t) ==
    /\ pc[t] = "read"
    /\ Goto(t, "release")
    /\ UNCHANGED <<device, bus, ret, req, at, count, tries, rv, res, dirty, ready, spoiled>>

ReadSfdp(t) ==
    /\ pc[t] = "fFirst"
    /\ Result(t, rv[t])
    /\ Goto(t, "release")
    /\ UNCHANGED <<device, bus, ret, req, at, count, tries, rv, dirty, ready, spoiled>>

(***************************************************************************)
(* spiflash_is_dirty reads its range in whole words.                       *)
(***************************************************************************)
DirtyEnd(t) == IF req[t].op = "erase" THEN at[t] + SectorSize ELSE req[t].end
Words(from, to) == from .. from + ((to - from) \div WordSize) * WordSize - 1

IsDirty(t) ==
    /\ pc[t] = "dFirst"
    /\ dirty' = [dirty EXCEPT ![t] =
                    rv[t] # "EOK" \/ \E c \in Words(at[t], DirtyEnd(t)) : mem[c] # Bits]
    /\ Goto(t, "release")
    /\ UNCHANGED <<device, bus, ret, req, at, count, tries, rv, res, ready, spoiled>>

-----------------------------------------------------------------------------
(***************************************************************************)
(* spiflash_sector_erase_start: the command is sent twice, and the waits   *)
(* that follow have no say in the status.                                  *)
(***************************************************************************)
EraseFirst(t) ==
    /\ pc[t] = "sFirst"
    /\ Result(t, rv[t])
    /\ Goto(t, IF rv[t] = "EOK" THEN "sEnable" ELSE "release")
    /\ UNCHANGED <<device, bus, ret, req, at, count, tries, rv, dirty, ready, spoiled>>

EraseEnable(t) ==
    /\ pc[t] = "sEnable"
    /\ \E heard \in BOOLEAN :
        /\ Enable(t, heard)
        /\ Goto(t, IF wel' THEN "sSend" ELSE "release")
        /\ Result(t, IF wel' THEN "EOK" ELSE "E_TIMEOUT")
    /\ UNCHANGED <<mem, job, err, locked, bus, ret, req, at, count, tries, rv, dirty, ready>>

EraseSend(t) ==
    /\ pc[t] = "sSend"
    /\ Start(t, "erase", at[t], SectorSize)
    /\ Goto(t, "sAgain")
    /\ UNCHANGED <<bus, ret, req, at, count, tries, rv, res, dirty, ready, spoiled>>

EraseAgain(t) ==
    /\ pc[t] = "sAgain"
    /\ Start(t, "erase", at[t], SectorSize)
    /\ Wait(t, "sWait") /\ tries' = [tries EXCEPT ![t] = EraseWaits]
    /\ UNCHANGED <<bus, req, at, rv, res, dirty, ready, spoiled>>

EraseWaitWrong(t) ==
    /\ pc[t] = "sWait"
    /\ IF rv[t] # "EOK"
       THEN Wait(t, "sWait") /\ tries' = [tries EXCEPT ![t] = @ - 1]
       ELSE Goto(t, "release") /\ UNCHANGED <<ret, count, tries>>
    /\ UNCHANGED <<device, bus, req, at, rv, res, dirty, ready, spoiled>>

EraseWait(t) ==
    /\ pc[t] = "sWait"
    /\ IF rv[t] # "EOK" /\ tries[t] > 1
       THEN Wait(t, "sWait") /\ tries' = [tries EXCEPT ![t] = @ - 1]
       ELSE Goto(t, "release") /\ UNCHANGED <<ret, count, tries>>
    /\ UNCHANGED <<device, bus, req, at, rv, res, dirty, ready, spoiled>>

-----------------------------------------------------------------------------
(***************************************************************************)
(* spiflash_sector_erase.  Each routine it calls takes the bus and gives   *)
(* it back; the status of its last wait is only logged.                    *)
(***************************************************************************)
EraseSector(t) ==
    /\ pc[t] = "eSector"
    /\ Acquire(t, IF at[t] < req[t].end THEN "dFirst" ELSE "eEnd")
    /\ UNCHANGED <<device, bus, req, at, count, tries, rv, res, dirty, ready, spoiled>>

EraseSeen(t) ==
    /\ pc[t] = "eSeen"
    /\ IF dirty[t]
       THEN Acquire(t, "sFirst") /\ UNCHANGED at
       ELSE /\ at' = [at EXCEPT ![t] = @ + SectorSize]
            /\ Goto(t, "eSector") /\ UNCHANGED ret
    /\ UNCHANGED <<device, bus, req, count, tries, rv, res, dirty, ready, spoiled>>

EraseStartedWrong(t) ==
    /\ pc[t] = "eStarted"
    /\ at' = [at EXCEPT ![t] = @ + SectorSize]
    /\ Goto(t, "eSector")
    /\ UNCHANGED <<device, bus, ret, req, count, tries, rv, res, dirty, ready, spoiled>>

EraseStarted(t) ==
    /\ pc[t] = "eStarted"
    /\ IF res[t] = "EOK"
       THEN /\ at' = [at EXCEPT ![t] = @ + SectorSize]
            /\ Goto(t, "eSector") /\ UNCHANGED ret
       ELSE Acquire(t, "eEnd") /\ UNCHANGED at
    /\ UNCHANGED <<device, bus, req, count, tries, rv, res, dirty, ready, spoiled>>

EraseEnd(t) ==
    /\ pc[t] = "eEnd"
    /\ Result(t, IF at[t] >= req[t].end THEN "EOK" ELSE "EFAIL")
    /\ Goto(t, "release")
    /\ UNCHANGED <<device, bus, ret, req, at, count, tries, rv, dirty, ready, spoiled>>

-----------------------------------------------------------------------------
(***************************************************************************)
(* spiflash_chip_erase.  It returns with the bus still acquired when it    *)
(* cannot send its command.  Between two polls it lets go of the bus.  It  *)
(* returns the status register it read last: not EOK if any bit is set.    *)
(***************************************************************************)
ChipFirst(t) ==
    /\ pc[t] = "cFirst"
    /\ Result(t, rv[t])
    /\ Goto(t, IF rv[t] = "EOK" THEN "cEnable" ELSE "idle")
    /\ UNCHANGED <<device, bus, ret, req, at, count, tries, rv, dirty, ready, spoiled>>

ChipEnable(t) ==
    /\ pc[t] = "cEnable"
    /\ \E heard \in BOOLEAN :
        /\ Enable(t, heard)
        /\ Goto(t, IF wel' THEN "cSend" ELSE "idle")
        /\ Result(t, IF wel' THEN "EOK" ELSE "E_TIMEOUT")
    /\ UNCHANGED <<mem, job, err, locked, bus, ret, req, at, count, tries, rv, dirty, ready>>

ChipSend(t) ==
    /\ pc[t] = "cSend"
    /\ Start(t, "erase", 0, End)
    /\ Goto(t, "cPoll") /\ tries' = [tries EXCEPT ![t] = ChipRetry]
    /\ UNCHANGED <<bus, ret, req, at, count, rv, res, dirty, ready, spoiled>>

ChipPollWrong(t) ==
    /\ pc[t] = "cPoll"
    /\ IF Busy /\ tries[t] > 1
       THEN /\ bus' = NoThread /\ Acquire(t, "cPoll")
            /\ tries' = [tries EXCEPT ![t] = @ - 1] /\ UNCHANGED res
       ELSE /\ Goto(t, "release")
            /\ Result(t, IF err THEN "EFAIL" ELSE "EOK")
            /\ UNCHANGED <<bus, ret, tries>>
    /\ UNCHANGED <<device, req, at, count, rv, dirty, ready, spoiled>>

ChipPoll(t) ==
    /\ pc[t] = "cPoll"
    /\ IF Busy /\ tries[t] > 1
       THEN /\ bus' = NoThread /\ Acquire(t, "cPoll")
            /\ tries' = [tries EXCEPT ![t] = @ - 1] /\ UNCHANGED res
       ELSE /\ Goto(t, "release")
            /\ Result(t, IF Busy THEN "E_TIMEOUT" ELSE IF err \/ wel THEN "EFAIL" ELSE "EOK")
            /\ UNCHANGED <<bus, ret, tries>>
    /\ UNCHANGED <<device, req, at, count, rv, dirty, ready, spoiled>>

-----------------------------------------------------------------------------
All(v) == [t \in Threads |-> v]

Init ==
    /\ mem = [c \in Addr |-> Bits] /\ job = NoJob /\ wel = FALSE /\ err = FALSE
    /\ locked = (Chip # "open")
    /\ bus = NoThread /\ ready = "no" /\ spoiled = All({})
    /\ pc = All("idle") /\ ret = All("idle") /\ req = All(NoRequest) /\ at = All(0)
    /\ count = All(0) /\ tries = All(0) /\ rv = All("EOK") /\ res = All("EOK")
    /\ dirty = All(FALSE)

\* The processor is reset, by an assertion or from outside; the device is not.
Restart ==
    /\ "restart" \in Faults
    /\ bus' = NoThread /\ ready' = "no" /\ spoiled' = All({})
    /\ pc' = All("idle") /\ ret' = All("idle") /\ req' = All(NoRequest) /\ at' = All(0)
    /\ count' = All(0) /\ tries' = All(0) /\ rv' = All("EOK") /\ res' = All("EOK")
    /\ dirty' = All(FALSE)
    /\ UNCHANGED device

WriteStep(t) == WriteFirst(t) \/ WriteEnable(t) \/ WriteSend(t) \/ WriteAfter(t)
EraseStep(t) == EraseFirst(t) \/ EraseEnable(t) \/ EraseSend(t) \/ EraseAgain(t) \/ EraseWait(t)
LoopStep(t) == EraseSector(t) \/ EraseSeen(t) \/ EraseStarted(t) \/ EraseEnd(t)
ChipStep(t) == ChipFirst(t) \/ ChipEnable(t) \/ ChipSend(t) \/ ChipPoll(t)
InitStep(t) == InitReset(t) \/ InitEnable(t) \/ InitUnlock(t) \/ InitClear(t)

\* A step of a call in progress, other than getting the bus.
Step(t) ==
    \/ PollAgain(t) \/ PollDone(t) \/ Return(t) \/ BackToErase(t)
    \/ WriteStep(t) \/ EraseStep(t) \/ LoopStep(t) \/ ChipStep(t) \/ InitStep(t)
    \/ Disable(t) \/ Read(t) \/ ReadSfdp(t) \/ IsDirty(t)

Next ==
    \/ \E t \in Threads : GetBus(t) \/ Step(t) \/ \E r \in Requests[t] : Call(t, r)
    \/ Finish \/ Fail
    \/ Restart

Spec == Init /\ [][Next]_vars

\* Threads get to run, and the mutex of the bus is handed out in turn.  The
\* device owes nothing: every wait is bounded.
Fairness == \A t \in Threads : WF_vars(Step(t)) /\ SF_vars(GetBus(t))
FairSpec == Spec /\ Fairness

-----------------------------------------------------------------------------
(***************************************************************************)
(* Properties.                                                             *)
(***************************************************************************)
PCs == {"idle", "acquire", "poll", "release", "iReset", "iEnable", "iUnlock", "iClear",
        "disable", "wFirst", "wEnable", "wSend", "wAfter", "read", "fFirst", "dFirst",
        "sFirst", "sEnable", "sSend", "sAgain", "sWait", "eSector", "eSeen", "eStarted",
        "eEnd", "cFirst", "cEnable", "cSend", "cPoll"}
Statuses == {"EOK", "EFAIL", "E_TIMEOUT"}

TypeOK ==
    /\ mem \in [Addr -> Cell] /\ {wel, err, locked} \subseteq BOOLEAN
    /\ job.by \in Threads \cup {NoThread} /\ job.len \in 0 .. End
    /\ bus \in Threads \cup {NoThread}
    /\ pc \in [Threads -> PCs] /\ ret \in [Threads -> PCs]
    /\ at \in [Threads -> 0 .. End]
    /\ count \in [Threads -> 0 .. WipRetry]
    /\ tries \in [Threads -> 0 .. EraseWaits + ChipRetry]
    /\ rv \in [Threads -> Statuses] /\ res \in [Threads -> Statuses]
    /\ dirty \in [Threads -> BOOLEAN] /\ ready \in {"no", "yes", "deaf"}
    /\ spoiled \in [Threads -> SUBSET {"job", "deaf"}]

\* A program or an erase is only sent to a device that takes it: quiet, enabled
\* for writing and, once spiflash_init has got through, unlocked; whatever the
\* other threads were doing when the bus was last free.
CommandsAreHeard ==
    \A t \in Threads : pc[t] \in {"wSend", "sSend", "cSend"} =>
        ~Busy /\ wel /\ (ready = "yes" => ~locked)

\* When spiflash_write is about to return EOK, every bit it had to clear is
\* clear, in whatever pages its range lies and whatever the device reported,
\* unless a write enable of this call was not heard.
OkWriteIsStored ==
    \A t \in Threads :
        pc[t] = "release" /\ req[t].op = "write" /\ res[t] = "EOK" /\ "deaf" \notin spoiled[t]
        /\ ready = "yes"
        => \A i \in 1 .. Len(req[t].data) : mem[req[t].addr + i-1] \subseteq req[t].data[i]

\* When spiflash_sector_erase is about to return EOK every cell of its range is
\* blank, or in the sector the device is still erasing for it, unless the device
\* failed a job of this call.
OkEraseIsErased ==
    \A t \in Threads :
        pc[t] = "release" /\ ret[t] = "eEnd" /\ res[t] = "EOK" /\ "job" \notin spoiled[t]
        /\ ready = "yes"
        => \A c \in req[t].addr .. req[t].end-1 :
            \/ mem[c] = Bits
            \/ /\ Busy /\ job.by = t /\ job.kind = "erase"
               /\ c \in job.addr .. job.addr + job.len - 1

\* A write or a chip erase that leaves the device busy with its own work says
\* so, and an erase of sectors does only after its last wait gave up: what
\* keeps spiflash_read, which does not wait, from reading a busy device.
QuietAfterCall ==
    \A t \in Threads : pc[t] = "release" /\ Busy /\ job.by = t /\ job.req = req[t] =>
        IF req[t].op \in {"write", "chipErase"} THEN res[t] # "EOK" ELSE rv[t] # "EOK"

\* A thread gives the bus back when its call returns, unless that was a chip
\* erase that failed before it sent its command.
BusIsGivenBack ==
    \A t \in Threads : bus = t /\ pc[t] = "idle" =>
        req[t].op = "chipErase" /\ res[t] # "EOK"

\* A cell changes only in the range of the call that gave the device its job: a
\* program clears bits that are 0 in the data for that cell, and nothing else
\* in the page; an erase sets bits in its sectors, of all of them for a chip.
OnlyTheRange ==
    [][\A c \in Addr : mem'[c] # mem[c] =>
        LET r == job.req IN
        CASE r.op = "write" -> /\ c \in r.addr .. r.end-1
                               /\ mem[c] \ mem'[c] \subseteq Bits \ r.data[c - r.addr + 1]
                               /\ mem'[c] \subseteq mem[c]
          [] r.op = "erase" -> c \in r.addr .. r.end-1 /\ mem'[c] = Bits
          [] r.op = "eraseStart" -> c \in r.addr .. r.addr + SectorSize-1 /\ mem'[c] = Bits
          [] r.op = "chipErase" -> mem'[c] = Bits
          [] OTHER -> FALSE]_vars

\* Every call returns, if no chip erase keeps the bus:
\* pc[t] # "idle" ~> pc[t] = "idle" \/ Leaked, which is to say
Leaked == \E t \in Threads : bus = t /\ pc[t] \in {"idle", "acquire"}
CallsReturn == \A t \in Threads : []<>(pc[t] = "idle" \/ Leaked)
=============================================================================
