------------------------ MODULE SpiflashStoreProofs -------------------------
(***************************************************************************)
(* What EOK is worth, for any number of threads, any sizes, requests that  *)
(* may overlap, and every fault: OkWriteIsStored of spiflash_write, and    *)
(* OkEraseIsErased of spiflash_sector_erase, though that call lets go of   *)
(* the bus between two sectors.  Nobody else may write to what a thread    *)
(* erases.                                                                 *)
(***************************************************************************)
EXTENDS SpiflashProofs

-----------------------------------------------------------------------------
(***************************************************************************)
(* A write.                                                                *)
(***************************************************************************)
\* The first n bytes of a write have got to the memory.
Stored(t, n) == \A i \in 1 .. n : mem[req[t].addr + i-1] \subseteq req[t].data[i]

\* What a write has sent before it waits.
Piece(t) == [kind |-> "program", by |-> t, req |-> req[t], addr |-> at[t], len |-> Chunk(t)]

Trusted(t) == "deaf" \notin spoiled[t] /\ ready = "yes"

Before(t) == at[t] - req[t].addr
Behind(t) == (at[t] + Chunk(t)) - req[t].addr

\* How much of a write is stored.  While it waits for a piece, the device is busy
\* with that piece, or has failed it, or has done it.
StoreAt(t) ==
    /\ Place(t) = "wFirst" => at[t] = req[t].addr
    /\ Place(t) = "wAfter" /\ Busy => job = Piece(t)
    /\ Trusted(t) =>
        /\ Place(t) \in {"wEnable", "wSend", "wAfter"} => Stored(t, Before(t))
        /\ pc[t] = "poll" /\ ret[t] = "wAfter" /\ ~Busy /\ ~err => Stored(t, Behind(t))
        /\ pc[t] = "wAfter" /\ rv[t] = "EOK" => Stored(t, Behind(t))
        /\ pc[t] = "release" /\ req[t].op = "write" /\ res[t] = "EOK"
              => Stored(t, req[t].end - req[t].addr)

StoreInv == \A t \in Threads : StoreAt(t)

-----------------------------------------------------------------------------
LEMMA NotLess == ASSUME NEW x \in Int, NEW y \in Int, x <= y, ~(x < y) PROVE x = y
OBVIOUS

LEMMA ChunkSame ==
    ASSUME NEW t \in Threads, at'[t] = at[t], req'[t] = req[t]
    PROVE  Chunk(t)' = Chunk(t)
BY DEF Chunk

\* What a thread has stored does not depend on what another one does: the one that
\* meets the device has the bus, and so the first is not writing.
LEMMA OthersStay ==
    ASSUME SpiInv, StoreInv, NEW t \in Threads, NEW v \in Threads \ {t},
           pc'[v] = pc[v], ret'[v] = ret[v], req'[v] = req[v], at'[v] = at[v],
           rv'[v] = rv[v], res'[v] = res[v], spoiled'[v] = spoiled[v],
           pc[t] \notin Outside \/ (ready' = ready /\ mem' = mem /\ job' = job /\ err' = err)
    PROVE  StoreAt(v)'
<1>1. StoreAt(v)
  BY DEF StoreInv
<1>2. Chunk(v)' = Chunk(v)
  BY ChunkSame
<1>3. CASE pc[v] \in Outside
  <2>1. pc[v] = "acquire" => ret[v] # "wAfter" /\ ret[v] # "wEnable" /\ ret[v] # "wSend"
    BY DEF SpiInv, RetInv, WaitFirst
  <2>2. QED
    BY <1>1, <1>3, <2>1 DEF StoreAt, Place, Outside
<1>4. CASE pc[v] \notin Outside
  <2>1. ready' = ready /\ mem' = mem /\ job' = job /\ err' = err
    BY <1>4 DEF SpiInv, BusInv
  <2>2. QED
    BY <1>1, <1>2, <2>1 DEF StoreAt, Place, Trusted, Before, Behind, Stored, Piece, Busy
<1>5. QED
  BY <1>3, <1>4

\* The device works on a piece: the cells before it stay stored, and when it is
\* done so is the piece.
LEMMA PieceStores ==
    ASSUME SpiInv, RangeInv, NEW t \in Threads, Busy, job = Piece(t), req[t].op = "write",
           NEW n \in 0 .. job.len, mem' = After(job, n)
    PROVE  /\ \A m \in Nat : m <= req[t].end - req[t].addr /\ Stored(t, m)
                  => \A i \in 1 .. m : mem'[req[t].addr + i-1] \subseteq req[t].data[i]
           /\ n = job.len /\ Stored(t, Before(t))
                  => \A i \in 1 .. Before(t) + Chunk(t) :
                        mem'[req[t].addr + i-1] \subseteq req[t].data[i]
<1> DEFINE a == req[t].addr
           d == req[t].data
<1>1. /\ req[t] \in Requests[t] /\ a \in Nat /\ req[t].end \in Nat /\ req[t].end <= End
      /\ at[t] \in Nat /\ a <= at[t] /\ Chunk(t) \in Nat /\ at[t] + Chunk(t) <= req[t].end
      /\ job.len = Chunk(t) /\ job.addr = at[t] /\ job.req = req[t]
  <2>1. JobRange(job) /\ job.addr = at[t] /\ job.len = Chunk(t) /\ job.req = req[t] /\ job.by = t
    BY DEF RangeInv, Piece
  <2>2. QED
    BY <2>1, AddrIs, SizeFacts, RequestFacts DEF JobRange
<1>2. mem \in [Addr -> Cell] /\ JobRange(job)
  BY DEF RangeInv
<1>3. ASSUME NEW c \in Addr PROVE mem'[c] \subseteq mem[c]
  BY <1>1, <1>2, <1>3, AfterIsAllowed DEF Allowed
<1>4. ASSUME NEW i \in 1 .. req[t].end - a PROVE a + i-1 \in Addr
  BY <1>1, <1>4, AddrIs, SizeFacts
<1>5. ASSUME NEW m \in Nat, m <= req[t].end - a, Stored(t, m), NEW i \in 1 .. m
      PROVE  mem'[a + i-1] \subseteq d[i]
  <2>1. i \in 1 .. req[t].end - a
    BY <1>1, <1>5
  <2>2. mem'[a + i-1] \subseteq mem[a + i-1]
    BY <1>3, <1>4, <2>1
  <2>3. mem[a + i-1] \subseteq d[i]
    BY <1>5 DEF Stored
  <2>4. QED
    BY <2>2, <2>3
<1>6. ASSUME n = job.len, NEW k \in 1 .. Chunk(t)
      PROVE  mem'[at[t] + k-1] \subseteq d[at[t] - a + k]
  <2>1. at[t] + k-1 = a + (at[t] - a + k) - 1 /\ at[t] - a + k \in 1 .. req[t].end - a
    BY <1>1, <1>6
  <2>2. at[t] + k-1 \in Addr
    BY <1>4, <2>1
  <2>3. job.kind = "program" /\ InPage(job.addr, job.len)
    BY <1>1, <1>2 DEF JobRange
  <2>4. ASSUME NEW i \in 1 .. n PROVE Target(job, i) = at[t] + i-1
    BY <1>1, <1>6, <2>3, NoWrap DEF Target
  <2>5. Target(job, k) = at[t] + k-1 /\ k \in 1 .. n
    BY <1>1, <1>6, <2>4
  <2>6. \A i \in 1 .. n : Target(job, i) = at[t] + k-1 => i = k
    BY <1>1, <2>4
  <2>7. (CHOOSE i \in 1 .. n : Target(job, i) = at[t] + k-1) = k
    BY <2>5, <2>6
  <2>8. mem'[at[t] + k-1] = Programmed(job, k)
    BY <2>2, <2>3, <2>5, <2>7 DEF After
  <2>9. QED
    BY <1>1, <2>8 DEF Programmed
<1>7. ASSUME n = job.len, Stored(t, Before(t)), NEW i \in 1 .. Before(t) + Chunk(t)
      PROVE  mem'[a + i-1] \subseteq d[i]
  <2>1. Before(t) \in Nat /\ Before(t) = at[t] - a /\ Before(t) <= req[t].end - a
    BY <1>1 DEF Before
  <2>2. CASE i <= Before(t)
    BY <1>5, <1>7, <2>1, <2>2
  <2>3. CASE i > Before(t)
    <3>1. i - (at[t] - a) \in 1 .. Chunk(t)
      BY <1>1, <1>7, <2>1, <2>3
    <3>2. /\ at[t] + (i - (at[t] - a)) - 1 = a + i - 1
          /\ at[t] - a + (i - (at[t] - a)) = i
      BY <1>1, <1>7, <2>1
    <3>3. QED
      BY <1>6, <1>7, <3>1, <3>2
  <2>4. QED
    BY <1>1, <1>7, <2>1, <2>2, <2>3
<1>8. QED
  BY <1>5, <1>7

LEMMA StoreStep == SpiInv /\ RangeInv /\ StoreInv /\ [Next]_vars => StoreInv'
<1> SUFFICES ASSUME SpiInv, RangeInv, StoreInv, [Next]_vars PROVE StoreInv'
  OBVIOUS
<1>0. at \in [Threads -> Nat]
  BY DEF RangeInv, AtInv
<1> USE ThreadAssumption
    DEF SpiInv, Types, RetInv, OpInv, Place, Outside, InitPlaces, OpsAt, WaitFirst,
        PCs, Statuses, NoRequest, device, thread, vars, Wait, Acquire, Goto, Result, Start, Enable
<1>1. ASSUME NEW t \in Threads, GetBus(t) PROVE StoreInv'
  <2>1. ASSUME NEW v \in Threads \ {t} PROVE StoreAt(v)'
    BY <1>1, OthersStay DEF GetBus
  <2>2. StoreAt(t)'
    BY <1>1, ChunkSame DEF GetBus, StoreInv, StoreAt, Trusted, Before, Behind, Stored, Piece, Busy, QuietInv
  <2>3. QED
    BY <2>1, <2>2 DEF StoreInv
<1>2. ASSUME NEW t \in Threads, PollAgain(t) PROVE StoreInv'
  <2>1. ASSUME NEW v \in Threads \ {t} PROVE StoreAt(v)'
    BY <1>2, OthersStay DEF PollAgain
  <2>2. StoreAt(t)'
    BY <1>2, ChunkSame DEF PollAgain, StoreInv, StoreAt, Trusted, Before, Behind, Stored, Piece, Busy, QuietInv
  <2>3. QED
    BY <2>1, <2>2 DEF StoreInv
<1>3. ASSUME NEW t \in Threads, PollDone(t) PROVE StoreInv'
  <2>1. ASSUME NEW v \in Threads \ {t} PROVE StoreAt(v)'
    BY <1>3, OthersStay DEF PollDone
  <2>2. StoreAt(t)'
    BY <1>3, ChunkSame DEF PollDone, StoreInv, StoreAt, Trusted, Before, Behind, Stored, Piece, Busy, QuietInv
  <2>3. QED
    BY <2>1, <2>2 DEF StoreInv
<1>4. ASSUME NEW t \in Threads, Return(t) PROVE StoreInv'
  <2>1. ASSUME NEW v \in Threads \ {t} PROVE StoreAt(v)'
    BY <1>4, OthersStay DEF Return
  <2>2. StoreAt(t)'
    BY <1>4, ChunkSame DEF Return, StoreInv, StoreAt, Trusted, Before, Behind, Stored, Piece, Busy, QuietInv
  <2>3. QED
    BY <2>1, <2>2 DEF StoreInv
<1>5. ASSUME NEW t \in Threads, BackToErase(t) PROVE StoreInv'
  <2>1. ASSUME NEW v \in Threads \ {t} PROVE StoreAt(v)'
    BY <1>5, OthersStay DEF BackToErase
  <2>2. StoreAt(t)'
    BY <1>5, ChunkSame DEF BackToErase, StoreInv, StoreAt, Trusted, Before, Behind, Stored, Piece, Busy, QuietInv
  <2>3. QED
    BY <2>1, <2>2 DEF StoreInv
<1>6. ASSUME NEW t \in Threads, WriteFirst(t) PROVE StoreInv'
  <2>1. ASSUME NEW v \in Threads \ {t} PROVE StoreAt(v)'
    BY <1>6, OthersStay DEF WriteFirst
  <2>2. /\ pc[t] = "wFirst" /\ at[t] = req[t].addr
        /\ at[t] \in Nat /\ req[t].end \in Nat /\ at[t] <= req[t].end
        /\ UNCHANGED <<device, ret, req, at, rv, ready, spoiled>>
    BY <1>6, RequestFacts DEF WriteFirst, StoreInv, StoreAt, RangeInv, AtInv
  <2>3. \/ pc' = [pc EXCEPT ![t] = "wEnable"]
        \/ /\ pc' = [pc EXCEPT ![t] = "release"] /\ res' = [res EXCEPT ![t] = rv[t]]
           /\ rv[t] = "EOK" => at[t] = req[t].end
    <3>1. CASE rv[t] = "EOK" /\ at[t] < req[t].end
      BY <1>6, <3>1 DEF WriteFirst
    <3>2. CASE ~(rv[t] = "EOK" /\ at[t] < req[t].end)
      <4>1. rv[t] = "EOK" => at[t] = req[t].end
        BY <2>2, <3>2, NotLess
      <4>2. pc' = [pc EXCEPT ![t] = "release"] /\ res' = [res EXCEPT ![t] = rv[t]]
        BY <1>6, <3>2 DEF WriteFirst
      <4>3. QED
        BY <4>1, <4>2
    <3>3. QED
      BY <3>1, <3>2
  <2>8. StoreAt(t)'
    BY <2>2, <2>3 DEF StoreAt, Before, Behind, Stored
  <2>9. QED
    BY <2>1, <2>8 DEF StoreInv
<1>7. ASSUME NEW t \in Threads, WriteEnable(t) PROVE StoreInv'
  <2>1. ASSUME NEW v \in Threads \ {t} PROVE StoreAt(v)'
    BY <1>7, OthersStay DEF WriteEnable
  <2>2. StoreAt(t)'
    BY <1>7, ChunkSame DEF WriteEnable, StoreInv, StoreAt, Trusted, Before, Behind, Stored, Piece, Busy, QuietInv
  <2>3. QED
    BY <2>1, <2>2 DEF StoreInv
<1>8. ASSUME NEW t \in Threads, WriteSend(t) PROVE StoreInv'
  <2>1. ASSUME NEW v \in Threads \ {t} PROVE StoreAt(v)'
    BY <1>8, OthersStay DEF WriteSend
  <2>2. /\ pc[t] = "wSend" /\ pc'[t] = "poll" /\ ret'[t] = "wAfter" /\ Place(t)' = "wAfter"
        /\ UNCHANGED <<mem, err, locked, req, at, rv, res, ready, spoiled>>
    BY <1>8 DEF WriteSend
  <2>3. ~Busy /\ wel /\ (ready = "yes" => ~locked)
    BY <2>2 DEF QuietInv, InitInv
  <2>4. job' = IF locked THEN job ELSE Piece(t)
    BY <1>8, <2>3 DEF WriteSend, Piece
  <2>5. Piece(t) # NoJob /\ Piece(t)' = Piece(t)
    BY <2>2, ChunkSame DEF Piece, NoJob
  <2>6. (Busy' => job' = Piece(t)') /\ (ready = "yes" => Busy')
    BY <2>3, <2>4, <2>5 DEF Busy
  <2>7. Trusted(t)' => Stored(t, Before(t))'
    BY <2>2 DEF StoreInv, StoreAt, Trusted, Before, Stored
  <2>8. StoreAt(t)'
    BY <2>2, <2>6, <2>7 DEF StoreAt, Trusted
  <2>9. QED
    BY <2>1, <2>8 DEF StoreInv
<1>9. ASSUME NEW t \in Threads, WriteAfter(t) PROVE StoreInv'
  <2>1. ASSUME NEW v \in Threads \ {t} PROVE StoreAt(v)'
    BY <1>9, OthersStay DEF WriteAfter
  <2> DEFINE a == at[t] + Chunk(t)
  <2>2. /\ pc[t] = "wAfter" /\ at' = [at EXCEPT ![t] = a] /\ at'[t] = a
        /\ UNCHANGED <<device, req, ret, rv, ready, spoiled>>
    BY <1>9, <1>0 DEF WriteAfter
  <2>3. a <= req[t].end /\ a \in Int /\ req[t].end \in Int
    <3>1. at[t] < req[t].end /\ (at[t] = req[t].addr \/ Aligned(at[t], PageSize))
      BY <2>2 DEF RangeInv, AtInv
    <3>2. at[t] \in Nat /\ req[t].addr \in Nat /\ req[t].end \in Nat
      BY RequestFacts DEF RangeInv, AtInv
    <3>3. QED
      BY <3>1, <3>2, ChunkFacts
  <2>4. \/ pc' = [pc EXCEPT ![t] = "wEnable"] /\ rv[t] = "EOK"
        \/ /\ pc' = [pc EXCEPT ![t] = "release"] /\ res' = [res EXCEPT ![t] = rv[t]]
           /\ rv[t] = "EOK" => a = req[t].end
    <3>1. CASE rv[t] = "EOK" /\ a < req[t].end
      BY <1>9, <2>2, <3>1 DEF WriteAfter
    <3>2. CASE ~(rv[t] = "EOK" /\ a < req[t].end)
      <4>1. rv[t] = "EOK" => a = req[t].end
        BY <2>3, <3>2, NotLess
      <4>2. pc' = [pc EXCEPT ![t] = "release"] /\ res' = [res EXCEPT ![t] = rv[t]]
        BY <1>9, <2>2, <3>2 DEF WriteAfter
      <4>3. QED
        BY <4>1, <4>2
    <3>3. QED
      BY <3>1, <3>2
  <2>5. Trusted(t) /\ rv[t] = "EOK"
          => \A i \in 1 .. a - req[t].addr : mem[req[t].addr + i-1] \subseteq req[t].data[i]
    <3>1. Trusted(t) /\ rv[t] = "EOK" => Stored(t, Behind(t))
      BY <2>2 DEF StoreInv, StoreAt
    <3>2. Behind(t) = a - req[t].addr
      BY DEF Behind
    <3>3. QED
      BY <3>1, <3>2 DEF Stored
  <2>6. Trusted(t)' = Trusted(t)
    BY <2>2 DEF Trusted
  <2>8. StoreAt(t)'
    BY <2>2, <2>4, <2>5, <2>6 DEF StoreAt, Before, Stored
  <2>9. QED
    BY <2>1, <2>8 DEF StoreInv
<1>10. ASSUME NEW t \in Threads, EraseFirst(t) PROVE StoreInv'
  <2>1. ASSUME NEW v \in Threads \ {t} PROVE StoreAt(v)'
    BY <1>10, OthersStay DEF EraseFirst
  <2>2. StoreAt(t)'
    BY <1>10, ChunkSame DEF EraseFirst, StoreInv, StoreAt, Trusted, Before, Behind, Stored, Piece, Busy, QuietInv
  <2>3. QED
    BY <2>1, <2>2 DEF StoreInv
<1>11. ASSUME NEW t \in Threads, EraseEnable(t) PROVE StoreInv'
  <2>1. ASSUME NEW v \in Threads \ {t} PROVE StoreAt(v)'
    BY <1>11, OthersStay DEF EraseEnable
  <2>2. StoreAt(t)'
    BY <1>11, ChunkSame DEF EraseEnable, StoreInv, StoreAt, Trusted, Before, Behind, Stored, Piece, Busy, QuietInv
  <2>3. QED
    BY <2>1, <2>2 DEF StoreInv
<1>12. ASSUME NEW t \in Threads, EraseSend(t) PROVE StoreInv'
  <2>1. ASSUME NEW v \in Threads \ {t} PROVE StoreAt(v)'
    BY <1>12, OthersStay DEF EraseSend
  <2>2. StoreAt(t)'
    BY <1>12, ChunkSame DEF EraseSend, StoreInv, StoreAt, Trusted, Before, Behind, Stored, Piece, Busy, QuietInv
  <2>3. QED
    BY <2>1, <2>2 DEF StoreInv
<1>13. ASSUME NEW t \in Threads, EraseAgain(t) PROVE StoreInv'
  <2>1. ASSUME NEW v \in Threads \ {t} PROVE StoreAt(v)'
    BY <1>13, OthersStay DEF EraseAgain
  <2>2. StoreAt(t)'
    BY <1>13, ChunkSame DEF EraseAgain, StoreInv, StoreAt, Trusted, Before, Behind, Stored, Piece, Busy, QuietInv
  <2>3. QED
    BY <2>1, <2>2 DEF StoreInv
<1>14. ASSUME NEW t \in Threads, EraseWait(t) PROVE StoreInv'
  <2>1. ASSUME NEW v \in Threads \ {t} PROVE StoreAt(v)'
    BY <1>14, OthersStay DEF EraseWait
  <2>2. StoreAt(t)'
    BY <1>14, ChunkSame DEF EraseWait, StoreInv, StoreAt, Trusted, Before, Behind, Stored, Piece, Busy, QuietInv
  <2>3. QED
    BY <2>1, <2>2 DEF StoreInv
<1>15. ASSUME NEW t \in Threads, EraseSector(t) PROVE StoreInv'
  <2>1. ASSUME NEW v \in Threads \ {t} PROVE StoreAt(v)'
    BY <1>15, OthersStay DEF EraseSector
  <2>2. StoreAt(t)'
    BY <1>15, ChunkSame DEF EraseSector, StoreInv, StoreAt, Trusted, Before, Behind, Stored, Piece, Busy, QuietInv
  <2>3. QED
    BY <2>1, <2>2 DEF StoreInv
<1>16. ASSUME NEW t \in Threads, EraseSeen(t) PROVE StoreInv'
  <2>1. ASSUME NEW v \in Threads \ {t} PROVE StoreAt(v)'
    BY <1>16, <1>0, OthersStay DEF EraseSeen
  <2>8. StoreAt(t)'
    BY <1>16, ChunkSame DEF EraseSeen, StoreInv, StoreAt, Trusted, Before, Behind, Stored, Piece, Busy, QuietInv
  <2>9. QED
    BY <2>1, <2>8 DEF StoreInv
<1>17. ASSUME NEW t \in Threads, EraseStarted(t) PROVE StoreInv'
  <2>1. ASSUME NEW v \in Threads \ {t} PROVE StoreAt(v)'
    BY <1>17, <1>0, OthersStay DEF EraseStarted
  <2>8. StoreAt(t)'
    BY <1>17, ChunkSame DEF EraseStarted, StoreInv, StoreAt, Trusted, Before, Behind, Stored, Piece, Busy, QuietInv
  <2>9. QED
    BY <2>1, <2>8 DEF StoreInv
<1>18. ASSUME NEW t \in Threads, EraseEnd(t) PROVE StoreInv'
  <2>1. ASSUME NEW v \in Threads \ {t} PROVE StoreAt(v)'
    BY <1>18, OthersStay DEF EraseEnd
  <2>2. StoreAt(t)'
    BY <1>18, ChunkSame DEF EraseEnd, StoreInv, StoreAt, Trusted, Before, Behind, Stored, Piece, Busy, QuietInv
  <2>3. QED
    BY <2>1, <2>2 DEF StoreInv
<1>19. ASSUME NEW t \in Threads, ChipFirst(t) PROVE StoreInv'
  <2>1. ASSUME NEW v \in Threads \ {t} PROVE StoreAt(v)'
    BY <1>19, OthersStay DEF ChipFirst
  <2>2. StoreAt(t)'
    BY <1>19, ChunkSame DEF ChipFirst, StoreInv, StoreAt, Trusted, Before, Behind, Stored, Piece, Busy, QuietInv
  <2>3. QED
    BY <2>1, <2>2 DEF StoreInv
<1>20. ASSUME NEW t \in Threads, ChipEnable(t) PROVE StoreInv'
  <2>1. ASSUME NEW v \in Threads \ {t} PROVE StoreAt(v)'
    BY <1>20, OthersStay DEF ChipEnable
  <2>2. StoreAt(t)'
    BY <1>20, ChunkSame DEF ChipEnable, StoreInv, StoreAt, Trusted, Before, Behind, Stored, Piece, Busy, QuietInv
  <2>3. QED
    BY <2>1, <2>2 DEF StoreInv
<1>21. ASSUME NEW t \in Threads, ChipSend(t) PROVE StoreInv'
  <2>1. ASSUME NEW v \in Threads \ {t} PROVE StoreAt(v)'
    BY <1>21, OthersStay DEF ChipSend
  <2>2. StoreAt(t)'
    BY <1>21, ChunkSame DEF ChipSend, StoreInv, StoreAt, Trusted, Before, Behind, Stored, Piece, Busy, QuietInv
  <2>3. QED
    BY <2>1, <2>2 DEF StoreInv
<1>22. ASSUME NEW t \in Threads, ChipPoll(t) PROVE StoreInv'
  <2>1. ASSUME NEW v \in Threads \ {t} PROVE StoreAt(v)'
    BY <1>22, OthersStay DEF ChipPoll
  <2>2. StoreAt(t)'
    BY <1>22, ChunkSame DEF ChipPoll, StoreInv, StoreAt, Trusted, Before, Behind, Stored, Piece, Busy, QuietInv
  <2>3. QED
    BY <2>1, <2>2 DEF StoreInv
<1>23. ASSUME NEW t \in Threads, InitReset(t) PROVE StoreInv'
  <2>1. ASSUME NEW v \in Threads \ {t} PROVE StoreAt(v)'
    BY <1>23, OthersStay DEF InitReset
  <2>2. StoreAt(t)'
    BY <1>23, ChunkSame DEF InitReset, StoreInv, StoreAt, Trusted, Before, Behind, Stored, Piece, Busy, QuietInv
  <2>3. QED
    BY <2>1, <2>2 DEF StoreInv
<1>24. ASSUME NEW t \in Threads, InitEnable(t) PROVE StoreInv'
  <2>1. ASSUME NEW v \in Threads \ {t} PROVE StoreAt(v)'
    BY <1>24, OthersStay DEF InitEnable
  <2>2. StoreAt(t)'
    BY <1>24, ChunkSame DEF InitEnable, StoreInv, StoreAt, Trusted, Before, Behind, Stored, Piece, Busy, QuietInv
  <2>3. QED
    BY <2>1, <2>2 DEF StoreInv
<1>25. ASSUME NEW t \in Threads, InitUnlock(t) PROVE StoreInv'
  <2>1. ASSUME NEW v \in Threads \ {t} PROVE StoreAt(v)'
    BY <1>25, OthersStay DEF InitUnlock
  <2>2. StoreAt(t)'
    BY <1>25, ChunkSame DEF InitUnlock, StoreInv, StoreAt, Trusted, Before, Behind, Stored, Piece, Busy, QuietInv
  <2>3. QED
    BY <2>1, <2>2 DEF StoreInv
<1>26. ASSUME NEW t \in Threads, InitClear(t) PROVE StoreInv'
  <2>1. ASSUME NEW v \in Threads \ {t} PROVE StoreAt(v)'
    BY <1>26, OthersStay DEF InitClear
  <2>2. StoreAt(t)'
    BY <1>26, ChunkSame DEF InitClear, StoreInv, StoreAt, Trusted, Before, Behind, Stored, Piece, Busy, QuietInv
  <2>3. QED
    BY <2>1, <2>2 DEF StoreInv
<1>27. ASSUME NEW t \in Threads, Disable(t) PROVE StoreInv'
  <2>1. ASSUME NEW v \in Threads \ {t} PROVE StoreAt(v)'
    BY <1>27, OthersStay DEF Disable
  <2>2. StoreAt(t)'
    BY <1>27, ChunkSame DEF Disable, StoreInv, StoreAt, Trusted, Before, Behind, Stored, Piece, Busy, QuietInv
  <2>3. QED
    BY <2>1, <2>2 DEF StoreInv
<1>28. ASSUME NEW t \in Threads, Read(t) PROVE StoreInv'
  <2>1. ASSUME NEW v \in Threads \ {t} PROVE StoreAt(v)'
    BY <1>28, OthersStay DEF Read
  <2>2. StoreAt(t)'
    BY <1>28, ChunkSame DEF Read, StoreInv, StoreAt, Trusted, Before, Behind, Stored, Piece, Busy, QuietInv
  <2>3. QED
    BY <2>1, <2>2 DEF StoreInv
<1>29. ASSUME NEW t \in Threads, ReadSfdp(t) PROVE StoreInv'
  <2>1. ASSUME NEW v \in Threads \ {t} PROVE StoreAt(v)'
    BY <1>29, OthersStay DEF ReadSfdp
  <2>2. StoreAt(t)'
    BY <1>29, ChunkSame DEF ReadSfdp, StoreInv, StoreAt, Trusted, Before, Behind, Stored, Piece, Busy, QuietInv
  <2>3. QED
    BY <2>1, <2>2 DEF StoreInv
<1>30. ASSUME NEW t \in Threads, IsDirty(t) PROVE StoreInv'
  <2>1. ASSUME NEW v \in Threads \ {t} PROVE StoreAt(v)'
    BY <1>30, OthersStay DEF IsDirty
  <2>2. StoreAt(t)'
    BY <1>30, ChunkSame DEF IsDirty, StoreInv, StoreAt, Trusted, Before, Behind, Stored, Piece, Busy, QuietInv
  <2>3. QED
    BY <2>1, <2>2 DEF StoreInv
<1>31. CASE Finish
  <2>1. ASSUME NEW v \in Threads PROVE StoreAt(v)'
    <3>1. /\ Busy /\ ~Busy' /\ UNCHANGED <<thread, ready>>
          /\ \E n \in 0 .. job.len : mem' = After(job, n) /\ n = job.len
      BY <1>31, SizeFacts DEF Finish, RangeInv, JobRange, Busy
    <3>2. StoreAt(v) /\ StoreInv
      BY DEF StoreInv
    <3>3. pc[v] = "release" /\ req[v].op = "write" => res[v] # "EOK"
      BY <3>1 DEF ReleaseInv
    <3>4. pc[v] \notin {"wEnable", "wSend"} /\ (pc[v] = "wAfter" => rv[v] # "EOK")
      BY <3>1 DEF QuietInv
    <3>5. Trusted(v)' => Trusted(v)
      BY <1>31, <3>1 DEF Finish, Trusted
    <3>6. CASE Place(v) # "wAfter"
      BY <3>1, <3>2, <3>3, <3>4, <3>6 DEF StoreAt
    <3>7. CASE Place(v) = "wAfter"
      <4>1. job = Piece(v) /\ req[v].op = "write"
        BY <3>1, <3>2, <3>7 DEF StoreAt
      <4>2. Before(v) \in Nat /\ Before(v) <= req[v].end - req[v].addr
        BY RequestFacts DEF RangeInv, AtInv, Before
      <4>3. Behind(v) = Before(v) + Chunk(v)
        <5>1. Chunk(v) \in Nat
          BY <3>7, ChunkFacts, RequestFacts DEF RangeInv, AtInv
        <5>2. QED
          BY <5>1, RequestFacts DEF RangeInv, AtInv, Behind, Before
      <4>4. Stored(v, Before(v)) => Stored(v, Before(v))'
        BY <3>1, <4>1, <4>2, PieceStores DEF Stored, Before
      <4>5. Stored(v, Before(v)) => Stored(v, Behind(v))'
        <5>1. Behind(v)' = Behind(v)
          BY <3>1, ChunkSame DEF Behind
        <5>2. QED
          BY <3>1, <4>1, <4>3, <5>1, PieceStores DEF Stored
      <4>6. QED
        BY <3>1, <3>2, <3>4, <3>5, <3>7, <4>4, <4>5 DEF StoreAt
    <3>8. QED
      BY <3>6, <3>7
  <2>2. QED
    BY <2>1 DEF StoreInv
<1>32. CASE Fail
  <2>1. ASSUME NEW v \in Threads PROVE StoreAt(v)'
    <3>1. /\ Busy /\ ~Busy' /\ UNCHANGED <<thread, ready>>
          /\ \E n \in 0 .. job.len : mem' = After(job, n) /\ err'
      BY <1>32, <1>0, SizeFacts DEF Fail, RangeInv, JobRange, Busy
    <3>2. StoreAt(v) /\ StoreInv
      BY DEF StoreInv
    <3>3. pc[v] = "release" /\ req[v].op = "write" => res[v] # "EOK"
      BY <3>1 DEF ReleaseInv
    <3>4. pc[v] \notin {"wEnable", "wSend"} /\ (pc[v] = "wAfter" => rv[v] # "EOK")
      BY <3>1 DEF QuietInv
    <3>5. Trusted(v)' => Trusted(v)
      BY <1>32, <3>1 DEF Fail, Trusted
    <3>6. CASE Place(v) # "wAfter"
      BY <3>1, <3>2, <3>3, <3>4, <3>6 DEF StoreAt
    <3>7. CASE Place(v) = "wAfter"
      <4>1. job = Piece(v) /\ req[v].op = "write"
        BY <3>1, <3>2, <3>7 DEF StoreAt
      <4>2. Before(v) \in Nat /\ Before(v) <= req[v].end - req[v].addr
        BY RequestFacts DEF RangeInv, AtInv, Before
      <4>3. Behind(v) = Before(v) + Chunk(v)
        <5>1. Chunk(v) \in Nat
          BY <3>7, ChunkFacts, RequestFacts DEF RangeInv, AtInv
        <5>2. QED
          BY <5>1, RequestFacts DEF RangeInv, AtInv, Behind, Before
      <4>4. Stored(v, Before(v)) => Stored(v, Before(v))'
        BY <3>1, <4>1, <4>2, PieceStores DEF Stored, Before
      <4>6. QED
        BY <3>1, <3>2, <3>4, <3>5, <3>7, <4>4 DEF StoreAt
    <3>8. QED
      BY <3>6, <3>7
  <2>2. QED
    BY <2>1 DEF StoreInv
<1>33. CASE Restart
  BY <1>33 DEF Restart, All, StoreInv, StoreAt, Trusted
<1>34. ASSUME NEW t \in Threads, NEW r \in Requests[t], Call(t, r) PROVE StoreInv'
  <2>1. ASSUME NEW v \in Threads \ {t} PROVE StoreAt(v)'
    BY <1>34, <1>0, OthersStay DEF Call
  <2>2. /\ req' = [req EXCEPT ![t] = r] /\ at' = [at EXCEPT ![t] = r.addr]
        /\ \/ r.op = "erase" /\ pc' = [pc EXCEPT ![t] = "eSector"]
           \/ /\ r.op # "erase" /\ pc' = [pc EXCEPT ![t] = "acquire"]
              /\ ret' = [ret EXCEPT ![t] = Entry[r.op]]
    BY <1>34 DEF Call
  <2>3. r.op # "erase" => Entry[r.op] \notin {"wEnable", "wSend", "wAfter"}
    BY RequestsAssumption DEF Entry, Ops
  <2>8. StoreAt(t)'
    BY <1>0, <2>2, <2>3 DEF StoreAt
  <2>9. QED
    BY <2>1, <2>8 DEF StoreInv
<1>35. CASE UNCHANGED vars
  BY <1>35 DEF StoreInv, StoreAt, Trusted, Before, Behind, Stored, Piece, Busy, Chunk
<1>36. QED
  BY <1>1, <1>2, <1>3, <1>4, <1>5, <1>6, <1>7, <1>8, <1>9, <1>10, <1>11, <1>12,
     <1>13, <1>14, <1>15, <1>16, <1>17, <1>18, <1>19, <1>20, <1>21, <1>22, <1>23,
     <1>24, <1>25, <1>26, <1>27, <1>28, <1>29, <1>30, <1>31, <1>32, <1>33, <1>34,
     <1>35
     DEF Next, Step, WriteStep, EraseStep, LoopStep, ChipStep, InitStep

\* When spiflash_write says EOK its bytes are in the memory (spiflash.c), for all
\* sizes, any number of threads and every fault, unless a write enable was not
\* heard: neither a piece, nor the status of one, gets lost.
THEOREM OkWriteIsAlwaysStored == Spec => []OkWriteIsStored
<1>1. Init => StoreInv
  BY ThreadAssumption DEF Init, All, StoreInv, StoreAt, Place, Trusted, NoRequest
<1>2. SpiInv /\ RangeInv /\ StoreInv => OkWriteIsStored
  <2> SUFFICES ASSUME SpiInv, RangeInv, StoreInv, NEW t \in Threads,
                      pc[t] = "release", req[t].op = "write", res[t] = "EOK",
                      "deaf" \notin spoiled[t], ready = "yes",
                      NEW i \in 1 .. Len(req[t].data)
               PROVE  mem[req[t].addr + i-1] \subseteq req[t].data[i]
    BY DEF OkWriteIsStored
  <2>1. req[t] \in Requests[t]
    BY DEF RangeInv, AtInv, NoRequest
  <2>2. req[t].end = req[t].addr + Len(req[t].data) /\ req[t].data \in Seq(Cell)
    BY <2>1, RequestsAssumption
  <2>3. req[t].end - req[t].addr = Len(req[t].data)
    BY <2>1, <2>2, RequestFacts
  <2>4. Stored(t, req[t].end - req[t].addr)
    BY DEF StoreInv, StoreAt, Trusted
  <2>5. QED
    BY <2>3, <2>4 DEF Stored
<1>3. QED
  BY <1>1, <1>2, StoreStep, RangeInvariant, PTL DEF Spec

-----------------------------------------------------------------------------
(***************************************************************************)
(* An erase.                                                               *)
(***************************************************************************)
\* What one thread erases no other one writes to, as volumes share no sector.
Disjoint ==
    \A t \in Threads : \A u \in Threads \ {t} :
        \A r \in Requests[t], q \in Requests[u] :
            r.op = "erase" /\ q.op = "write" => q.end <= r.addr \/ r.end <= q.addr

\* The range of an erase up to x is blank, but for what the device is erasing.
Blanked(t, x) ==
    \A c \in req[t].addr .. x-1 :
        \/ mem[c] = Bits
        \/ /\ Busy /\ job.by = t /\ job.kind = "erase"
           /\ c \in job.addr .. job.addr + job.len - 1

\* The device does not work for an earlier write of the thread.
NoProgram(t) == Busy /\ job.by = t => job.kind = "erase"

Untroubled(t) == "job" \notin spoiled[t] /\ ready = "yes"

\* Places where the sector at at[t] was found clean, or its erase was started.
Ahead(t) ==
    \/ ~dirty[t] /\ (pc[t] = "eSeen" \/ (pc[t] = "release" /\ ret[t] = "dFirst"))
    \/ pc[t] = "sAgain" \/ Place(t) = "sWait"
    \/ /\ res[t] = "EOK"
       /\ pc[t] = "eStarted" \/ (pc[t] = "release" /\ ret[t] \in {"sFirst", "sWait"})

\* A routine of an erase knows where it goes on.
Came(t) ==
    /\ pc[t] \in {"dFirst", "sWait", "eEnd"} => ret[t] = pc[t]
    /\ pc[t] \in {"sFirst", "sEnable", "sSend", "sAgain"} => ret[t] = "sFirst"
    /\ pc[t] = "release" => ret[t] \in {"dFirst", "sFirst", "sWait", "eEnd"}

EraseAt(t) ==
    /\ ret[t] = "eEnd" => req[t].op = "erase"
    /\ req[t].op = "erase" =>
        /\ pc[t] # "idle" /\ Came(t)
        /\ at[t] # req[t].addr \/ Ahead(t) => NoProgram(t)
        /\ Untroubled(t) =>
            Blanked(t, at[t]) /\ (Ahead(t) => Blanked(t, at[t] + SectorSize))
        /\ pc[t] = "release" /\ ret[t] = "eEnd" /\ res[t] = "EOK" => at[t] = req[t].end

EraseInv == \A t \in Threads : EraseAt(t)

-----------------------------------------------------------------------------
(***************************************************************************)
(* What the memory does meanwhile.                                         *)
(***************************************************************************)
LEMMA MeetsEnd ==
    ASSUME NEW a \in Int, NEW e \in Int, a <= e, a >= e
    PROVE  a = e
OBVIOUS

LEMMA EraseFacts ==
    ASSUME RangeInv, NEW t \in Threads, req[t].op = "erase"
    PROVE  /\ req[t] \in Requests[t]
           /\ req[t].addr \in Nat /\ req[t].end \in Nat /\ req[t].end <= End
           /\ at[t] \in Nat /\ req[t].addr <= at[t] /\ at[t] <= req[t].end
           /\ SectorSize \in Nat \ {0}
           /\ Ahead(t) => at[t] + SectorSize <= req[t].end
<1>1. req[t] \in Requests[t]
  BY DEF RangeInv, AtInv, NoRequest
<1>2. at[t] \in req[t].addr .. req[t].end
  BY DEF RangeInv, AtInv
<1>3. Ahead(t) => at[t] < req[t].end
  BY DEF RangeInv, AtInv, Ahead, Place, MorePlaces
<1>4. Ahead(t) => at[t] + SectorSize <= req[t].end
  BY <1>3, NextSector DEF RangeInv
<1>5. QED
  BY <1>1, <1>2, <1>4, RequestFacts, SizeFacts

\* What is blank in the range of an erase stays so.
LEMMA BlankStays ==
    ASSUME Disjoint, RangeInv, Busy, NEW n \in 0 .. job.len, mem' = After(job, n),
           NEW t \in Threads, req[t].op = "erase", NoProgram(t),
           NEW c \in req[t].addr .. req[t].end-1, mem[c] = Bits
    PROVE  mem'[c] = Bits
<1>1. c \in Addr
  BY EraseFacts, AddrIs, SizeFacts
<1>2. JobRange(job) /\ mem \in [Addr -> Cell]
  BY DEF RangeInv
<1>3. mem'[c] # mem[c] => Allowed(job.req, c, mem[c], mem'[c])
  BY <1>1, <1>2, AfterIsAllowed
<1>4. job.req.op = "write" => c \notin job.req.addr .. job.req.end-1
  <2>1. SUFFICES ASSUME job.req.op = "write" PROVE c \notin job.req.addr .. job.req.end-1
    OBVIOUS
  <2>2. job.by \in Threads \ {t} /\ job.req \in Requests[job.by]
    BY <1>2, <2>1 DEF JobRange, NoProgram
  <2>3. job.req.end <= req[t].addr \/ req[t].end <= job.req.addr
    BY <2>1, <2>2, EraseFacts DEF Disjoint
  <2>4. job.req.addr \in Nat /\ job.req.end \in Nat
    BY <2>2, RequestFacts
  <2>5. QED
    BY <2>3, <2>4, EraseFacts
<1>5. QED
  BY <1>3, <1>4 DEF Allowed

\* An erase that is done has made its cells blank.
LEMMA EraseIsDone ==
    ASSUME RangeInv, Busy, job.kind = "erase", mem' = After(job, job.len),
           NEW c \in Addr, c \in job.addr .. job.addr + job.len - 1
    PROVE  mem'[c] = Bits
<1>1. job.addr \in Nat /\ job.len \in Nat
  BY AddrIs, SizeFacts DEF RangeInv, JobRange
<1>2. c - job.addr + 1 \in 1 .. job.len /\ job.addr + (c - job.addr + 1) - 1 = c
  BY <1>1, AddrIs, SizeFacts
<1>3. Target(job, c - job.addr + 1) = c
  BY <1>1, <1>2, AddrIs, SizeFacts DEF Target
<1>4. QED
  BY <1>2, <1>3 DEF After

\* spiflash_is_dirty looks at every cell of a sector.
LEMMA WordsCover ==
    ASSUME NEW a \in Nat
    PROVE  Words(a, a + SectorSize) = a .. a + SectorSize - 1
<1>1. WordSize \in Nat \ {0} /\ SectorSize \in Nat \ {0} /\ SectorSize % WordSize = 0
  BY SizesAssumption
<1>2. (SectorSize \div WordSize) \in Nat /\ SectorSize = WordSize * (SectorSize \div WordSize)
  BY <1>1, Division
<1>3. (SectorSize \div WordSize) * WordSize = SectorSize
  BY <1>1, <1>2
<1>4. (a + SectorSize) - a = SectorSize
  BY <1>1
<1>5. QED
  BY <1>3, <1>4 DEF Words

\* A step of another thread: it may start a job, on a quiet device only.
LEMMA OthersErase ==
    ASSUME EraseInv, NEW t \in Threads, NEW v \in Threads \ {t},
           pc'[v] = pc[v], ret'[v] = ret[v], req'[v] = req[v], at'[v] = at[v],
           res'[v] = res[v], dirty'[v] = dirty[v], spoiled'[v] = spoiled[v],
           pc[v] = "idle" \/ (ready' = ready /\ mem' = mem),
           pc[v] = "idle" \/ job' = job \/ (~Busy /\ job'.by = t)
    PROVE  EraseAt(v)'
<1>1. EraseAt(v)
  BY DEF EraseInv
<1>2. Ahead(v)' = Ahead(v) /\ Came(v)' = Came(v)
  BY DEF Ahead, Came, Place
<1>3. CASE pc[v] = "idle"
  BY <1>1, <1>3 DEF EraseAt
<1>4. CASE pc[v] # "idle"
  <2>1. NoProgram(v) => NoProgram(v)'
    BY <1>4 DEF NoProgram, Busy
  <2>2. Untroubled(v)' = Untroubled(v)
    BY <1>4 DEF Untroubled
  <2>3. ASSUME NEW x, \A c \in req[v].addr .. x-1 :
                          \/ mem[c] = Bits
                          \/ /\ Busy /\ job.by = v /\ job.kind = "erase"
                             /\ c \in job.addr .. job.addr + job.len - 1
        PROVE  \A c \in req'[v].addr .. x-1 :
                          \/ mem'[c] = Bits
                          \/ /\ Busy' /\ job'.by = v /\ job'.kind = "erase"
                             /\ c \in job'.addr .. job'.addr + job'.len - 1
    BY <1>4, <2>3 DEF Busy
  <2>4. Blanked(v, at[v]) => Blanked(v, at[v])'
    BY <2>3 DEF Blanked
  <2>5. Blanked(v, at[v] + SectorSize) => Blanked(v, at[v] + SectorSize)'
    BY <2>3 DEF Blanked
  <2>6. QED
    BY <1>1, <1>2, <2>1, <2>2, <2>4, <2>5 DEF EraseAt
<1>5. QED
  BY <1>3, <1>4

\* A step of the thread itself that does not get ahead.
LEMMA EraseKeeps ==
    ASSUME EraseInv, NEW t \in Threads,
           req'[t] = req[t], at'[t] = at[t], mem' = mem, ready' = ready,
           spoiled[t] \subseteq spoiled'[t], job' = job, pc'[t] # "idle", req[t].op = "erase" => Came(t)',
           ret'[t] = "eEnd" => req[t].op = "erase",
           req[t].op = "erase" /\ Ahead(t)' => Ahead(t),
           req[t].op = "erase" /\ pc'[t] = "release" /\ ret'[t] = "eEnd" /\ res'[t] = "EOK"
               => at[t] = req[t].end
    PROVE  EraseAt(t)'
<1>1. EraseAt(t)
  BY DEF EraseInv
<1>2. Untroubled(t)' => Untroubled(t)
  BY DEF Untroubled
<1>3. NoProgram(t) => NoProgram(t)'
  BY DEF NoProgram, Busy
<1>4. Blanked(t, at[t]) => Blanked(t, at[t])'
  BY DEF Blanked, Busy
<1>5. Blanked(t, at[t] + SectorSize) => Blanked(t, at[t] + SectorSize)'
  BY DEF Blanked, Busy
<1>6. QED
  BY <1>1, <1>2, <1>3, <1>4, <1>5 DEF EraseAt

\* The device stops: all that was blank is, and what it was erasing, if it is done.
LEMMA BlankedAfter ==
    ASSUME Disjoint, RangeInv, Busy, NEW n \in 0 .. job.len, mem' = After(job, n),
           NEW t \in Threads, req[t].op = "erase", n = job.len \/ job.by # t,
           NEW x \in Int, x <= req[t].end, Blanked(t, x), x = req[t].addr \/ NoProgram(t),
           NEW c \in req[t].addr .. x-1
    PROVE  mem'[c] = Bits
<1>1. c \in req[t].addr .. req[t].end-1 /\ c \in Addr /\ x # req[t].addr
  BY EraseFacts, AddrIs, SizeFacts
<1>2. CASE mem[c] = Bits
  BY <1>1, <1>2, BlankStays
<1>3. CASE mem[c] # Bits
  <2>1. job.by = t /\ job.kind = "erase" /\ c \in job.addr .. job.addr + job.len - 1
    BY <1>3 DEF Blanked
  <2>2. QED
    BY <1>1, <2>1, EraseIsDone
<1>4. QED
  BY <1>2, <1>3

-----------------------------------------------------------------------------
LEMMA EraseInvStep ==
    ASSUME Disjoint
    PROVE  SpiInv /\ RangeInv /\ CountersInv /\ EraseInv /\ [Next]_vars => EraseInv'
<1> SUFFICES ASSUME SpiInv, RangeInv, CountersInv, EraseInv, [Next]_vars PROVE EraseInv'
  OBVIOUS
<1>0. at \in [Threads -> Nat] /\ dirty \in [Threads -> BOOLEAN]
  BY DEF RangeInv, AtInv, CountersInv
<1> USE ThreadAssumption
    DEF SpiInv, Types, RetInv, OpInv, Place, Outside, InitPlaces, OpsAt, WaitFirst,
        PCs, Statuses, NoRequest, device, thread, vars, Wait, Acquire, Goto, Result, Start, Enable
<1>1. ASSUME NEW t \in Threads, GetBus(t) PROVE EraseInv'
  <2>1. ASSUME NEW v \in Threads \ {t} PROVE EraseAt(v)'
    BY <1>1, <1>0, OthersErase DEF GetBus
  <2>8. EraseAt(t)'
    BY <1>1, <1>0 DEF GetBus, EraseInv, EraseAt, Came, Ahead, Untroubled, Blanked, NoProgram, Busy
  <2>9. QED
    BY <2>1, <2>8 DEF EraseInv
<1>2. ASSUME NEW t \in Threads, PollAgain(t) PROVE EraseInv'
  <2>1. ASSUME NEW v \in Threads \ {t} PROVE EraseAt(v)'
    BY <1>2, <1>0, OthersErase DEF PollAgain
  <2>8. EraseAt(t)'
    BY <1>2, <1>0 DEF PollAgain, EraseInv, EraseAt, Came, Ahead, Untroubled, Blanked, NoProgram, Busy
  <2>9. QED
    BY <2>1, <2>8 DEF EraseInv
<1>3. ASSUME NEW t \in Threads, PollDone(t) PROVE EraseInv'
  <2>1. ASSUME NEW v \in Threads \ {t} PROVE EraseAt(v)'
    BY <1>3, <1>0, OthersErase DEF PollDone
  <2>8. EraseAt(t)'
    BY <1>3, <1>0 DEF PollDone, EraseInv, EraseAt, Came, Ahead, Untroubled, Blanked, NoProgram, Busy
  <2>9. QED
    BY <2>1, <2>8 DEF EraseInv
<1>4. ASSUME NEW t \in Threads, Return(t) PROVE EraseInv'
  <2>1. ASSUME NEW v \in Threads \ {t} PROVE EraseAt(v)'
    BY <1>4, <1>0, OthersErase DEF Return
  <2>8. EraseAt(t)'
    BY <1>4, <1>0 DEF Return, EraseInv, EraseAt, Came, Ahead, Untroubled, Blanked, NoProgram, Busy
  <2>9. QED
    BY <2>1, <2>8 DEF EraseInv
<1>5. ASSUME NEW t \in Threads, BackToErase(t) PROVE EraseInv'
  <2>1. ASSUME NEW v \in Threads \ {t} PROVE EraseAt(v)'
    BY <1>5, <1>0, OthersErase DEF BackToErase
  <2>2. req[t].op = "erase" => Came(t)' /\ (Ahead(t)' => Ahead(t))
    BY <1>5, <1>0 DEF BackToErase, EraseInv, EraseAt, Came, Ahead
  <2>3. /\ req[t].op = "erase" /\ pc'[t] = "release" => ret'[t] # "eEnd"
        /\ ret'[t] = "eEnd" => req[t].op = "erase"
    BY <1>5, <1>0 DEF BackToErase, EraseInv, EraseAt, Came
  <2>8. EraseAt(t)'
    BY <1>5, <2>2, <2>3, EraseKeeps DEF BackToErase
  <2>9. QED
    BY <2>1, <2>8 DEF EraseInv
<1>6. ASSUME NEW t \in Threads, WriteFirst(t) PROVE EraseInv'
  <2>1. ASSUME NEW v \in Threads \ {t} PROVE EraseAt(v)'
    BY <1>6, <1>0, OthersErase DEF WriteFirst
  <2>8. EraseAt(t)'
    BY <1>6 DEF WriteFirst, EraseInv, EraseAt
  <2>9. QED
    BY <2>1, <2>8 DEF EraseInv
<1>7. ASSUME NEW t \in Threads, WriteEnable(t) PROVE EraseInv'
  <2>1. ASSUME NEW v \in Threads \ {t} PROVE EraseAt(v)'
    BY <1>7, <1>0, OthersErase DEF WriteEnable
  <2>8. EraseAt(t)'
    BY <1>7 DEF WriteEnable, EraseInv, EraseAt
  <2>9. QED
    BY <2>1, <2>8 DEF EraseInv
<1>8. ASSUME NEW t \in Threads, WriteSend(t) PROVE EraseInv'
  <2>1. ASSUME NEW v \in Threads \ {t} PROVE EraseAt(v)'
    BY <1>8, <1>0, OthersErase DEF WriteSend
  <2>8. EraseAt(t)'
    BY <1>8 DEF WriteSend, EraseInv, EraseAt
  <2>9. QED
    BY <2>1, <2>8 DEF EraseInv
<1>9. ASSUME NEW t \in Threads, WriteAfter(t) PROVE EraseInv'
  <2>1. ASSUME NEW v \in Threads \ {t} PROVE EraseAt(v)'
    BY <1>9, <1>0, OthersErase DEF WriteAfter
  <2>8. EraseAt(t)'
    BY <1>9 DEF WriteAfter, EraseInv, EraseAt
  <2>9. QED
    BY <2>1, <2>8 DEF EraseInv
<1>10. ASSUME NEW t \in Threads, EraseFirst(t) PROVE EraseInv'
  <2>1. ASSUME NEW v \in Threads \ {t} PROVE EraseAt(v)'
    BY <1>10, <1>0, OthersErase DEF EraseFirst
  <2>2. req[t].op = "erase" => Came(t)' /\ (Ahead(t)' => Ahead(t))
    BY <1>10, <1>0 DEF EraseFirst, EraseInv, EraseAt, Came, Ahead
  <2>3. /\ req[t].op = "erase" /\ pc'[t] = "release" => ret'[t] # "eEnd"
        /\ ret'[t] = "eEnd" => req[t].op = "erase"
    BY <1>10, <1>0 DEF EraseFirst, EraseInv, EraseAt, Came
  <2>8. EraseAt(t)'
    BY <1>10, <2>2, <2>3, EraseKeeps DEF EraseFirst
  <2>9. QED
    BY <2>1, <2>8 DEF EraseInv
<1>11. ASSUME NEW t \in Threads, EraseEnable(t) PROVE EraseInv'
  <2>1. ASSUME NEW v \in Threads \ {t} PROVE EraseAt(v)'
    BY <1>11, <1>0, OthersErase DEF EraseEnable
  <2>2. req[t].op = "erase" => Came(t)' /\ (Ahead(t)' => Ahead(t))
    BY <1>11, <1>0 DEF EraseEnable, EraseInv, EraseAt, Came, Ahead
  <2>3. /\ req[t].op = "erase" /\ pc'[t] = "release" => ret'[t] # "eEnd"
        /\ ret'[t] = "eEnd" => req[t].op = "erase"
    BY <1>11, <1>0 DEF EraseEnable, EraseInv, EraseAt, Came
  <2>8. EraseAt(t)'
    BY <1>11, <2>2, <2>3, EraseKeeps DEF EraseEnable
  <2>9. QED
    BY <2>1, <2>8 DEF EraseInv
<1>12. ASSUME NEW t \in Threads, EraseSend(t) PROVE EraseInv'
  <2>1. ASSUME NEW v \in Threads \ {t} PROVE EraseAt(v)'
    BY <1>12, <1>0, OthersErase DEF EraseSend
  <2>8. EraseAt(t)'
    <3>1. SUFFICES ASSUME req[t].op = "erase" PROVE EraseAt(t)'
      BY <1>12 DEF EraseSend, EraseInv, EraseAt
    <3>2. /\ pc[t] = "sSend" /\ pc'[t] = "sAgain" /\ UNCHANGED <<mem, req, at, ready, spoiled>>
          /\ ~Busy /\ wel /\ (ready = "yes" => ~locked)
      BY <1>12 DEF EraseSend, QuietInv, InitInv
    <3> DEFINE J == [kind |-> "erase", by |-> t, req |-> req[t], addr |-> at[t], len |-> SectorSize]
    <3>3. job' = IF locked THEN job ELSE J
      BY <1>12, <3>2 DEF EraseSend
    <3>4. J # NoJob
      BY DEF NoJob
    <3>5. NoProgram(t)'
      BY <3>2, <3>3 DEF NoProgram, Busy
    <3>6. at[t] \in Nat /\ req[t].addr \in Nat /\ SectorSize \in Nat
      BY <3>1, EraseFacts
    <3>7. ASSUME Untroubled(t), NEW c \in req[t].addr .. (at[t] + SectorSize) - 1
          PROVE  \/ mem[c] = Bits /\ c < at[t]
                 \/ /\ Busy' /\ job'.by = t /\ job'.kind = "erase"
                    /\ c \in job'.addr .. job'.addr + job'.len - 1
      <4>1. CASE c < at[t]
        BY <3>1, <3>2, <3>6, <3>7, <4>1 DEF EraseInv, EraseAt, Blanked
      <4>2. CASE ~(c < at[t])
        <5>1. job' = J /\ Busy'
          BY <3>2, <3>3, <3>4, <3>7 DEF Untroubled, Busy
        <5>2. QED
          BY <3>6, <3>7, <4>2, <5>1
      <4>3. QED
        BY <4>1, <4>2
    <3>8. Untroubled(t)' => Untroubled(t)
      BY <3>2 DEF Untroubled
    <3>9. Untroubled(t)' => Blanked(t, at[t])' /\ Blanked(t, at[t] + SectorSize)'
      BY <3>2, <3>6, <3>7, <3>8 DEF Blanked
    <3>10. Came(t)'
      BY <1>12, <3>1, <3>2 DEF EraseSend, EraseInv, EraseAt, Came
    <3>11. QED
      BY <3>1, <3>2, <3>5, <3>9, <3>10 DEF EraseAt
  <2>9. QED
    BY <2>1, <2>8 DEF EraseInv
<1>13. ASSUME NEW t \in Threads, EraseAgain(t) PROVE EraseInv'
  <2>1. ASSUME NEW v \in Threads \ {t} PROVE EraseAt(v)'
    BY <1>13, <1>0, OthersErase DEF EraseAgain
  <2>8. EraseAt(t)'
    BY <1>13, <1>0 DEF EraseAgain, EraseInv, EraseAt, Came, Ahead, Untroubled, Blanked, NoProgram, Busy
  <2>9. QED
    BY <2>1, <2>8 DEF EraseInv
<1>14. ASSUME NEW t \in Threads, EraseWait(t) PROVE EraseInv'
  <2>1. ASSUME NEW v \in Threads \ {t} PROVE EraseAt(v)'
    BY <1>14, <1>0, OthersErase DEF EraseWait
  <2>2. req[t].op = "erase" => Came(t)' /\ (Ahead(t)' => Ahead(t))
    BY <1>14, <1>0 DEF EraseWait, EraseInv, EraseAt, Came, Ahead
  <2>3. /\ req[t].op = "erase" /\ pc'[t] = "release" => ret'[t] # "eEnd"
        /\ ret'[t] = "eEnd" => req[t].op = "erase"
    BY <1>14, <1>0 DEF EraseWait, EraseInv, EraseAt, Came
  <2>8. EraseAt(t)'
    BY <1>14, <2>2, <2>3, EraseKeeps DEF EraseWait
  <2>9. QED
    BY <2>1, <2>8 DEF EraseInv
<1>15. ASSUME NEW t \in Threads, EraseSector(t) PROVE EraseInv'
  <2>1. ASSUME NEW v \in Threads \ {t} PROVE EraseAt(v)'
    BY <1>15, <1>0, OthersErase DEF EraseSector
  <2>8. EraseAt(t)'
    BY <1>15, <1>0 DEF EraseSector, EraseInv, EraseAt, Came, Ahead, Untroubled, Blanked, NoProgram, Busy
  <2>9. QED
    BY <2>1, <2>8 DEF EraseInv
<1>16. ASSUME NEW t \in Threads, EraseSeen(t) PROVE EraseInv'
  <2>1. ASSUME NEW v \in Threads \ {t} PROVE EraseAt(v)'
    BY <1>16, <1>0, OthersErase DEF EraseSeen
  <2>8. EraseAt(t)'
    BY <1>16, <1>0 DEF EraseSeen, EraseInv, EraseAt, Came, Ahead, Untroubled, Blanked, NoProgram, Busy
  <2>9. QED
    BY <2>1, <2>8 DEF EraseInv
<1>17. ASSUME NEW t \in Threads, EraseStarted(t) PROVE EraseInv'
  <2>1. ASSUME NEW v \in Threads \ {t} PROVE EraseAt(v)'
    BY <1>17, <1>0, OthersErase DEF EraseStarted
  <2>8. EraseAt(t)'
    BY <1>17, <1>0 DEF EraseStarted, EraseInv, EraseAt, Came, Ahead, Untroubled, Blanked, NoProgram, Busy
  <2>9. QED
    BY <2>1, <2>8 DEF EraseInv
<1>18. ASSUME NEW t \in Threads, EraseEnd(t) PROVE EraseInv'
  <2>1. ASSUME NEW v \in Threads \ {t} PROVE EraseAt(v)'
    BY <1>18, <1>0, OthersErase DEF EraseEnd
  <2>2. req[t].op = "erase" /\ at[t] \in Int /\ req[t].end \in Int /\ at[t] <= req[t].end
    BY <1>18, EraseFacts, ThreadAssumption DEF EraseEnd
  <2>3. at[t] >= req[t].end => at[t] = req[t].end
    BY <2>2, MeetsEnd
  <2>4. ~Ahead(t)' /\ Came(t)'
    BY <1>18 DEF EraseEnd, Ahead, Came, RangeInv, AtInv
  <2>8. EraseAt(t)'
    BY <1>18, <2>3, <2>4, EraseKeeps DEF EraseEnd
  <2>9. QED
    BY <2>1, <2>8 DEF EraseInv
<1>19. ASSUME NEW t \in Threads, ChipFirst(t) PROVE EraseInv'
  <2>1. ASSUME NEW v \in Threads \ {t} PROVE EraseAt(v)'
    BY <1>19, <1>0, OthersErase DEF ChipFirst
  <2>8. EraseAt(t)'
    BY <1>19 DEF ChipFirst, EraseInv, EraseAt
  <2>9. QED
    BY <2>1, <2>8 DEF EraseInv
<1>20. ASSUME NEW t \in Threads, ChipEnable(t) PROVE EraseInv'
  <2>1. ASSUME NEW v \in Threads \ {t} PROVE EraseAt(v)'
    BY <1>20, <1>0, OthersErase DEF ChipEnable
  <2>8. EraseAt(t)'
    BY <1>20 DEF ChipEnable, EraseInv, EraseAt
  <2>9. QED
    BY <2>1, <2>8 DEF EraseInv
<1>21. ASSUME NEW t \in Threads, ChipSend(t) PROVE EraseInv'
  <2>1. ASSUME NEW v \in Threads \ {t} PROVE EraseAt(v)'
    BY <1>21, <1>0, OthersErase DEF ChipSend
  <2>8. EraseAt(t)'
    BY <1>21 DEF ChipSend, EraseInv, EraseAt
  <2>9. QED
    BY <2>1, <2>8 DEF EraseInv
<1>22. ASSUME NEW t \in Threads, ChipPoll(t) PROVE EraseInv'
  <2>1. ASSUME NEW v \in Threads \ {t} PROVE EraseAt(v)'
    BY <1>22, <1>0, OthersErase DEF ChipPoll
  <2>8. EraseAt(t)'
    BY <1>22 DEF ChipPoll, EraseInv, EraseAt
  <2>9. QED
    BY <2>1, <2>8 DEF EraseInv
<1>23. ASSUME NEW t \in Threads, InitReset(t) PROVE EraseInv'
  <2>1. ASSUME NEW v \in Threads \ {t} PROVE EraseAt(v)'
    <3>1. pc[v] = "idle"
      BY <1>23 DEF InitInv, InitReset
    <3>2. QED
      BY <1>23, <1>0, <3>1, OthersErase DEF InitReset
  <2>8. EraseAt(t)'
    BY <1>23 DEF InitReset, EraseInv, EraseAt
  <2>9. QED
    BY <2>1, <2>8 DEF EraseInv
<1>24. ASSUME NEW t \in Threads, InitEnable(t) PROVE EraseInv'
  <2>1. ASSUME NEW v \in Threads \ {t} PROVE EraseAt(v)'
    BY <1>24, <1>0, OthersErase DEF InitEnable
  <2>8. EraseAt(t)'
    BY <1>24 DEF InitEnable, EraseInv, EraseAt
  <2>9. QED
    BY <2>1, <2>8 DEF EraseInv
<1>25. ASSUME NEW t \in Threads, InitUnlock(t) PROVE EraseInv'
  <2>1. ASSUME NEW v \in Threads \ {t} PROVE EraseAt(v)'
    BY <1>25, <1>0, OthersErase DEF InitUnlock
  <2>8. EraseAt(t)'
    BY <1>25 DEF InitUnlock, EraseInv, EraseAt
  <2>9. QED
    BY <2>1, <2>8 DEF EraseInv
<1>26. ASSUME NEW t \in Threads, InitClear(t) PROVE EraseInv'
  <2>1. ASSUME NEW v \in Threads \ {t} PROVE EraseAt(v)'
    <3>1. pc[v] = "idle"
      BY <1>26 DEF InitInv, InitClear
    <3>2. QED
      BY <1>26, <1>0, <3>1, OthersErase DEF InitClear
  <2>8. EraseAt(t)'
    BY <1>26 DEF InitClear, EraseInv, EraseAt
  <2>9. QED
    BY <2>1, <2>8 DEF EraseInv
<1>27. ASSUME NEW t \in Threads, Disable(t) PROVE EraseInv'
  <2>1. ASSUME NEW v \in Threads \ {t} PROVE EraseAt(v)'
    BY <1>27, <1>0, OthersErase DEF Disable
  <2>8. EraseAt(t)'
    BY <1>27 DEF Disable, EraseInv, EraseAt
  <2>9. QED
    BY <2>1, <2>8 DEF EraseInv
<1>28. ASSUME NEW t \in Threads, Read(t) PROVE EraseInv'
  <2>1. ASSUME NEW v \in Threads \ {t} PROVE EraseAt(v)'
    BY <1>28, <1>0, OthersErase DEF Read
  <2>8. EraseAt(t)'
    BY <1>28 DEF Read, EraseInv, EraseAt
  <2>9. QED
    BY <2>1, <2>8 DEF EraseInv
<1>29. ASSUME NEW t \in Threads, ReadSfdp(t) PROVE EraseInv'
  <2>1. ASSUME NEW v \in Threads \ {t} PROVE EraseAt(v)'
    BY <1>29, <1>0, OthersErase DEF ReadSfdp
  <2>8. EraseAt(t)'
    BY <1>29 DEF ReadSfdp, EraseInv, EraseAt
  <2>9. QED
    BY <2>1, <2>8 DEF EraseInv
<1>30. ASSUME NEW t \in Threads, IsDirty(t) PROVE EraseInv'
  <2>1. ASSUME NEW v \in Threads \ {t} PROVE EraseAt(v)'
    BY <1>30, <1>0, OthersErase DEF IsDirty
  <2>2. /\ pc[t] = "dFirst" /\ pc' = [pc EXCEPT ![t] = "release"]
        /\ UNCHANGED <<mem, job, req, ret, at, res, ready, spoiled>>
    BY <1>30 DEF IsDirty
  <2>3. ASSUME req[t].op # "erase" PROVE EraseAt(t)'
    BY <2>2, <2>3 DEF EraseInv, EraseAt
  <2>4. ASSUME req[t].op = "erase" /\ dirty'[t] = TRUE PROVE EraseAt(t)'
    <3>1. ~Ahead(t)' /\ Came(t)' /\ ret'[t] # "eEnd"
      BY <2>2, <2>4 DEF EraseInv, EraseAt, Came, Ahead
    <3>2. QED
      BY <2>2, <3>1, EraseKeeps
  <2>5. ASSUME req[t].op = "erase" /\ dirty'[t] # TRUE PROVE EraseAt(t)'
    <3>2. rv[t] = "EOK" /\ \A c \in Words(at[t], at[t] + SectorSize) : mem[c] = Bits
      BY <1>30, <1>0, <2>5 DEF IsDirty, DirtyEnd
    <3>3. ~Busy
      BY <2>2, <3>2 DEF QuietInv
    <3>4. /\ at[t] \in Nat /\ req[t].addr \in Nat /\ req[t].end \in Nat /\ SectorSize \in Nat \ {0}
          /\ at[t] < req[t].end
      BY <2>2, <2>5, EraseFacts DEF RangeInv, AtInv, MorePlaces
    <3>5. ASSUME Untroubled(t), NEW c \in req[t].addr .. (at[t] + SectorSize) - 1
          PROVE  mem[c] = Bits
      <4>1. CASE c < at[t]
        <5>1. Blanked(t, at[t])
          BY <2>5, <3>5 DEF EraseInv, EraseAt
        <5>2. QED
          BY <3>3, <3>4, <3>5, <4>1, <5>1 DEF Blanked
      <4>2. CASE ~(c < at[t])
        <5>1. c \in Words(at[t], at[t] + SectorSize)
          BY <3>4, <3>5, <4>2, WordsCover
        <5>2. QED
          BY <3>2, <5>1
      <4>3. QED
        BY <4>1, <4>2
    <3>6. Untroubled(t)' => Untroubled(t)
      BY <2>2 DEF Untroubled
    <3>7. Untroubled(t)' => Blanked(t, at[t])' /\ Blanked(t, at[t] + SectorSize)'
      BY <2>2, <3>4, <3>5, <3>6 DEF Blanked
    <3>8. ~Busy'
      BY <2>2, <3>3 DEF Busy
    <3>9. ret'[t] = "dFirst" /\ Came(t)'
      BY <2>2, <2>5 DEF EraseInv, EraseAt, Came
    <3>10. QED
      BY <2>2, <3>4, <3>7, <3>8, <3>9 DEF EraseAt, NoProgram
  <2>8. EraseAt(t)'
    BY <2>3, <2>4, <2>5
  <2>9. QED
    BY <2>1, <2>8 DEF EraseInv
<1>31. CASE Finish
  <2>1. /\ Busy /\ ~Busy' /\ UNCHANGED <<thread, ready>>
        /\ \E n \in 0 .. job.len : /\ mem' = After(job, n)
                                   /\ n = job.len
    BY <1>31, <1>0, SizeFacts DEF Finish, RangeInv, JobRange, Busy
  <2>2. ASSUME NEW v \in Threads PROVE EraseAt(v)'
    <3>1. SUFFICES ASSUME req[v].op = "erase" PROVE EraseAt(v)'
      BY <2>1 DEF EraseInv, EraseAt
    <3>2. EraseAt(v) /\ (Ahead(v)' <=> Ahead(v)) /\ (Came(v)' <=> Came(v)) /\ NoProgram(v)'
      BY <2>1 DEF EraseInv, Ahead, Came, NoProgram
    <3>3. Untroubled(v)' => Untroubled(v) /\ \E n \in 0 .. job.len :
                mem' = After(job, n) /\ (n = job.len \/ job.by # v)
      BY <1>31, <2>1 DEF Finish, Untroubled
    <3>4. /\ at[v] \in Nat /\ SectorSize \in Nat /\ at[v] <= req[v].end
          /\ Ahead(v) => at[v] + SectorSize <= req[v].end
      BY <3>1, EraseFacts
    <3>5. ASSUME Untroubled(v)'
          PROVE  \A c \in req[v].addr .. at[v]-1 : mem'[c] = Bits
      <4>1. Blanked(v, at[v]) /\ (at[v] = req[v].addr \/ NoProgram(v))
        BY <3>1, <3>2, <3>3, <3>5 DEF EraseAt
      <4>2. QED
        BY <2>1, <3>1, <3>3, <3>4, <3>5, <4>1, BlankedAfter
    <3>6. ASSUME Untroubled(v)', Ahead(v)
          PROVE  \A c \in req[v].addr .. (at[v] + SectorSize) - 1 : mem'[c] = Bits
      <4>1. Blanked(v, at[v] + SectorSize) /\ NoProgram(v)
        BY <3>1, <3>2, <3>3, <3>6 DEF EraseAt
      <4>2. at[v] + SectorSize \in Int
        BY <3>4
      <4>3. QED
        BY <2>1, <3>1, <3>3, <3>4, <3>6, <4>1, <4>2, BlankedAfter
    <3>7. QED
      BY <2>1, <3>1, <3>2, <3>5, <3>6 DEF EraseAt, Blanked
  <2>3. QED
    BY <2>2 DEF EraseInv
<1>32. CASE Fail
  <2>1. /\ Busy /\ ~Busy' /\ UNCHANGED <<thread, ready>>
        /\ \E n \in 0 .. job.len : /\ mem' = After(job, n)
                                   /\ spoiled' = [spoiled EXCEPT ![job.by] = spoiled[job.by] \cup {"job"}]
    BY <1>32, <1>0, SizeFacts DEF Fail, RangeInv, JobRange, Busy
  <2>2. ASSUME NEW v \in Threads PROVE EraseAt(v)'
    <3>1. SUFFICES ASSUME req[v].op = "erase" PROVE EraseAt(v)'
      BY <2>1 DEF EraseInv, EraseAt
    <3>2. EraseAt(v) /\ (Ahead(v)' <=> Ahead(v)) /\ (Came(v)' <=> Came(v)) /\ NoProgram(v)'
      BY <2>1 DEF EraseInv, Ahead, Came, NoProgram
    <3>3. Untroubled(v)' => Untroubled(v) /\ \E n \in 0 .. job.len :
                mem' = After(job, n) /\ (n = job.len \/ job.by # v)
      BY <1>32, <2>1 DEF Fail, Untroubled
    <3>4. /\ at[v] \in Nat /\ SectorSize \in Nat /\ at[v] <= req[v].end
          /\ Ahead(v) => at[v] + SectorSize <= req[v].end
      BY <3>1, EraseFacts
    <3>5. ASSUME Untroubled(v)'
          PROVE  \A c \in req[v].addr .. at[v]-1 : mem'[c] = Bits
      <4>1. Blanked(v, at[v]) /\ (at[v] = req[v].addr \/ NoProgram(v))
        BY <3>1, <3>2, <3>3, <3>5 DEF EraseAt
      <4>2. QED
        BY <2>1, <3>1, <3>3, <3>4, <3>5, <4>1, BlankedAfter
    <3>6. ASSUME Untroubled(v)', Ahead(v)
          PROVE  \A c \in req[v].addr .. (at[v] + SectorSize) - 1 : mem'[c] = Bits
      <4>1. Blanked(v, at[v] + SectorSize) /\ NoProgram(v)
        BY <3>1, <3>2, <3>3, <3>6 DEF EraseAt
      <4>2. at[v] + SectorSize \in Int
        BY <3>4
      <4>3. QED
        BY <2>1, <3>1, <3>3, <3>4, <3>6, <4>1, <4>2, BlankedAfter
    <3>7. QED
      BY <2>1, <3>1, <3>2, <3>5, <3>6 DEF EraseAt, Blanked
  <2>3. QED
    BY <2>2 DEF EraseInv
<1>33. CASE Restart
  BY <1>33 DEF Restart, All, EraseInv, EraseAt
<1>34. ASSUME NEW t \in Threads, NEW r \in Requests[t], Call(t, r) PROVE EraseInv'
  <2>1. ASSUME NEW v \in Threads \ {t} PROVE EraseAt(v)'
    BY <1>34, <1>0, OthersErase DEF Call
  <2>2. /\ req'[t] = r /\ at'[t] = r.addr /\ r \in Requests[t]
        /\ pc'[t] = IF r.op = "erase" THEN "eSector" ELSE "acquire"
        /\ ret'[t] = IF r.op = "erase" THEN ret[t] ELSE Entry[r.op]
    BY <1>34, <1>0 DEF Call
  <2>3. r.addr \in Nat
    BY RequestFacts
  <2>4. r.op # "erase" => Entry[r.op] # "eEnd"
    BY RequestsAssumption DEF Entry, Ops
  <2>8. EraseAt(t)'
    BY <2>2, <2>3, <2>4 DEF EraseAt, Ahead, Came, Blanked
  <2>9. QED
    BY <2>1, <2>8 DEF EraseInv
<1>35. CASE UNCHANGED vars
  BY <1>35 DEF EraseInv, EraseAt, Came, Ahead, Untroubled, Blanked, NoProgram, Busy
<1>36. QED
  BY <1>1, <1>2, <1>3, <1>4, <1>5, <1>6, <1>7, <1>8, <1>9, <1>10, <1>11, <1>12,
     <1>13, <1>14, <1>15, <1>16, <1>17, <1>18, <1>19, <1>20, <1>21, <1>22, <1>23,
     <1>24, <1>25, <1>26, <1>27, <1>28, <1>29, <1>30, <1>31, <1>32, <1>33, <1>34,
     <1>35
     DEF Next, Step, WriteStep, EraseStep, LoopStep, ChipStep, InitStep

\* When spiflash_sector_erase says EOK its cells are blank, or in the sector that the
\* device is still erasing for it (spiflash.c), for all sizes, any number of threads and
\* every fault: neither the sectors that were found clean nor those it erased
\* earlier are written meanwhile, though it lets go of the bus, if no thread
\* writes to what another one erases.
THEOREM OkEraseIsAlwaysErased == ASSUME Disjoint PROVE Spec => []OkEraseIsErased
<1>1. Init => EraseInv
  BY ThreadAssumption DEF Init, All, EraseInv, EraseAt, NoRequest
<1>2. SpiInv /\ RangeInv /\ EraseInv => OkEraseIsErased
  <2> SUFFICES ASSUME SpiInv, RangeInv, EraseInv, NEW t \in Threads,
                      pc[t] = "release", ret[t] = "eEnd", res[t] = "EOK",
                      "job" \notin spoiled[t], ready = "yes",
                      NEW c \in req[t].addr .. req[t].end-1
               PROVE  \/ mem[c] = Bits
                      \/ /\ Busy /\ job.by = t /\ job.kind = "erase"
                         /\ c \in job.addr .. job.addr + job.len - 1
    BY DEF OkEraseIsErased
  <2>1. req[t].op = "erase"
    BY DEF EraseInv, EraseAt
  <2>2. at[t] = req[t].end /\ Blanked(t, at[t])
    BY <2>1 DEF EraseInv, EraseAt, Untroubled
  <2>3. QED
    BY <2>2 DEF Blanked
<1>3. SpiInv /\ RangeInv /\ CountersInv /\ EraseInv /\ [Next]_vars => EraseInv'
  BY EraseInvStep
<1>4. QED
  BY <1>1, <1>2, <1>3, RangeInvariant, PTL DEF Spec
=============================================================================
