--------------------------- MODULE SpiflashProofs ---------------------------
(***************************************************************************)
(* The driver for any number of threads, sectors, pages and retries, any   *)
(* requests, and whatever the device fails to do.  First, the bus and the  *)
(* waits keep threads apart: CommandsAreHeard, QuietAfterCall and          *)
(* BusIsGivenBack.  Then what a call reaches: TypeOK and OnlyTheRange,     *)
(* above all the split of a write at the ends of pages, where the device   *)
(* wraps round.                                                            *)
(***************************************************************************)
EXTENDS Spiflash, TLAPS

\* Where a thread is, or will be when it has the bus and its wait is over.
Place(t) == IF pc[t] \in {"acquire", "poll"} THEN ret[t] ELSE pc[t]

\* Places where a thread does not have the bus.
Outside == {"idle", "acquire", "eSector", "eSeen", "eStarted"}

InitPlaces == {"iReset", "iEnable", "iUnlock", "iClear"}

\* The calls that get to a place.
OpsAt(l) ==
    CASE l \in InitPlaces -> {"init"}
      [] l \in {"wFirst", "wEnable", "wSend", "wAfter"} -> {"write"}
      [] l \in {"sFirst", "sEnable", "sSend", "sAgain", "sWait"} -> {"erase", "eraseStart"}
      [] l \in {"eSector", "eSeen", "eStarted", "eEnd"} -> {"erase"}
      [] l \in {"cFirst", "cEnable", "cSend", "cPoll"} -> {"chipErase"}
      [] l = "dFirst" -> {"isDirty", "erase"}
      [] l = "disable" -> {"writeDisable"}
      [] l = "read" -> {"read"}
      [] l = "fFirst" -> {"readSfdp"}
      [] OTHER -> Ops \cup {"none"}

Types ==
    /\ pc \in [Threads -> PCs] /\ ret \in [Threads -> PCs]
    /\ rv \in [Threads -> Statuses] /\ res \in [Threads -> Statuses]
    /\ DOMAIN req = Threads /\ DOMAIN spoiled = Threads
    /\ wel \in BOOLEAN /\ locked \in BOOLEAN
    /\ ready \in {"no", "yes", "deaf"}

\* Mutual exclusion: who talks to the device has the bus.
BusInv == \A t \in Threads : pc[t] \notin Outside => bus = t

\* Where the two subroutines go on.
RetInv ==
    \A t \in Threads :
        /\ pc[t] = "acquire" => ret[t] \in WaitFirst \cup {"iReset", "read", "disable", "cPoll"}
        /\ pc[t] = "poll" => ret[t] \in WaitFirst \cup {"wAfter", "sWait", "iClear"}

OpInv == \A t \in Threads : req[t].op \in OpsAt(Place(t))

\* What a wait that ended well is worth, for as long as the bus is kept.
QuietInv ==
    \A t \in Threads :
        /\ pc[t] \in {"wEnable", "wSend", "sEnable", "sSend", "cEnable", "cSend"} => ~Busy
        /\ pc[t] \in {"wSend", "sSend", "cSend"} => wel
        /\ pc[t] \in WaitFirst \cup {"wAfter", "sWait"} /\ rv[t] = "EOK" => ~Busy

\* What the status of a call, or of the last wait in it, says of the device.
ReleaseInv ==
    \A t \in Threads : pc[t] = "release" /\ Busy =>
        /\ req[t].op \in {"write", "chipErase"} => res[t] # "EOK"
        /\ req[t].op \in {"erase", "eraseStart"} => rv[t] # "EOK"

\* The device works for the calls that write only.
JobInv == Busy => job.req.op \in {"write", "erase", "eraseStart", "chipErase"}

\* spiflash_init runs alone, and unlocks the device if that hears it.
InitInv ==
    /\ Chip = "open" => ~locked
    /\ ready = "yes" => ~locked
    /\ \A t \in Threads : Place(t) \in InitPlaces =>
        /\ ready = "no" /\ \A u \in Threads \ {t} : pc[u] = "idle"
        /\ Place(t) \in {"iEnable", "iUnlock"} => ~Busy
        /\ Place(t) = "iUnlock" /\ "deaf" \notin spoiled[t] => wel
        /\ Place(t) = "iClear" /\ "deaf" \notin spoiled[t] => ~locked

\* A chip erase that failed keeps the bus; if its thread calls again, it waits
\* for the bus for ever.
SpiInv == Types /\ BusInv /\ RetInv /\ OpInv /\ QuietInv /\ ReleaseInv /\ JobInv /\ InitInv
              /\ BusIsGivenBack

-----------------------------------------------------------------------------
LEMMA SpiStep == SpiInv /\ [Next]_vars => SpiInv'
<1> SUFFICES ASSUME SpiInv, [Next]_vars PROVE SpiInv'
  OBVIOUS
<1> USE ThreadAssumption, ChipAssumption
    DEF SpiInv, Types, BusInv, RetInv, OpInv, QuietInv, ReleaseInv, JobInv, InitInv,
        BusIsGivenBack, Place, Outside, InitPlaces, OpsAt, WaitFirst, PCs, Statuses, Ops,
        NoRequest, NoJob, Busy, device, thread, vars, Wait, Acquire, Goto, Result, Start,
        Enable
<1>1. ASSUME NEW t \in Threads, GetBus(t) PROVE SpiInv'
  <2>1. Types'
    BY <1>1 DEF GetBus
  <2>2. BusInv'
    BY <1>1 DEF GetBus
  <2>3. RetInv'
    BY <1>1 DEF GetBus
  <2>4. OpInv'
    BY <1>1 DEF GetBus
  <2>5. QuietInv'
    BY <1>1 DEF GetBus
  <2>6. ReleaseInv'
    BY <1>1 DEF GetBus
  <2>7. JobInv'
    BY <1>1 DEF GetBus
  <2>8. InitInv'
    BY <1>1 DEF GetBus
  <2>9. BusIsGivenBack'
    BY <1>1 DEF GetBus
  <2>10. QED
    BY <2>1, <2>2, <2>3, <2>4, <2>5, <2>6, <2>7, <2>8, <2>9
<1>2. ASSUME NEW t \in Threads, PollAgain(t) PROVE SpiInv'
  <2>1. Types'
    BY <1>2 DEF PollAgain
  <2>2. BusInv'
    BY <1>2 DEF PollAgain
  <2>3. RetInv'
    BY <1>2 DEF PollAgain
  <2>4. OpInv'
    BY <1>2 DEF PollAgain
  <2>5. QuietInv'
    BY <1>2 DEF PollAgain
  <2>6. ReleaseInv'
    BY <1>2 DEF PollAgain
  <2>7. JobInv'
    BY <1>2 DEF PollAgain
  <2>8. InitInv'
    BY <1>2 DEF PollAgain
  <2>9. BusIsGivenBack'
    BY <1>2 DEF PollAgain
  <2>10. QED
    BY <2>1, <2>2, <2>3, <2>4, <2>5, <2>6, <2>7, <2>8, <2>9
<1>3. ASSUME NEW t \in Threads, PollDone(t) PROVE SpiInv'
  <2>1. Types'
    BY <1>3 DEF PollDone
  <2>2. BusInv'
    BY <1>3 DEF PollDone
  <2>3. RetInv'
    BY <1>3 DEF PollDone
  <2>4. OpInv'
    BY <1>3 DEF PollDone
  <2>5. QuietInv'
    BY <1>3 DEF PollDone
  <2>6. ReleaseInv'
    BY <1>3 DEF PollDone
  <2>7. JobInv'
    BY <1>3 DEF PollDone
  <2>8. InitInv'
    BY <1>3 DEF PollDone
  <2>9. BusIsGivenBack'
    BY <1>3 DEF PollDone
  <2>10. QED
    BY <2>1, <2>2, <2>3, <2>4, <2>5, <2>6, <2>7, <2>8, <2>9
<1>4. ASSUME NEW t \in Threads, Return(t) PROVE SpiInv'
  <2>1. Types'
    BY <1>4 DEF Return
  <2>2. BusInv'
    BY <1>4 DEF Return
  <2>3. RetInv'
    BY <1>4 DEF Return
  <2>4. OpInv'
    BY <1>4 DEF Return
  <2>5. QuietInv'
    BY <1>4 DEF Return
  <2>6. ReleaseInv'
    BY <1>4 DEF Return
  <2>7. JobInv'
    BY <1>4 DEF Return
  <2>8. InitInv'
    BY <1>4 DEF Return
  <2>9. BusIsGivenBack'
    BY <1>4 DEF Return
  <2>10. QED
    BY <2>1, <2>2, <2>3, <2>4, <2>5, <2>6, <2>7, <2>8, <2>9
<1>5. ASSUME NEW t \in Threads, BackToErase(t) PROVE SpiInv'
  <2>1. Types'
    BY <1>5 DEF BackToErase
  <2>2. BusInv'
    BY <1>5 DEF BackToErase
  <2>3. RetInv'
    BY <1>5 DEF BackToErase
  <2>4. OpInv'
    BY <1>5 DEF BackToErase
  <2>5. QuietInv'
    BY <1>5 DEF BackToErase
  <2>6. ReleaseInv'
    BY <1>5 DEF BackToErase
  <2>7. JobInv'
    BY <1>5 DEF BackToErase
  <2>8. InitInv'
    BY <1>5 DEF BackToErase
  <2>9. BusIsGivenBack'
    BY <1>5 DEF BackToErase
  <2>10. QED
    BY <2>1, <2>2, <2>3, <2>4, <2>5, <2>6, <2>7, <2>8, <2>9
<1>6. ASSUME NEW t \in Threads, WriteFirst(t) PROVE SpiInv'
  <2>1. Types'
    BY <1>6 DEF WriteFirst
  <2>2. BusInv'
    BY <1>6 DEF WriteFirst
  <2>3. RetInv'
    BY <1>6 DEF WriteFirst
  <2>4. OpInv'
    BY <1>6 DEF WriteFirst
  <2>5. QuietInv'
    BY <1>6 DEF WriteFirst
  <2>6. ReleaseInv'
    BY <1>6 DEF WriteFirst
  <2>7. JobInv'
    BY <1>6 DEF WriteFirst
  <2>8. InitInv'
    BY <1>6 DEF WriteFirst
  <2>9. BusIsGivenBack'
    BY <1>6 DEF WriteFirst
  <2>10. QED
    BY <2>1, <2>2, <2>3, <2>4, <2>5, <2>6, <2>7, <2>8, <2>9
<1>7. ASSUME NEW t \in Threads, WriteEnable(t) PROVE SpiInv'
  <2>1. Types'
    BY <1>7 DEF WriteEnable
  <2>2. BusInv'
    BY <1>7 DEF WriteEnable
  <2>3. RetInv'
    BY <1>7 DEF WriteEnable
  <2>4. OpInv'
    BY <1>7 DEF WriteEnable
  <2>5. QuietInv'
    BY <1>7 DEF WriteEnable
  <2>6. ReleaseInv'
    BY <1>7 DEF WriteEnable
  <2>7. JobInv'
    BY <1>7 DEF WriteEnable
  <2>8. InitInv'
    BY <1>7 DEF WriteEnable
  <2>9. BusIsGivenBack'
    BY <1>7 DEF WriteEnable
  <2>10. QED
    BY <2>1, <2>2, <2>3, <2>4, <2>5, <2>6, <2>7, <2>8, <2>9
<1>8. ASSUME NEW t \in Threads, WriteSend(t) PROVE SpiInv'
  <2>1. Types'
    BY <1>8 DEF WriteSend
  <2>2. BusInv'
    BY <1>8 DEF WriteSend
  <2>3. RetInv'
    BY <1>8 DEF WriteSend
  <2>4. OpInv'
    BY <1>8 DEF WriteSend
  <2>5. QuietInv'
    BY <1>8 DEF WriteSend
  <2>6. ReleaseInv'
    BY <1>8 DEF WriteSend
  <2>7. JobInv'
    BY <1>8 DEF WriteSend
  <2>8. InitInv'
    BY <1>8 DEF WriteSend
  <2>9. BusIsGivenBack'
    BY <1>8 DEF WriteSend
  <2>10. QED
    BY <2>1, <2>2, <2>3, <2>4, <2>5, <2>6, <2>7, <2>8, <2>9
<1>9. ASSUME NEW t \in Threads, WriteAfter(t) PROVE SpiInv'
  <2>1. Types'
    BY <1>9 DEF WriteAfter
  <2>2. BusInv'
    BY <1>9 DEF WriteAfter
  <2>3. RetInv'
    BY <1>9 DEF WriteAfter
  <2>4. OpInv'
    BY <1>9 DEF WriteAfter
  <2>5. QuietInv'
    BY <1>9 DEF WriteAfter
  <2>6. ReleaseInv'
    BY <1>9 DEF WriteAfter
  <2>7. JobInv'
    BY <1>9 DEF WriteAfter
  <2>8. InitInv'
    BY <1>9 DEF WriteAfter
  <2>9. BusIsGivenBack'
    BY <1>9 DEF WriteAfter
  <2>10. QED
    BY <2>1, <2>2, <2>3, <2>4, <2>5, <2>6, <2>7, <2>8, <2>9
<1>10. ASSUME NEW t \in Threads, EraseFirst(t) PROVE SpiInv'
  <2>1. Types'
    BY <1>10 DEF EraseFirst
  <2>2. BusInv'
    BY <1>10 DEF EraseFirst
  <2>3. RetInv'
    BY <1>10 DEF EraseFirst
  <2>4. OpInv'
    BY <1>10 DEF EraseFirst
  <2>5. QuietInv'
    BY <1>10 DEF EraseFirst
  <2>6. ReleaseInv'
    BY <1>10 DEF EraseFirst
  <2>7. JobInv'
    BY <1>10 DEF EraseFirst
  <2>8. InitInv'
    BY <1>10 DEF EraseFirst
  <2>9. BusIsGivenBack'
    BY <1>10 DEF EraseFirst
  <2>10. QED
    BY <2>1, <2>2, <2>3, <2>4, <2>5, <2>6, <2>7, <2>8, <2>9
<1>11. ASSUME NEW t \in Threads, EraseEnable(t) PROVE SpiInv'
  <2>1. Types'
    BY <1>11 DEF EraseEnable
  <2>2. BusInv'
    BY <1>11 DEF EraseEnable
  <2>3. RetInv'
    BY <1>11 DEF EraseEnable
  <2>4. OpInv'
    BY <1>11 DEF EraseEnable
  <2>5. QuietInv'
    BY <1>11 DEF EraseEnable
  <2>6. ReleaseInv'
    BY <1>11 DEF EraseEnable
  <2>7. JobInv'
    BY <1>11 DEF EraseEnable
  <2>8. InitInv'
    BY <1>11 DEF EraseEnable
  <2>9. BusIsGivenBack'
    BY <1>11 DEF EraseEnable
  <2>10. QED
    BY <2>1, <2>2, <2>3, <2>4, <2>5, <2>6, <2>7, <2>8, <2>9
<1>12. ASSUME NEW t \in Threads, EraseSend(t) PROVE SpiInv'
  <2>1. Types'
    BY <1>12 DEF EraseSend
  <2>2. BusInv'
    BY <1>12 DEF EraseSend
  <2>3. RetInv'
    BY <1>12 DEF EraseSend
  <2>4. OpInv'
    BY <1>12 DEF EraseSend
  <2>5. QuietInv'
    BY <1>12 DEF EraseSend
  <2>6. ReleaseInv'
    BY <1>12 DEF EraseSend
  <2>7. JobInv'
    BY <1>12 DEF EraseSend
  <2>8. InitInv'
    BY <1>12 DEF EraseSend
  <2>9. BusIsGivenBack'
    BY <1>12 DEF EraseSend
  <2>10. QED
    BY <2>1, <2>2, <2>3, <2>4, <2>5, <2>6, <2>7, <2>8, <2>9
<1>13. ASSUME NEW t \in Threads, EraseAgain(t) PROVE SpiInv'
  <2>1. Types'
    BY <1>13 DEF EraseAgain
  <2>2. BusInv'
    BY <1>13 DEF EraseAgain
  <2>3. RetInv'
    BY <1>13 DEF EraseAgain
  <2>4. OpInv'
    BY <1>13 DEF EraseAgain
  <2>5. QuietInv'
    BY <1>13 DEF EraseAgain
  <2>6. ReleaseInv'
    BY <1>13 DEF EraseAgain
  <2>7. JobInv'
    BY <1>13 DEF EraseAgain
  <2>8. InitInv'
    BY <1>13 DEF EraseAgain
  <2>9. BusIsGivenBack'
    BY <1>13 DEF EraseAgain
  <2>10. QED
    BY <2>1, <2>2, <2>3, <2>4, <2>5, <2>6, <2>7, <2>8, <2>9
<1>14. ASSUME NEW t \in Threads, EraseWait(t) PROVE SpiInv'
  <2>1. Types'
    BY <1>14 DEF EraseWait
  <2>2. BusInv'
    BY <1>14 DEF EraseWait
  <2>3. RetInv'
    BY <1>14 DEF EraseWait
  <2>4. OpInv'
    BY <1>14 DEF EraseWait
  <2>5. QuietInv'
    BY <1>14 DEF EraseWait
  <2>6. ReleaseInv'
    BY <1>14 DEF EraseWait
  <2>7. JobInv'
    BY <1>14 DEF EraseWait
  <2>8. InitInv'
    BY <1>14 DEF EraseWait
  <2>9. BusIsGivenBack'
    BY <1>14 DEF EraseWait
  <2>10. QED
    BY <2>1, <2>2, <2>3, <2>4, <2>5, <2>6, <2>7, <2>8, <2>9
<1>15. ASSUME NEW t \in Threads, EraseSector(t) PROVE SpiInv'
  <2>1. Types'
    BY <1>15 DEF EraseSector
  <2>2. BusInv'
    BY <1>15 DEF EraseSector
  <2>3. RetInv'
    BY <1>15 DEF EraseSector
  <2>4. OpInv'
    BY <1>15 DEF EraseSector
  <2>5. QuietInv'
    BY <1>15 DEF EraseSector
  <2>6. ReleaseInv'
    BY <1>15 DEF EraseSector
  <2>7. JobInv'
    BY <1>15 DEF EraseSector
  <2>8. InitInv'
    BY <1>15 DEF EraseSector
  <2>9. BusIsGivenBack'
    BY <1>15 DEF EraseSector
  <2>10. QED
    BY <2>1, <2>2, <2>3, <2>4, <2>5, <2>6, <2>7, <2>8, <2>9
<1>16. ASSUME NEW t \in Threads, EraseSeen(t) PROVE SpiInv'
  <2>1. Types'
    BY <1>16 DEF EraseSeen
  <2>2. BusInv'
    BY <1>16 DEF EraseSeen
  <2>3. RetInv'
    BY <1>16 DEF EraseSeen
  <2>4. OpInv'
    BY <1>16 DEF EraseSeen
  <2>5. QuietInv'
    BY <1>16 DEF EraseSeen
  <2>6. ReleaseInv'
    BY <1>16 DEF EraseSeen
  <2>7. JobInv'
    BY <1>16 DEF EraseSeen
  <2>8. InitInv'
    BY <1>16 DEF EraseSeen
  <2>9. BusIsGivenBack'
    BY <1>16 DEF EraseSeen
  <2>10. QED
    BY <2>1, <2>2, <2>3, <2>4, <2>5, <2>6, <2>7, <2>8, <2>9
<1>17. ASSUME NEW t \in Threads, EraseStarted(t) PROVE SpiInv'
  <2>1. Types'
    BY <1>17 DEF EraseStarted
  <2>2. BusInv'
    BY <1>17 DEF EraseStarted
  <2>3. RetInv'
    BY <1>17 DEF EraseStarted
  <2>4. OpInv'
    BY <1>17 DEF EraseStarted
  <2>5. QuietInv'
    BY <1>17 DEF EraseStarted
  <2>6. ReleaseInv'
    BY <1>17 DEF EraseStarted
  <2>7. JobInv'
    BY <1>17 DEF EraseStarted
  <2>8. InitInv'
    BY <1>17 DEF EraseStarted
  <2>9. BusIsGivenBack'
    BY <1>17 DEF EraseStarted
  <2>10. QED
    BY <2>1, <2>2, <2>3, <2>4, <2>5, <2>6, <2>7, <2>8, <2>9
<1>18. ASSUME NEW t \in Threads, EraseEnd(t) PROVE SpiInv'
  <2>1. Types'
    BY <1>18 DEF EraseEnd
  <2>2. BusInv'
    BY <1>18 DEF EraseEnd
  <2>3. RetInv'
    BY <1>18 DEF EraseEnd
  <2>4. OpInv'
    BY <1>18 DEF EraseEnd
  <2>5. QuietInv'
    BY <1>18 DEF EraseEnd
  <2>6. ReleaseInv'
    BY <1>18 DEF EraseEnd
  <2>7. JobInv'
    BY <1>18 DEF EraseEnd
  <2>8. InitInv'
    BY <1>18 DEF EraseEnd
  <2>9. BusIsGivenBack'
    BY <1>18 DEF EraseEnd
  <2>10. QED
    BY <2>1, <2>2, <2>3, <2>4, <2>5, <2>6, <2>7, <2>8, <2>9
<1>19. ASSUME NEW t \in Threads, ChipFirst(t) PROVE SpiInv'
  <2>1. Types'
    BY <1>19 DEF ChipFirst
  <2>2. BusInv'
    BY <1>19 DEF ChipFirst
  <2>3. RetInv'
    BY <1>19 DEF ChipFirst
  <2>4. OpInv'
    BY <1>19 DEF ChipFirst
  <2>5. QuietInv'
    BY <1>19 DEF ChipFirst
  <2>6. ReleaseInv'
    BY <1>19 DEF ChipFirst
  <2>7. JobInv'
    BY <1>19 DEF ChipFirst
  <2>8. InitInv'
    BY <1>19 DEF ChipFirst
  <2>9. BusIsGivenBack'
    BY <1>19 DEF ChipFirst
  <2>10. QED
    BY <2>1, <2>2, <2>3, <2>4, <2>5, <2>6, <2>7, <2>8, <2>9
<1>20. ASSUME NEW t \in Threads, ChipEnable(t) PROVE SpiInv'
  <2>1. Types'
    BY <1>20 DEF ChipEnable
  <2>2. BusInv'
    BY <1>20 DEF ChipEnable
  <2>3. RetInv'
    BY <1>20 DEF ChipEnable
  <2>4. OpInv'
    BY <1>20 DEF ChipEnable
  <2>5. QuietInv'
    BY <1>20 DEF ChipEnable
  <2>6. ReleaseInv'
    BY <1>20 DEF ChipEnable
  <2>7. JobInv'
    BY <1>20 DEF ChipEnable
  <2>8. InitInv'
    BY <1>20 DEF ChipEnable
  <2>9. BusIsGivenBack'
    BY <1>20 DEF ChipEnable
  <2>10. QED
    BY <2>1, <2>2, <2>3, <2>4, <2>5, <2>6, <2>7, <2>8, <2>9
<1>21. ASSUME NEW t \in Threads, ChipSend(t) PROVE SpiInv'
  <2>1. Types'
    BY <1>21 DEF ChipSend
  <2>2. BusInv'
    BY <1>21 DEF ChipSend
  <2>3. RetInv'
    BY <1>21 DEF ChipSend
  <2>4. OpInv'
    BY <1>21 DEF ChipSend
  <2>5. QuietInv'
    BY <1>21 DEF ChipSend
  <2>6. ReleaseInv'
    BY <1>21 DEF ChipSend
  <2>7. JobInv'
    BY <1>21 DEF ChipSend
  <2>8. InitInv'
    BY <1>21 DEF ChipSend
  <2>9. BusIsGivenBack'
    BY <1>21 DEF ChipSend
  <2>10. QED
    BY <2>1, <2>2, <2>3, <2>4, <2>5, <2>6, <2>7, <2>8, <2>9
<1>22. ASSUME NEW t \in Threads, ChipPoll(t) PROVE SpiInv'
  <2>1. Types'
    BY <1>22 DEF ChipPoll
  <2>2. BusInv'
    BY <1>22 DEF ChipPoll
  <2>3. RetInv'
    BY <1>22 DEF ChipPoll
  <2>4. OpInv'
    BY <1>22 DEF ChipPoll
  <2>5. QuietInv'
    BY <1>22 DEF ChipPoll
  <2>6. ReleaseInv'
    BY <1>22 DEF ChipPoll
  <2>7. JobInv'
    BY <1>22 DEF ChipPoll
  <2>8. InitInv'
    BY <1>22 DEF ChipPoll
  <2>9. BusIsGivenBack'
    BY <1>22 DEF ChipPoll
  <2>10. QED
    BY <2>1, <2>2, <2>3, <2>4, <2>5, <2>6, <2>7, <2>8, <2>9
<1>23. ASSUME NEW t \in Threads, InitReset(t) PROVE SpiInv'
  <2>1. Types'
    BY <1>23 DEF InitReset
  <2>2. BusInv'
    BY <1>23 DEF InitReset
  <2>3. RetInv'
    BY <1>23 DEF InitReset
  <2>4. OpInv'
    BY <1>23 DEF InitReset
  <2>5. QuietInv'
    BY <1>23 DEF InitReset
  <2>6. ReleaseInv'
    BY <1>23 DEF InitReset
  <2>7. JobInv'
    BY <1>23 DEF InitReset
  <2>8. InitInv'
    <3>1. /\ pc[t] = "iReset" /\ ready' = ready /\ spoiled' = spoiled
          /\ job' = NoJob /\ ret' = ret
          /\ pc' = [pc EXCEPT ![t] = IF Chip = "protected" THEN "iEnable" ELSE "iClear"]
          /\ locked' = (locked /\ Chip # "volatile")
      BY <1>23 DEF InitReset
    <3>2. ready = "no" /\ \A u \in Threads \ {t} : pc[u] = "idle"
      BY <3>1
    <3>3. ~locked' \/ Chip = "protected"
      BY <3>1
    <3>4. Chip = "open" => ~locked'
      BY <3>1
    <3>5. QED
      BY <3>1, <3>2, <3>3, <3>4
  <2>9. BusIsGivenBack'
    BY <1>23 DEF InitReset
  <2>10. QED
    BY <2>1, <2>2, <2>3, <2>4, <2>5, <2>6, <2>7, <2>8, <2>9
<1>24. ASSUME NEW t \in Threads, InitEnable(t) PROVE SpiInv'
  <2>1. Types'
    BY <1>24 DEF InitEnable
  <2>2. BusInv'
    BY <1>24 DEF InitEnable
  <2>3. RetInv'
    BY <1>24 DEF InitEnable
  <2>4. OpInv'
    BY <1>24 DEF InitEnable
  <2>5. QuietInv'
    BY <1>24 DEF InitEnable
  <2>6. ReleaseInv'
    BY <1>24 DEF InitEnable
  <2>7. JobInv'
    BY <1>24 DEF InitEnable
  <2>8. InitInv'
    BY <1>24 DEF InitEnable
  <2>9. BusIsGivenBack'
    BY <1>24 DEF InitEnable
  <2>10. QED
    BY <2>1, <2>2, <2>3, <2>4, <2>5, <2>6, <2>7, <2>8, <2>9
<1>25. ASSUME NEW t \in Threads, InitUnlock(t) PROVE SpiInv'
  <2>1. Types'
    BY <1>25 DEF InitUnlock
  <2>2. BusInv'
    BY <1>25 DEF InitUnlock
  <2>3. RetInv'
    BY <1>25 DEF InitUnlock
  <2>4. OpInv'
    BY <1>25 DEF InitUnlock
  <2>5. QuietInv'
    BY <1>25 DEF InitUnlock
  <2>6. ReleaseInv'
    BY <1>25 DEF InitUnlock
  <2>7. JobInv'
    BY <1>25 DEF InitUnlock
  <2>8. InitInv'
    <3>1. /\ pc[t] = "iUnlock" /\ ready' = ready /\ spoiled' = spoiled
          /\ pc' = [pc EXCEPT ![t] = "poll"] /\ ret' = [ret EXCEPT ![t] = "iClear"]
          /\ locked' = (locked /\ ~wel)
      BY <1>25 DEF InitUnlock
    <3>2. ready = "no" /\ \A u \in Threads \ {t} : pc[u] = "idle"
      BY <3>1
    <3>3. "deaf" \notin spoiled[t] => ~locked'
      BY <3>1
    <3>4. Chip = "open" => ~locked'
      BY <3>1
    <3>5. QED
      BY <3>1, <3>2, <3>3, <3>4
  <2>9. BusIsGivenBack'
    BY <1>25 DEF InitUnlock
  <2>10. QED
    BY <2>1, <2>2, <2>3, <2>4, <2>5, <2>6, <2>7, <2>8, <2>9
<1>26. ASSUME NEW t \in Threads, InitClear(t) PROVE SpiInv'
  <2>1. Types'
    BY <1>26 DEF InitClear
  <2>2. BusInv'
    BY <1>26 DEF InitClear
  <2>3. RetInv'
    BY <1>26 DEF InitClear
  <2>4. OpInv'
    BY <1>26 DEF InitClear
  <2>5. QuietInv'
    BY <1>26 DEF InitClear
  <2>6. ReleaseInv'
    BY <1>26 DEF InitClear
  <2>7. JobInv'
    BY <1>26 DEF InitClear
  <2>8. InitInv'
    BY <1>26 DEF InitClear
  <2>9. BusIsGivenBack'
    BY <1>26 DEF InitClear
  <2>10. QED
    BY <2>1, <2>2, <2>3, <2>4, <2>5, <2>6, <2>7, <2>8, <2>9
<1>27. ASSUME NEW t \in Threads, Disable(t) PROVE SpiInv'
  <2>1. Types'
    BY <1>27 DEF Disable
  <2>2. BusInv'
    BY <1>27 DEF Disable
  <2>3. RetInv'
    BY <1>27 DEF Disable
  <2>4. OpInv'
    BY <1>27 DEF Disable
  <2>5. QuietInv'
    BY <1>27 DEF Disable
  <2>6. ReleaseInv'
    BY <1>27 DEF Disable
  <2>7. JobInv'
    BY <1>27 DEF Disable
  <2>8. InitInv'
    BY <1>27 DEF Disable
  <2>9. BusIsGivenBack'
    BY <1>27 DEF Disable
  <2>10. QED
    BY <2>1, <2>2, <2>3, <2>4, <2>5, <2>6, <2>7, <2>8, <2>9
<1>28. ASSUME NEW t \in Threads, Read(t) PROVE SpiInv'
  <2>1. Types'
    BY <1>28 DEF Read
  <2>2. BusInv'
    BY <1>28 DEF Read
  <2>3. RetInv'
    BY <1>28 DEF Read
  <2>4. OpInv'
    BY <1>28 DEF Read
  <2>5. QuietInv'
    BY <1>28 DEF Read
  <2>6. ReleaseInv'
    BY <1>28 DEF Read
  <2>7. JobInv'
    BY <1>28 DEF Read
  <2>8. InitInv'
    BY <1>28 DEF Read
  <2>9. BusIsGivenBack'
    BY <1>28 DEF Read
  <2>10. QED
    BY <2>1, <2>2, <2>3, <2>4, <2>5, <2>6, <2>7, <2>8, <2>9
<1>29. ASSUME NEW t \in Threads, ReadSfdp(t) PROVE SpiInv'
  <2>1. Types'
    BY <1>29 DEF ReadSfdp
  <2>2. BusInv'
    BY <1>29 DEF ReadSfdp
  <2>3. RetInv'
    BY <1>29 DEF ReadSfdp
  <2>4. OpInv'
    BY <1>29 DEF ReadSfdp
  <2>5. QuietInv'
    BY <1>29 DEF ReadSfdp
  <2>6. ReleaseInv'
    BY <1>29 DEF ReadSfdp
  <2>7. JobInv'
    BY <1>29 DEF ReadSfdp
  <2>8. InitInv'
    BY <1>29 DEF ReadSfdp
  <2>9. BusIsGivenBack'
    BY <1>29 DEF ReadSfdp
  <2>10. QED
    BY <2>1, <2>2, <2>3, <2>4, <2>5, <2>6, <2>7, <2>8, <2>9
<1>30. ASSUME NEW t \in Threads, IsDirty(t) PROVE SpiInv'
  <2>1. Types'
    BY <1>30 DEF IsDirty
  <2>2. BusInv'
    BY <1>30 DEF IsDirty
  <2>3. RetInv'
    BY <1>30 DEF IsDirty
  <2>4. OpInv'
    BY <1>30 DEF IsDirty
  <2>5. QuietInv'
    BY <1>30 DEF IsDirty
  <2>6. ReleaseInv'
    BY <1>30 DEF IsDirty
  <2>7. JobInv'
    BY <1>30 DEF IsDirty
  <2>8. InitInv'
    BY <1>30 DEF IsDirty
  <2>9. BusIsGivenBack'
    BY <1>30 DEF IsDirty
  <2>10. QED
    BY <2>1, <2>2, <2>3, <2>4, <2>5, <2>6, <2>7, <2>8, <2>9
<1>31. CASE Finish
  <2>1. Types'
    BY <1>31 DEF Finish
  <2>2. BusInv'
    BY <1>31 DEF Finish
  <2>3. RetInv'
    BY <1>31 DEF Finish
  <2>4. OpInv'
    BY <1>31 DEF Finish
  <2>5. QuietInv'
    BY <1>31 DEF Finish
  <2>6. ReleaseInv'
    BY <1>31 DEF Finish
  <2>7. JobInv'
    BY <1>31 DEF Finish
  <2>8. InitInv'
    BY <1>31 DEF Finish
  <2>9. BusIsGivenBack'
    BY <1>31 DEF Finish
  <2>10. QED
    BY <2>1, <2>2, <2>3, <2>4, <2>5, <2>6, <2>7, <2>8, <2>9
<1>32. CASE Fail
  <2>1. Types'
    BY <1>32 DEF Fail
  <2>2. BusInv'
    BY <1>32 DEF Fail
  <2>3. RetInv'
    BY <1>32 DEF Fail
  <2>4. OpInv'
    BY <1>32 DEF Fail
  <2>5. QuietInv'
    BY <1>32 DEF Fail
  <2>6. ReleaseInv'
    BY <1>32 DEF Fail
  <2>7. JobInv'
    BY <1>32 DEF Fail
  <2>8. InitInv'
    BY <1>32 DEF Fail
  <2>9. BusIsGivenBack'
    BY <1>32 DEF Fail
  <2>10. QED
    BY <2>1, <2>2, <2>3, <2>4, <2>5, <2>6, <2>7, <2>8, <2>9
<1>33. CASE Restart
  <2>1. Types'
    BY <1>33 DEF Restart, All
  <2>2. BusInv'
    BY <1>33 DEF Restart, All
  <2>3. RetInv'
    BY <1>33 DEF Restart, All
  <2>4. OpInv'
    BY <1>33 DEF Restart, All
  <2>5. QuietInv'
    BY <1>33 DEF Restart, All
  <2>6. ReleaseInv'
    BY <1>33 DEF Restart, All
  <2>7. JobInv'
    BY <1>33 DEF Restart, All
  <2>8. InitInv'
    BY <1>33 DEF Restart, All
  <2>9. BusIsGivenBack'
    BY <1>33 DEF Restart, All
  <2>10. QED
    BY <2>1, <2>2, <2>3, <2>4, <2>5, <2>6, <2>7, <2>8, <2>9
<1>34. ASSUME NEW t \in Threads, NEW r \in Requests[t], Call(t, r) PROVE SpiInv'
  <2>0. r.op \in Ops
    BY RequestsAssumption
  <2>1. Types'
    BY <1>34, <2>0 DEF Call, Entry
  <2>2. BusInv'
    BY <1>34, <2>0 DEF Call, Entry
  <2>3. RetInv'
    BY <1>34, <2>0 DEF Call, Entry
  <2>4. OpInv'
    BY <1>34, <2>0 DEF Call, Entry
  <2>5. QuietInv'
    BY <1>34, <2>0 DEF Call, Entry
  <2>6. ReleaseInv'
    BY <1>34, <2>0 DEF Call, Entry
  <2>7. JobInv'
    BY <1>34, <2>0 DEF Call, Entry
  <2>8. InitInv'
    BY <1>34, <2>0 DEF Call, Entry
  <2>9. BusIsGivenBack'
    BY <1>34, <2>0 DEF Call, Entry
  <2>10. QED
    BY <2>1, <2>2, <2>3, <2>4, <2>5, <2>6, <2>7, <2>8, <2>9
<1>35. CASE UNCHANGED vars
  BY <1>35
<1>36. QED
  BY <1>1, <1>2, <1>3, <1>4, <1>5, <1>6, <1>7, <1>8, <1>9, <1>10, <1>11, <1>12, <1>13, <1>14, <1>15, <1>16,
     <1>17, <1>18, <1>19, <1>20, <1>21, <1>22, <1>23, <1>24, <1>25, <1>26, <1>27, <1>28, <1>29,
     <1>30, <1>31, <1>32, <1>33, <1>34, <1>35
     DEF Next, Step, WriteStep, EraseStep, LoopStep, ChipStep, InitStep

LEMMA SpiInvariant == Spec => []SpiInv
<1>1. Init => SpiInv
  <2> SUFFICES ASSUME Init PROVE SpiInv
    OBVIOUS
  <2> USE DEF Init, All, PCs, Statuses, NoRequest, NoJob, Busy, Place, Outside, InitPlaces,
              OpsAt, WaitFirst
  <2>1. Types
    BY ThreadAssumption, ChipAssumption DEF Types
  <2>2. BusInv
    BY ThreadAssumption, ChipAssumption DEF BusInv
  <2>3. RetInv
    BY ThreadAssumption, ChipAssumption DEF RetInv
  <2>4. OpInv
    BY ThreadAssumption, ChipAssumption DEF OpInv
  <2>5. QuietInv
    BY ThreadAssumption, ChipAssumption DEF QuietInv
  <2>6. ReleaseInv
    BY ThreadAssumption, ChipAssumption DEF ReleaseInv
  <2>7. JobInv
    BY ThreadAssumption, ChipAssumption DEF JobInv
  <2>8. InitInv
    BY ThreadAssumption, ChipAssumption DEF InitInv
  <2>9. BusIsGivenBack
    BY ThreadAssumption, ChipAssumption DEF BusIsGivenBack
  <2>10. QED
    BY <2>1, <2>2, <2>3, <2>4, <2>5, <2>6, <2>7, <2>8, <2>9 DEF SpiInv
<1>2. QED
  BY <1>1, SpiStep, PTL DEF Spec

-----------------------------------------------------------------------------
\* Between the end of a wait and the command it was for, no other thread gets to
\* the device (spiflash_write, spiflash_sector_erase_start, spiflash_chip_erase):
\* it is quiet, write enabled and unlocked.
THEOREM CommandsAlwaysHeard == Spec => []CommandsAreHeard
<1>1. SpiInv => CommandsAreHeard
  BY DEF SpiInv, QuietInv, InitInv, CommandsAreHeard
<1>2. QED
  BY <1>1, SpiInvariant, PTL

\* A write or chip erase that returns EOK, and an erase whose last wait did, have
\* left the device quiet.
THEOREM AlwaysQuietAfterCall == Spec => []QuietAfterCall
<1>1. SpiInv => QuietAfterCall
  BY DEF SpiInv, ReleaseInv, JobInv, QuietAfterCall
<1>2. QED
  BY <1>1, SpiInvariant, PTL

\* Only a chip erase that fails before its command returns with the bus.
THEOREM BusAlwaysGivenBack == Spec => []BusIsGivenBack
<1>1. SpiInv => BusIsGivenBack
  BY DEF SpiInv
<1>2. QED
  BY <1>1, SpiInvariant, PTL

-----------------------------------------------------------------------------
(***************************************************************************)
(* Remainders.                                                             *)
(***************************************************************************)
LEMMA RemainderIs ==
    ASSUME NEW n \in Nat \ {0}, NEW q \in Int, NEW r \in 0 .. n-1, NEW a \in Int, a = n * q + r
    PROVE  a % n = r
BY Z3

LEMMA Division ==
    ASSUME NEW n \in Nat \ {0}, NEW a \in Nat
    PROVE  /\ (a % n) \in 0 .. n-1 /\ (a \div n) \in Nat
           /\ a = n * (a \div n) + (a % n)
BY Z3

\* Inside its page, an address and its remainder grow alike.
LEMMA RemainderGrows ==
    ASSUME NEW n \in Nat \ {0}, NEW a \in Nat, NEW i \in Nat, (a % n) + i < n
    PROVE  (a + i) % n = (a % n) + i
<1> DEFINE q == a \div n
           r == a % n
<1>1. r \in 0 .. n-1 /\ q \in Nat /\ a = n * q + r
  BY Division
<1>2. a + i = n * q + (r + i) /\ r + i \in 0 .. n-1
  BY <1>1
<1>3. QED
  BY <1>1, <1>2, RemainderIs

\* At the end of the page the next begins.
LEMMA RemainderEnds ==
    ASSUME NEW n \in Nat \ {0}, NEW a \in Nat
    PROVE  (a + (n - (a % n))) % n = 0
<1>1. PICK q \in Nat, r \in 0 .. n-1 : a = n * q + r /\ r = a % n
  BY Division
<1>2. a + (n - r) = n * (q + 1) + 0
  <2>1. a + (n - r) = n * q + n
    BY <1>1
  <2>2. n * q + n = n * (q + 1) + 0
    <3>1. n \in Int /\ q \in Int
      OBVIOUS
    <3>2. QED
      BY <3>1, Z3
  <2>3. QED
    BY <2>1, <2>2, Zenon
<1>3. a + (n - r) \in Int /\ q + 1 \in Int /\ 0 \in 0 .. n-1
  BY <1>1
<1>4. (a + (n - r)) % n = 0
  <2>1. \A b, m \in Int : b = n * m + 0 => b % n = 0
    BY RemainderIs
  <2>2. QED
    BY <1>2, <1>3, <2>1
<1>5. QED
  BY <1>1, <1>4

\* From a multiple to a later one it is at least one step.
LEMMA MultipleStep ==
    ASSUME NEW n \in Nat \ {0}, NEW a \in Nat, NEW b \in Nat, a % n = 0, b % n = 0, a < b
    PROVE  a + n <= b /\ (a + n) % n = 0
<1>1. PICK q \in Nat, p \in Nat : a = n * q /\ b = n * p
  <2>1. a = n * (a \div n) /\ b = n * (b \div n) /\ a \div n \in Nat /\ b \div n \in Nat
    BY Division
  <2>2. QED
    BY <2>1
<1>2. q < p
  <2>1. SUFFICES ASSUME p <= q PROVE FALSE
    BY <1>1
  <2>2. n * p <= n * q
    BY <1>1, <2>1
  <2>3. QED
    BY <1>1, <2>2
<1>3. n * (q + 1) <= n * p
  <2>1. q + 1 <= p
    BY <1>1, <1>2
  <2>2. QED
    BY <1>1, <2>1
<1>4. a + n = n * (q + 1) + 0
  BY <1>1
<1>5. (a + n) % n = 0
  BY <1>1, <1>4, RemainderIs
<1>6. a + n <= b
  BY <1>1, <1>3, <1>4
<1>7. QED
  BY <1>5, <1>6

-----------------------------------------------------------------------------
Aligned(a, n) == a % n = 0

\* Whether n cells from a are in one page.
InPage(a, n) == (a % PageSize) + n <= PageSize

\* What TypeOK says, but for at and the memory.
CountersInv ==
    /\ err \in BOOLEAN /\ bus \in Threads \cup {NoThread}
    /\ count \in [Threads -> 0 .. WipRetry]
    /\ tries \in [Threads -> 0 .. EraseWaits + ChipRetry]
    /\ dirty \in [Threads -> BOOLEAN]
    /\ spoiled \in [Threads -> SUBSET {"job", "deaf"}]

\* Places of a loop where there is more to do.
MorePlaces == {"wEnable", "wSend", "wAfter", "sFirst", "sEnable", "sSend", "sAgain", "sWait",
               "eSeen", "eStarted", "dFirst"}

\* How far a call has got: after the first page of a write at the beginning of
\* one, and in an erase at the beginning of a sector.
AtInv ==
    /\ at \in [Threads -> Nat]
    /\ \A t \in Threads :
        /\ req[t] \in Requests[t] \cup {NoRequest}
        /\ at[t] \in req[t].addr .. req[t].end
        /\ Place(t) \in {"wFirst", "wEnable", "wSend", "wAfter"}
              => at[t] = req[t].addr \/ Aligned(at[t], PageSize)
        /\ req[t].op \in {"erase", "eraseStart"} => Aligned(at[t], SectorSize)
        /\ req[t].op = "eraseStart" => at[t] = req[t].addr
        /\ Place(t) \in {"wEnable", "wSend", "wAfter"} => at[t] < req[t].end
        /\ req[t].op = "erase" /\ Place(t) \in MorePlaces => at[t] < req[t].end
        /\ req[t].op = "erase" /\ pc[t] = "release" /\ ret[t] # "eEnd" => at[t] < req[t].end
        /\ pc[t] = "eEnd" => ret[t] = "eEnd"

\* What the device was told to do is inside the range of the call.
JobRange(j) ==
    /\ j.by \in Threads /\ j.req \in Requests[j.by]
    /\ j.addr \in Addr /\ j.len \in 0 .. End
    /\ \/ /\ j.req.op = "write" /\ j.kind = "program"
          /\ j.req.addr <= j.addr /\ j.addr + j.len <= j.req.end /\ InPage(j.addr, j.len)
       \/ /\ j.req.op = "erase" /\ j.kind = "erase" /\ j.len = SectorSize
          /\ j.req.addr <= j.addr /\ j.addr + j.len <= j.req.end
       \/ /\ j.req.op = "eraseStart" /\ j.kind = "erase" /\ j.len = SectorSize
          /\ j.addr = j.req.addr
       \/ /\ j.req.op = "chipErase" /\ j.kind = "erase" /\ j.addr = 0 /\ j.len = End

RangeInv ==
    /\ AtInv
    /\ Busy => JobRange(job)
    /\ mem \in [Addr -> Cell]

-----------------------------------------------------------------------------
LEMMA CountersStep == Types /\ CountersInv /\ [Next]_vars => CountersInv'
<1> SUFFICES ASSUME Types, CountersInv, [Next]_vars PROVE CountersInv'
  OBVIOUS
<1> USE RetryAssumption
    DEF Types, CountersInv, device, thread, vars, Wait, Acquire, Goto, Result, Start, Enable
<1>1. ASSUME NEW t \in Threads, GetBus(t) PROVE CountersInv'
  BY <1>1 DEF GetBus
<1>2. ASSUME NEW t \in Threads, PollAgain(t) PROVE CountersInv'
  BY <1>2 DEF PollAgain
<1>3. ASSUME NEW t \in Threads, PollDone(t) PROVE CountersInv'
  <2>1. err' \in BOOLEAN /\ count' = [count EXCEPT ![t] = 0]
    BY <1>3 DEF PollDone
  <2>2. UNCHANGED <<bus, tries, dirty, spoiled>>
    BY <1>3 DEF PollDone
  <2>3. QED
    BY <2>1, <2>2
<1>4. ASSUME NEW t \in Threads, Return(t) PROVE CountersInv'
  BY <1>4 DEF Return
<1>5. ASSUME NEW t \in Threads, BackToErase(t) PROVE CountersInv'
  BY <1>5 DEF BackToErase
<1>6. ASSUME NEW t \in Threads, WriteFirst(t) PROVE CountersInv'
  BY <1>6 DEF WriteFirst
<1>7. ASSUME NEW t \in Threads, WriteEnable(t) PROVE CountersInv'
  BY <1>7 DEF WriteEnable
<1>8. ASSUME NEW t \in Threads, WriteSend(t) PROVE CountersInv'
  BY <1>8 DEF WriteSend
<1>9. ASSUME NEW t \in Threads, WriteAfter(t) PROVE CountersInv'
  BY <1>9 DEF WriteAfter
<1>10. ASSUME NEW t \in Threads, EraseFirst(t) PROVE CountersInv'
  BY <1>10 DEF EraseFirst
<1>11. ASSUME NEW t \in Threads, EraseEnable(t) PROVE CountersInv'
  BY <1>11 DEF EraseEnable
<1>12. ASSUME NEW t \in Threads, EraseSend(t) PROVE CountersInv'
  BY <1>12 DEF EraseSend
<1>13. ASSUME NEW t \in Threads, EraseAgain(t) PROVE CountersInv'
  BY <1>13 DEF EraseAgain
<1>14. ASSUME NEW t \in Threads, EraseWait(t) PROVE CountersInv'
  BY <1>14 DEF EraseWait
<1>15. ASSUME NEW t \in Threads, EraseSector(t) PROVE CountersInv'
  BY <1>15 DEF EraseSector
<1>16. ASSUME NEW t \in Threads, EraseSeen(t) PROVE CountersInv'
  BY <1>16 DEF EraseSeen
<1>17. ASSUME NEW t \in Threads, EraseStarted(t) PROVE CountersInv'
  BY <1>17 DEF EraseStarted
<1>18. ASSUME NEW t \in Threads, EraseEnd(t) PROVE CountersInv'
  BY <1>18 DEF EraseEnd
<1>19. ASSUME NEW t \in Threads, ChipFirst(t) PROVE CountersInv'
  BY <1>19 DEF ChipFirst
<1>20. ASSUME NEW t \in Threads, ChipEnable(t) PROVE CountersInv'
  BY <1>20 DEF ChipEnable
<1>21. ASSUME NEW t \in Threads, ChipSend(t) PROVE CountersInv'
  BY <1>21 DEF ChipSend
<1>22. ASSUME NEW t \in Threads, ChipPoll(t) PROVE CountersInv'
  BY <1>22 DEF ChipPoll
<1>23. ASSUME NEW t \in Threads, InitReset(t) PROVE CountersInv'
  BY <1>23 DEF InitReset
<1>24. ASSUME NEW t \in Threads, InitEnable(t) PROVE CountersInv'
  BY <1>24 DEF InitEnable
<1>25. ASSUME NEW t \in Threads, InitUnlock(t) PROVE CountersInv'
  BY <1>25 DEF InitUnlock
<1>26. ASSUME NEW t \in Threads, InitClear(t) PROVE CountersInv'
  BY <1>26 DEF InitClear
<1>27. ASSUME NEW t \in Threads, Disable(t) PROVE CountersInv'
  BY <1>27 DEF Disable
<1>28. ASSUME NEW t \in Threads, Read(t) PROVE CountersInv'
  BY <1>28 DEF Read
<1>29. ASSUME NEW t \in Threads, ReadSfdp(t) PROVE CountersInv'
  BY <1>29 DEF ReadSfdp
<1>30. ASSUME NEW t \in Threads, IsDirty(t) PROVE CountersInv'
  BY <1>30 DEF IsDirty
<1>31. CASE Finish
  BY <1>31 DEF Finish
<1>32. CASE Fail
  BY <1>32 DEF Fail
<1>33. CASE Restart
  BY <1>33 DEF Restart, All
<1>34. ASSUME NEW t \in Threads, NEW r \in Requests[t], Call(t, r) PROVE CountersInv'
  BY <1>34 DEF Call
<1>35. CASE UNCHANGED vars
  BY <1>35
<1>36. QED
  BY <1>1, <1>2, <1>3, <1>4, <1>5, <1>6, <1>7, <1>8, <1>9, <1>10, <1>11, <1>12,
     <1>13, <1>14, <1>15, <1>16, <1>17, <1>18, <1>19, <1>20, <1>21, <1>22, <1>23,
     <1>24, <1>25, <1>26, <1>27, <1>28, <1>29, <1>30, <1>31, <1>32, <1>33, <1>34,
     <1>35
     DEF Next, Step, WriteStep, EraseStep, LoopStep, ChipStep, InitStep

-----------------------------------------------------------------------------
(***************************************************************************)
(* How far calls get.                                                      *)
(***************************************************************************)
LEMMA RequestFacts ==
    ASSUME NEW t \in Threads, NEW r \in Requests[t] \cup {NoRequest}
    PROVE  /\ r.addr \in Nat /\ r.end \in Nat /\ r.addr <= r.end /\ r.end <= End
           /\ r.op \in {"erase", "eraseStart"} => Aligned(r.addr, SectorSize)
           /\ r.op = "erase" => Aligned(r.end, SectorSize)
<1>1. End \in Nat
  BY SizesAssumption DEF End
<1>2. CASE r = NoRequest
  BY <1>1, <1>2 DEF NoRequest
<1>3. CASE r \in Requests[t]
  <2>1. r.addr \in Addr /\ r.end \in r.addr .. End
    BY <1>3, RequestsAssumption
  <2>2. r.addr \in Nat /\ r.end \in Nat /\ r.addr <= r.end /\ r.end <= End
    BY <1>1, <2>1 DEF Addr
  <2>3. /\ r.op \in {"erase", "eraseStart"} => r.addr % SectorSize = 0
        /\ r.op = "erase" => r.end % SectorSize = 0
    BY <1>3, RequestsAssumption
  <2>4. QED
    BY <2>2, <2>3 DEF Aligned
<1>4. QED
  BY <1>2, <1>3

\* A piece of a write stays in its page and in the range, and ends at the end of
\* one of them.
LEMMA ChunkFacts ==
    ASSUME NEW t \in Threads, at[t] \in Nat, req[t].addr \in Nat, req[t].end \in Nat,
           at[t] < req[t].end, at[t] = req[t].addr \/ Aligned(at[t], PageSize)
    PROVE  /\ Chunk(t) \in Nat \ {0} /\ InPage(at[t], Chunk(t))
           /\ at[t] + Chunk(t) <= req[t].end
           /\ at[t] + Chunk(t) = req[t].end \/ Aligned(at[t] + Chunk(t), PageSize)
<1> DEFINE r == at[t] % PageSize
           room == PageSize - r
           left == req[t].end - at[t]
<1>1. PageSize \in Nat \ {0} /\ r \in 0 .. PageSize-1
  BY SizesAssumption, Division
<1>2. Chunk(t) = IF left < room THEN left ELSE room
  BY <1>1 DEF Chunk, Aligned
<1>3. Aligned(at[t] + room, PageSize)
  BY <1>1, RemainderEnds DEF Aligned
<1>4. left \in Nat \ {0} /\ room \in Nat \ {0} /\ at[t] + left = req[t].end
  BY <1>1
<1>5. InPage(at[t], Chunk(t))
  BY <1>1, <1>2, <1>4 DEF InPage
<1>6. CASE left < room
  BY <1>2, <1>4, <1>5, <1>6
<1>7. CASE ~(left < room)
  <2>1. Chunk(t) = room /\ at[t] + room <= req[t].end
    BY <1>1, <1>2, <1>4, <1>7
  <2>2. QED
    BY <1>3, <1>4, <1>5, <2>1
<1>8. QED
  BY <1>6, <1>7

\* The next sector of an erase.
LEMMA NextSector ==
    ASSUME AtInv, NEW t \in Threads, req[t].op = "erase", at[t] < req[t].end
    PROVE  /\ at[t] + SectorSize <= req[t].end
           /\ Aligned(at[t] + SectorSize, SectorSize)
<1>1. Aligned(at[t], SectorSize) /\ Aligned(req[t].end, SectorSize)
  BY RequestFacts DEF AtInv
<1>2. at[t] \in Nat /\ req[t].end \in Nat
  BY RequestFacts DEF AtInv
<1>3. SectorSize \in Nat \ {0}
  BY SizesAssumption
<1>4. QED
  BY <1>1, <1>2, <1>3, MultipleStep DEF Aligned

LEMMA AtStep == SpiInv /\ AtInv /\ [Next]_vars => AtInv'
<1> SUFFICES ASSUME SpiInv, AtInv, [Next]_vars PROVE AtInv'
  OBVIOUS
<1>0. \A t \in Threads :
        /\ req[t].addr \in Nat /\ req[t].end \in Nat /\ req[t].addr <= req[t].end
        /\ at[t] \in Nat
  BY RequestFacts DEF AtInv
<1> USE ThreadAssumption, SizesAssumption
    DEF SpiInv, Types, RetInv, OpInv, AtInv, Place, Outside, InitPlaces, OpsAt, WaitFirst,
        MorePlaces, PCs, device, thread, vars, Wait, Acquire, Goto, Result, Start, Enable
<1>1. ASSUME NEW t \in Threads, GetBus(t) PROVE AtInv'
  BY <1>1 DEF GetBus
<1>2. ASSUME NEW t \in Threads, PollAgain(t) PROVE AtInv'
  BY <1>2 DEF PollAgain
<1>3. ASSUME NEW t \in Threads, PollDone(t) PROVE AtInv'
  BY <1>3 DEF PollDone
<1>4. ASSUME NEW t \in Threads, Return(t) PROVE AtInv'
  BY <1>4 DEF Return, NoRequest, Aligned
<1>5. ASSUME NEW t \in Threads, BackToErase(t) PROVE AtInv'
  BY <1>5 DEF BackToErase
<1>6. ASSUME NEW t \in Threads, WriteFirst(t) PROVE AtInv'
  BY <1>6 DEF WriteFirst
<1>7. ASSUME NEW t \in Threads, WriteEnable(t) PROVE AtInv'
  BY <1>7 DEF WriteEnable
<1>8. ASSUME NEW t \in Threads, WriteSend(t) PROVE AtInv'
  BY <1>8 DEF WriteSend
<1>9. ASSUME NEW t \in Threads, WriteAfter(t) PROVE AtInv'
  <2> DEFINE a == at[t] + Chunk(t)
  <2>1. /\ pc[t] = "wAfter" /\ at' = [at EXCEPT ![t] = a] /\ UNCHANGED <<req, ret>>
    BY <1>9 DEF WriteAfter
  <2>2. at'[t] = a
    BY <2>1
  <2>3. \/ pc' = [pc EXCEPT ![t] = "wEnable"] /\ a < req[t].end
        \/ pc' = [pc EXCEPT ![t] = "release"]
    BY <1>9, <2>2 DEF WriteAfter
  <2>4. /\ at[t] < req[t].end /\ req[t].op = "write"
        /\ at[t] = req[t].addr \/ Aligned(at[t], PageSize)
    BY <2>1
  <2>5. Chunk(t) \in Nat /\ a <= req[t].end /\ (a = req[t].end \/ Aligned(a, PageSize))
    BY <1>0, <2>4, ChunkFacts
  <2>6. a \in req[t].addr .. req[t].end
    BY <1>0, <2>5
  <2>7. QED
    BY <2>1, <2>3, <2>4, <2>5, <2>6
<1>10. ASSUME NEW t \in Threads, EraseFirst(t) PROVE AtInv'
  BY <1>10 DEF EraseFirst
<1>11. ASSUME NEW t \in Threads, EraseEnable(t) PROVE AtInv'
  BY <1>11 DEF EraseEnable
<1>12. ASSUME NEW t \in Threads, EraseSend(t) PROVE AtInv'
  BY <1>12 DEF EraseSend
<1>13. ASSUME NEW t \in Threads, EraseAgain(t) PROVE AtInv'
  BY <1>13 DEF EraseAgain
<1>14. ASSUME NEW t \in Threads, EraseWait(t) PROVE AtInv'
  BY <1>14 DEF EraseWait
<1>15. ASSUME NEW t \in Threads, EraseSector(t) PROVE AtInv'
  BY <1>15 DEF EraseSector
<1>16. ASSUME NEW t \in Threads, EraseSeen(t) PROVE AtInv'
  BY <1>16, NextSector, <1>0 DEF EraseSeen
<1>17. ASSUME NEW t \in Threads, EraseStarted(t) PROVE AtInv'
  BY <1>17, NextSector, <1>0 DEF EraseStarted
<1>18. ASSUME NEW t \in Threads, EraseEnd(t) PROVE AtInv'
  BY <1>18 DEF EraseEnd
<1>19. ASSUME NEW t \in Threads, ChipFirst(t) PROVE AtInv'
  BY <1>19 DEF ChipFirst
<1>20. ASSUME NEW t \in Threads, ChipEnable(t) PROVE AtInv'
  BY <1>20 DEF ChipEnable
<1>21. ASSUME NEW t \in Threads, ChipSend(t) PROVE AtInv'
  BY <1>21 DEF ChipSend
<1>22. ASSUME NEW t \in Threads, ChipPoll(t) PROVE AtInv'
  BY <1>22 DEF ChipPoll
<1>23. ASSUME NEW t \in Threads, InitReset(t) PROVE AtInv'
  BY <1>23 DEF InitReset
<1>24. ASSUME NEW t \in Threads, InitEnable(t) PROVE AtInv'
  BY <1>24 DEF InitEnable
<1>25. ASSUME NEW t \in Threads, InitUnlock(t) PROVE AtInv'
  BY <1>25 DEF InitUnlock
<1>26. ASSUME NEW t \in Threads, InitClear(t) PROVE AtInv'
  BY <1>26 DEF InitClear
<1>27. ASSUME NEW t \in Threads, Disable(t) PROVE AtInv'
  BY <1>27 DEF Disable
<1>28. ASSUME NEW t \in Threads, Read(t) PROVE AtInv'
  BY <1>28 DEF Read
<1>29. ASSUME NEW t \in Threads, ReadSfdp(t) PROVE AtInv'
  BY <1>29 DEF ReadSfdp
<1>30. ASSUME NEW t \in Threads, IsDirty(t) PROVE AtInv'
  BY <1>30 DEF IsDirty
<1>31. CASE Finish
  BY <1>31 DEF Finish
<1>32. CASE Fail
  BY <1>32 DEF Fail
<1>33. CASE Restart
  BY <1>33, RequestFacts DEF Restart, All, NoRequest, Aligned
<1>34. ASSUME NEW t \in Threads, NEW r \in Requests[t], Call(t, r) PROVE AtInv'
  <2>1. /\ r.addr \in Nat /\ r.addr \in r.addr .. r.end /\ r.op \in Ops
        /\ r.op \in {"erase", "eraseStart"} => Aligned(r.addr, SectorSize)
    BY RequestsAssumption, RequestFacts
  <2>2. /\ req' = [req EXCEPT ![t] = r] /\ at' = [at EXCEPT ![t] = r.addr]
        /\ \/ r.op = "erase" /\ pc' = [pc EXCEPT ![t] = "eSector"] /\ UNCHANGED ret
           \/ /\ r.op # "erase" /\ pc' = [pc EXCEPT ![t] = "acquire"]
              /\ ret' = [ret EXCEPT ![t] = Entry[r.op]]
    BY <1>34 DEF Call
  <2>3. r.op # "erase" => /\ Entry[r.op] \notin {"wEnable", "wSend", "wAfter", "eEnd"}
                          /\ Entry[r.op] = "wFirst" => r.op = "write"
    BY <2>1 DEF Entry, Ops
  <2>4. QED
    BY <2>1, <2>2, <2>3
<1>35. CASE UNCHANGED vars
  BY <1>35
<1>36. QED
  BY <1>1, <1>2, <1>3, <1>4, <1>5, <1>6, <1>7, <1>8, <1>9, <1>10, <1>11, <1>12,
     <1>13, <1>14, <1>15, <1>16, <1>17, <1>18, <1>19, <1>20, <1>21, <1>22, <1>23,
     <1>24, <1>25, <1>26, <1>27, <1>28, <1>29, <1>30, <1>31, <1>32, <1>33, <1>34,
     <1>35
     DEF Next, Step, WriteStep, EraseStep, LoopStep, ChipStep, InitStep

-----------------------------------------------------------------------------
(***************************************************************************)
(* What the device is told to do.                                          *)
(***************************************************************************)
JobsInRange == Busy => JobRange(job)

\* The memory changes by a part of the job only.
MemoryChange == mem' = mem \/ \E n \in 0 .. job.len : mem' = After(job, n)

LEMMA SizeFacts == End \in Nat \ {0} /\ SectorSize \in 1 .. End
<1>1. Sectors \in Nat \ {0} /\ SectorSize \in Nat \ {0}
  BY SizesAssumption
<1>2. Sectors * SectorSize >= SectorSize
  BY <1>1
<1>3. QED
  BY <1>1, <1>2 DEF End

LEMMA AddrIs == Addr = 0 .. End-1
BY DEF Addr, End

LEMMA DeviceStep == SpiInv /\ AtInv /\ JobsInRange /\ [Next]_vars => JobsInRange' /\ MemoryChange
<1> SUFFICES ASSUME SpiInv, AtInv, JobsInRange, [Next]_vars PROVE JobsInRange' /\ MemoryChange
  OBVIOUS
<1>0. ASSUME NEW t \in Threads, req[t].op # "none"
      PROVE  /\ req[t] \in Requests[t]
             /\ req[t].addr \in Nat /\ req[t].end \in Nat /\ req[t].end <= End
             /\ at[t] \in Nat /\ req[t].addr <= at[t] /\ at[t] <= req[t].end
             /\ at[t] < End => at[t] \in Addr
             /\ req[t].addr \in Addr
  <2>1. req[t] \in Requests[t]
    BY <1>0 DEF AtInv, NoRequest
  <2>2. QED
    BY <2>1, RequestsAssumption, RequestFacts, SizeFacts, AddrIs DEF AtInv
<1> USE DEF JobsInRange, MemoryChange, Busy, device, thread, vars, Wait, Acquire, Goto, Result,
            Start, Enable
<1>1. ASSUME NEW t \in Threads, GetBus(t) PROVE JobsInRange' /\ MemoryChange
  BY <1>1 DEF GetBus
<1>2. ASSUME NEW t \in Threads, PollAgain(t) PROVE JobsInRange' /\ MemoryChange
  BY <1>2 DEF PollAgain
<1>3. ASSUME NEW t \in Threads, PollDone(t) PROVE JobsInRange' /\ MemoryChange
  BY <1>3 DEF PollDone
<1>4. ASSUME NEW t \in Threads, Return(t) PROVE JobsInRange' /\ MemoryChange
  BY <1>4 DEF Return
<1>5. ASSUME NEW t \in Threads, BackToErase(t) PROVE JobsInRange' /\ MemoryChange
  BY <1>5 DEF BackToErase
<1>6. ASSUME NEW t \in Threads, WriteFirst(t) PROVE JobsInRange' /\ MemoryChange
  BY <1>6 DEF WriteFirst
<1>7. ASSUME NEW t \in Threads, WriteEnable(t) PROVE JobsInRange' /\ MemoryChange
  BY <1>7 DEF WriteEnable
<1>8. ASSUME NEW t \in Threads, WriteSend(t) PROVE JobsInRange' /\ MemoryChange
  <2>1. pc[t] = "wSend"
    BY <1>8 DEF WriteSend
  <2>2. req[t].op = "write"
    BY <2>1 DEF SpiInv, OpInv, Place, OpsAt, InitPlaces
  <2>3. at[t] < req[t].end /\ (at[t] = req[t].addr \/ Aligned(at[t], PageSize))
    BY <2>1 DEF AtInv, Place
  <2>4. /\ Chunk(t) \in Nat /\ InPage(at[t], Chunk(t))
        /\ at[t] + Chunk(t) <= req[t].end /\ at[t] < End /\ Chunk(t) <= End
    BY <1>0, <2>2, <2>3, ChunkFacts, SizeFacts
  <2>5. ASSUME job' = [kind |-> "program", by |-> t, req |-> req[t], addr |-> at[t],
                       len |-> Chunk(t)]
        PROVE  JobRange(job')
    BY <1>0, <2>2, <2>4, <2>5, SizeFacts DEF JobRange
  <2>6. QED
    BY <1>8, <2>5 DEF WriteSend
<1>9. ASSUME NEW t \in Threads, WriteAfter(t) PROVE JobsInRange' /\ MemoryChange
  BY <1>9 DEF WriteAfter
<1>10. ASSUME NEW t \in Threads, EraseFirst(t) PROVE JobsInRange' /\ MemoryChange
  BY <1>10 DEF EraseFirst
<1>11. ASSUME NEW t \in Threads, EraseEnable(t) PROVE JobsInRange' /\ MemoryChange
  BY <1>11 DEF EraseEnable
<1>12. ASSUME NEW t \in Threads, EraseSend(t) PROVE JobsInRange' /\ MemoryChange
  <2>1. pc[t] = "sSend"
    BY <1>12 DEF EraseSend
  <2>2. req[t].op \in {"erase", "eraseStart"}
    BY <2>1 DEF SpiInv, OpInv, Place, OpsAt, InitPlaces
  <2>3. req[t].op = "erase" => at[t] < req[t].end
    BY <2>1 DEF AtInv, Place, MorePlaces
  <2>4. req[t].op = "erase" => at[t] + SectorSize <= req[t].end /\ at[t] < End
    BY <1>0, <2>2, <2>3, NextSector, SizeFacts
  <2>5. req[t].op = "eraseStart" => at[t] = req[t].addr
    BY DEF AtInv
  <2>6. ASSUME job' = [kind |-> "erase", by |-> t, req |-> req[t], addr |-> at[t],
                       len |-> SectorSize]
        PROVE  JobRange(job')
    BY <1>0, <2>2, <2>4, <2>5, <2>6, SizeFacts DEF JobRange
  <2>7. QED
    BY <1>12, <2>6 DEF EraseSend
<1>13. ASSUME NEW t \in Threads, EraseAgain(t) PROVE JobsInRange' /\ MemoryChange
  <2>1. pc[t] = "sAgain"
    BY <1>13 DEF EraseAgain
  <2>2. req[t].op \in {"erase", "eraseStart"}
    BY <2>1 DEF SpiInv, OpInv, Place, OpsAt, InitPlaces
  <2>3. req[t].op = "erase" => at[t] < req[t].end
    BY <2>1 DEF AtInv, Place, MorePlaces
  <2>4. req[t].op = "erase" => at[t] + SectorSize <= req[t].end /\ at[t] < End
    BY <1>0, <2>2, <2>3, NextSector, SizeFacts
  <2>5. req[t].op = "eraseStart" => at[t] = req[t].addr
    BY DEF AtInv
  <2>6. ASSUME job' = [kind |-> "erase", by |-> t, req |-> req[t], addr |-> at[t],
                       len |-> SectorSize]
        PROVE  JobRange(job')
    BY <1>0, <2>2, <2>4, <2>5, <2>6, SizeFacts DEF JobRange
  <2>7. QED
    BY <1>13, <2>6 DEF EraseAgain
<1>14. ASSUME NEW t \in Threads, EraseWait(t) PROVE JobsInRange' /\ MemoryChange
  BY <1>14 DEF EraseWait
<1>15. ASSUME NEW t \in Threads, EraseSector(t) PROVE JobsInRange' /\ MemoryChange
  BY <1>15 DEF EraseSector
<1>16. ASSUME NEW t \in Threads, EraseSeen(t) PROVE JobsInRange' /\ MemoryChange
  BY <1>16 DEF EraseSeen
<1>17. ASSUME NEW t \in Threads, EraseStarted(t) PROVE JobsInRange' /\ MemoryChange
  BY <1>17 DEF EraseStarted
<1>18. ASSUME NEW t \in Threads, EraseEnd(t) PROVE JobsInRange' /\ MemoryChange
  BY <1>18 DEF EraseEnd
<1>19. ASSUME NEW t \in Threads, ChipFirst(t) PROVE JobsInRange' /\ MemoryChange
  BY <1>19 DEF ChipFirst
<1>20. ASSUME NEW t \in Threads, ChipEnable(t) PROVE JobsInRange' /\ MemoryChange
  BY <1>20 DEF ChipEnable
<1>21. ASSUME NEW t \in Threads, ChipSend(t) PROVE JobsInRange' /\ MemoryChange
  <2>1. req[t].op = "chipErase"
    BY <1>21 DEF ChipSend, SpiInv, OpInv, Place, OpsAt, InitPlaces
  <2>2. ASSUME job' = [kind |-> "erase", by |-> t, req |-> req[t], addr |-> 0, len |-> End]
        PROVE  JobRange(job')
    BY <1>0, <2>1, <2>2, SizeFacts, AddrIs DEF JobRange
  <2>3. QED
    BY <1>21, <2>2 DEF ChipSend
<1>22. ASSUME NEW t \in Threads, ChipPoll(t) PROVE JobsInRange' /\ MemoryChange
  BY <1>22 DEF ChipPoll
<1>23. ASSUME NEW t \in Threads, InitReset(t) PROVE JobsInRange' /\ MemoryChange
  BY <1>23 DEF InitReset
<1>24. ASSUME NEW t \in Threads, InitEnable(t) PROVE JobsInRange' /\ MemoryChange
  BY <1>24 DEF InitEnable
<1>25. ASSUME NEW t \in Threads, InitUnlock(t) PROVE JobsInRange' /\ MemoryChange
  BY <1>25 DEF InitUnlock
<1>26. ASSUME NEW t \in Threads, InitClear(t) PROVE JobsInRange' /\ MemoryChange
  BY <1>26 DEF InitClear
<1>27. ASSUME NEW t \in Threads, Disable(t) PROVE JobsInRange' /\ MemoryChange
  BY <1>27 DEF Disable
<1>28. ASSUME NEW t \in Threads, Read(t) PROVE JobsInRange' /\ MemoryChange
  BY <1>28 DEF Read
<1>29. ASSUME NEW t \in Threads, ReadSfdp(t) PROVE JobsInRange' /\ MemoryChange
  BY <1>29 DEF ReadSfdp
<1>30. ASSUME NEW t \in Threads, IsDirty(t) PROVE JobsInRange' /\ MemoryChange
  BY <1>30 DEF IsDirty
<1>31. CASE Finish
  <2>1. job.len \in 0 .. job.len
    BY <1>31, SizeFacts DEF Finish, JobRange
  <2>2. QED
    BY <1>31, <2>1 DEF Finish
<1>32. CASE Fail
  <2>1. PICK n \in 0 .. job.len-1 : mem' = After(job, n)
    BY <1>32 DEF Fail
  <2>2. n \in 0 .. job.len
    BY <1>32, <2>1, SizeFacts DEF Fail, JobRange
  <2>3. QED
    BY <1>32, <2>1, <2>2 DEF Fail
<1>33. CASE Restart
  BY <1>33 DEF Restart
<1>34. ASSUME NEW t \in Threads, NEW r \in Requests[t], Call(t, r) PROVE JobsInRange' /\ MemoryChange
  BY <1>34 DEF Call
<1>35. CASE UNCHANGED vars
  BY <1>35
<1>36. QED
  BY <1>1, <1>2, <1>3, <1>4, <1>5, <1>6, <1>7, <1>8, <1>9, <1>10, <1>11, <1>12,
     <1>13, <1>14, <1>15, <1>16, <1>17, <1>18, <1>19, <1>20, <1>21, <1>22, <1>23,
     <1>24, <1>25, <1>26, <1>27, <1>28, <1>29, <1>30, <1>31, <1>32, <1>33, <1>34,
     <1>35
     DEF Next, Step, WriteStep, EraseStep, LoopStep, ChipStep, InitStep

-----------------------------------------------------------------------------
(***************************************************************************)
(* What a part of a job does to the memory.                                *)
(***************************************************************************)
\* How OnlyTheRange lets a cell change from old to new.
Allowed(r, c, old, new) ==
    CASE r.op = "write" -> /\ c \in r.addr .. r.end-1
                           /\ old \ new \subseteq Bits \ r.data[c - r.addr + 1]
                           /\ new \subseteq old
      [] r.op = "erase" -> c \in r.addr .. r.end-1 /\ new = Bits
      [] r.op = "eraseStart" -> c \in r.addr .. r.addr + SectorSize-1 /\ new = Bits
      [] r.op = "chipErase" -> new = Bits
      [] OTHER -> FALSE

\* A program that fits in its page does not wrap round.
LEMMA NoWrap ==
    ASSUME NEW a \in Nat, NEW n \in Nat, InPage(a, n), NEW i \in 1 .. n
    PROVE  Wrapped(a, i-1) = a + i - 1
<1>1. PageSize \in Nat \ {0} /\ (a % PageSize) \in 0 .. PageSize-1
  BY SizesAssumption, Division
<1>2. i-1 \in Nat /\ (a % PageSize) + (i-1) < PageSize
  BY <1>1 DEF InPage
<1>3. (a + (i-1)) % PageSize = (a % PageSize) + (i-1)
  BY <1>1, <1>2, RemainderGrows
<1>4. QED
  BY <1>1, <1>3 DEF Wrapped, PageOf

LEMMA AfterIsAllowed ==
    ASSUME mem \in [Addr -> Cell], NEW j, JobRange(j), NEW n \in 0 .. j.len
    PROVE  /\ After(j, n) \in [Addr -> Cell]
           /\ \A c \in Addr : After(j, n)[c] # mem[c]
                                 => Allowed(j.req, c, mem[c], After(j, n)[c])
<1>1. ASSUME NEW i \in 1 .. n PROVE Target(j, i) = j.addr + i - 1
  <2>1. j.addr \in Nat /\ j.len \in Nat /\ i \in 1 .. j.len
    BY <1>1, AddrIs, SizeFacts DEF JobRange
  <2>2. CASE j.kind = "program"
    BY <2>1, <2>2, NoWrap DEF Target, JobRange
  <2>3. CASE j.kind # "program"
    BY <2>1, <2>3 DEF Target
  <2>4. QED
    BY <2>2, <2>3
<1>2. ASSUME NEW c \in Addr
      PROVE  /\ After(j, n)[c] \in Cell
             /\ After(j, n)[c] # mem[c] => Allowed(j.req, c, mem[c], After(j, n)[c])
  <2>1. CASE ~ \E i \in 1 .. n : Target(j, i) = c
    BY <2>1 DEF After
  <2>2. CASE \E i \in 1 .. n : Target(j, i) = c
    <3>1. PICK i \in 1 .. n : i = CHOOSE k \in 1 .. n : Target(j, k) = c
      BY <2>2
    <3>2. Target(j, i) = c /\ c = j.addr + i - 1
      BY <1>1, <2>2, <3>1
    <3>3. After(j, n)[c] = IF j.kind = "erase" THEN Bits ELSE Programmed(j, i)
      BY <2>2, <3>1 DEF After
    <3>4. j.addr \in Nat /\ j.len \in Nat /\ i \in 1 .. j.len /\ j.req.addr \in Nat
          /\ j.req.end \in Nat
      BY AddrIs, SizeFacts, RequestFacts DEF JobRange
    <3>5. CASE j.kind = "erase"
      BY <3>2, <3>3, <3>4, <3>5 DEF JobRange, Allowed, Cell
    <3>6. CASE j.kind # "erase"
      <4>1. /\ j.req.op = "write" /\ j.req.addr <= j.addr
            /\ j.addr + j.len <= j.req.end
        BY <3>6 DEF JobRange
      <4>2. j.addr - j.req.addr + i = c - j.req.addr + 1
        BY <3>2, <3>4
      <4>3. After(j, n)[c] = mem[c] \cap j.req.data[c - j.req.addr + 1]
        BY <3>2, <3>3, <3>6, <4>2 DEF Programmed
      <4>4. c \in j.req.addr .. j.req.end-1
        BY <3>2, <3>4, <4>1
      <4>5. mem[c] \subseteq Bits
        BY DEF Cell
      <4>6. QED
        BY <4>1, <4>3, <4>4, <4>5 DEF Allowed, Cell
    <3>7. QED
      BY <3>5, <3>6
  <2>3. QED
    BY <2>1, <2>2
<1>3. After(j, n) = [c \in Addr |-> After(j, n)[c]]
  BY DEF After
<1>4. QED
  BY <1>2, <1>3

LEMMA NothingDone == mem \in [Addr -> Cell] => After(NoJob, 0) = mem
BY DEF After

LEMMA MemoryStep ==
    RangeInv /\ MemoryChange
        => /\ mem' \in [Addr -> Cell]
           /\ \A c \in Addr : mem'[c] # mem[c] => Allowed(job.req, c, mem[c], mem'[c])
<1> SUFFICES ASSUME RangeInv, MemoryChange
             PROVE  /\ mem' \in [Addr -> Cell]
                    /\ \A c \in Addr : mem'[c] # mem[c] => Allowed(job.req, c, mem[c], mem'[c])
  OBVIOUS
<1>0. mem \in [Addr -> Cell]
  BY DEF RangeInv
<1>1. CASE mem' = mem
  BY <1>0, <1>1
<1>2. ASSUME NEW n \in 0 .. job.len, mem' = After(job, n), Busy
      PROVE  /\ mem' \in [Addr -> Cell]
             /\ \A c \in Addr : mem'[c] # mem[c] => Allowed(job.req, c, mem[c], mem'[c])
  BY <1>0, <1>2, AfterIsAllowed DEF RangeInv
<1>3. ASSUME NEW n \in 0 .. job.len, mem' = After(job, n), ~Busy PROVE mem' = mem
  <2>1. job = NoJob /\ n = 0
    BY <1>3 DEF Busy, NoJob
  <2>2. QED
    BY <1>0, <1>3, <2>1, NothingDone
<1>4. QED
  BY <1>1, <1>2, <1>3 DEF MemoryChange

-----------------------------------------------------------------------------
LEMMA RangeInvariant == Spec => [](SpiInv /\ RangeInv /\ CountersInv)
<1>1. Init => RangeInv /\ CountersInv
  <2> SUFFICES ASSUME Init PROVE RangeInv /\ CountersInv
    OBVIOUS
  <2>1. AtInv
    BY DEF Init, All, AtInv, NoRequest, Place, MorePlaces
  <2>2. mem \in [Addr -> Cell] /\ ~Busy
    BY DEF Init, Cell, Busy
  <2>3. CountersInv
    <3>1. 0 \in 0 .. WipRetry /\ 0 \in 0 .. EraseWaits + ChipRetry
      BY RetryAssumption
    <3>2. QED
      BY <3>1 DEF Init, All, CountersInv
  <2>4. QED
    BY <2>1, <2>2, <2>3 DEF RangeInv
<1>2. SpiInv /\ RangeInv /\ [Next]_vars => RangeInv'
  BY AtStep, DeviceStep, MemoryStep DEF RangeInv, JobsInRange
<1>3. SpiInv /\ CountersInv /\ [Next]_vars => CountersInv'
  BY CountersStep DEF SpiInv
<1>4. QED
  BY <1>1, <1>2, <1>3, SpiInvariant, PTL DEF Spec

\* The variables keep their types; addresses stay in the device, however a range
\* ends and wherever a call is cut short.
THEOREM TypeCorrect == Spec => []TypeOK
<1>1. SpiInv /\ RangeInv /\ CountersInv => TypeOK
  <2> SUFFICES ASSUME SpiInv, RangeInv, CountersInv PROVE TypeOK
    OBVIOUS
  <2>1. at \in [Threads -> 0 .. End]
    <3>1. ASSUME NEW t \in Threads PROVE at[t] \in 0 .. End
      BY RequestFacts, SizeFacts DEF RangeInv, AtInv
    <3>2. QED
      BY <3>1 DEF RangeInv, AtInv
  <2>2. job.by \in Threads \cup {NoThread} /\ job.len \in 0 .. End
    BY SizeFacts DEF RangeInv, JobRange, Busy, NoJob
  <2>3. QED
    BY <2>1, <2>2 DEF TypeOK, SpiInv, Types, RangeInv, CountersInv
<1>2. QED
  BY <1>1, RangeInvariant, PTL

\* A cell changes only in the range of the call the device works for, and only as
\* that call may change it: the split of spiflash_write at the ends of pages never
\* lets the device wrap round (spiflash.c: spiflash_write, spiflash_sector_erase).
THEOREM AlwaysOnlyTheRange == Spec => OnlyTheRange
<1>1. SpiInv /\ RangeInv /\ [Next]_vars
        => [\A c \in Addr : mem'[c] # mem[c] => Allowed(job.req, c, mem[c], mem'[c])]_vars
  BY DeviceStep, MemoryStep DEF RangeInv, JobsInRange
<1>2. QED
  BY <1>1, RangeInvariant, PTL DEF Spec, OnlyTheRange, Allowed
=============================================================================
