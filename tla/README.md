# A TLA+ verification of nvol

nvol keeps key/value pairs in NOR FLASH. A *volume* is two sectors; records are
appended to one of them, and when it is full the live records are copied to the
other. A RAM dictionary remembers where the latest record of every key is. Around
this store are a driver for SPI NOR FLASH, two volumes with commands in a shell,
and a substitution of text that reads from them. This directory models the record
store and the FLASH driver down to their single operations, the dictionary down to
its pointers, and the shell line by line; it checks them with TLC, and proves with TLAPS
all that is safety in them, for every value of the constants.

Paths below are relative to `src/src/` of the repository.

## 1. The system

| component | state | operations | talks to |
|---|---|---|---|
| **nvol3** `nvram/nvol3.[ch]` | `NVOL3_INSTANCE_T`: sector in use, `next_idx`, counters, dictionary of `NVOL3_ENTRY_T` (record index, short values); on FLASH: sector flags and version, record flags, checksums | validate, load, reset, delete, repair, unload, record set/get/delete, entry iterators, entry save/delete | dictionary, a driver through `nvram_read/write/erase` callbacks, a `write_cb` (`nvol3_callback_tallie`) |
| **dictionary** `common/dictionary.[ch]` | hash table of singly linked chains, count, iterators | init, install, replace, lookup, get, remove, remove all, iterate (plain, or sorted by a comparison), remove and move at an iterator | heap |
| **registry** `registry/registry.[ch]` | one nvol3 volume with string keys, a strsub handler | start, stop, erase, value get/set/delete, iterate | nvol3, strsub, corshell |
| **strtab** `registry/strtab.[ch]` | one nvol3 volume with 16 bit keys, a static iterator | start, stop, erase, get, set, length, iterate | nvol3, corshell |
| **ramdrv** `drivers/ramdrv.[ch]` | an array that behaves like FLASH | read, write (AND), erase (to ones) | used by the two volumes |
| **spiflash** `drivers/spiflash.[ch]` | a NOR device behind SPI | read, page split writes, erase loop, busy polling, write protection | a platform's SPI |
| **strsub** `common/strsub.[ch]` | handler lists per token, a parser | install, uninstall, process | registry's handler |
| **corshell** `shell/corshell.[ch]`, `shell/corshellcmd.c` | list of command lists, `_corshell_status` | install, uninstall, find, run a line, run a script | commands |
| shell commands `registry/registrycmd.c`, `registry/strtabcmd.c` | none | parse arguments, call, print | registry, strtab |
| heap, debug, errordef `common/` | none | wrappers, constants | |
| test program `../test/main.c` | none | starts the modules, a console | all |

The console program is single threaded: the lock macros (`REGISTRY_LOCK` and the
like) are empty and nothing is called back asynchronously. What makes nvol3 hard is
not interleaving but **failure**: power can go between any two FLASH operations
or inside one, any driver call can return an error, and a good part of the
statuses is ignored. The second difficulty is **state kept twice**: dictionary,
`next_idx` and counters are maintained call by call and must be what a scan of
FLASH would give. The third is **capacity**: the volume is at its limits all the
time, since only a swap frees room.

`spiflash` is written for an RTOS and **concurrent** callers: its own lock is
empty too, so the mutex of the SPI bus is what keeps two threads apart, and two of
its calls let go of the bus on the way. The device works on after a command, may
fail it, and hears nothing while it works. In the shell the difficulty is
**feedback**: a line is substituted from the volumes that the commands of earlier
lines, perhaps of a script that this line runs, have changed; and **state that
outlives a script**, in `_corshell_status` and in the lists of commands and handlers.

What makes each component correct:

- nvol3: a volume is a durable map; RAM never drifts from FLASH; a record is
  written to erased FLASH only; a set that passes the full check finds a slot; a
  record index stays inside the sector; the sector in use is a finished one;
  every call returns.
- dictionary: a map; iteration visits every entry once, in order if asked, and
  survives removal and moves at the iterator.
- registry, strtab: the life cycle leaves nothing registered twice; an entry changes
  only by a command that names it; what is stored is a string.
- spiflash: a command is sent only to a device that takes it; every byte of a range
  is erased or programmed, or the call fails; nothing outside the range changes; the
  bus is given back and every call returns.
- strsub: the output is a function of the input, within the buffer.
- corshell: a command is found iff installed; a script ends; an error is reported
  by every script around it unless it was cleared.

The hazards of each component, with their lines, are the "hazards" of
`PROJECT.json`.

## 2. The modules

| module | what it is |
|---|---|
| `NvolFormat` | pure: records and sector headers, what a write, a half done write and an erase leave, how a sector is scanned, how `nvol3_validate` and `init_sectors` choose a sector |
| `Nvol` | the machine: one volume, every call on it, every FLASH operation a step, failures and loss of power; the safety and liveness properties |
| `DurableMap` | the abstract specification: a map with atomic calls that survives loss of power |
| `NvolDurable` | `Nvol` implements `DurableMap`, by refinement |
| `MCNvol` | the instances the `nvol_` runs use |
| `Dictionary` | the hash table: chains of nodes, every call on tables and iterators, one client |
| `MCDictionary` | the instances the `dict_` runs use |
| `Spiflash` | the driver, several threads in it, and the device |
| `MCSpiflash` | two threads and their calls |
| `Strsub` | handler lists, and substitution as an operator next to a definition of it on whole lines |
| `Corshell` | command lists, splitting of a line, running of scripts; extends `Strsub` |
| `Console` | the two volumes, their commands and those of the test program in that shell; extends `Corshell` |
| `MCConsole` | the lines and files the `shell` runs use |
| `NvolIndexProofs` | proofs about sector headers, types and record indexes: `SectorInUseIsValid`, `TypeCorrect`, `IndexChecksAlwaysHold` |
| `NvolRecordProofs` | proof about what records are worth, extends the last: `RecordsGoToErasedSlots`, `EntriesAreAlwaysGood`, `WriteAlwaysHasRoom` |
| `NvolDurableProofs` | proof that a volume is a durable map, extends the last and `NvolDurable`: `VolumeIsDurable`, `RamAlwaysMatchesFlash` |
| `DictionaryProofs` | proofs about chains, tables and the iterator: `DictionaryTypes`, `CountIsAlwaysRight`, `EveryEntryIsAlwaysFound`, `NothingIsEverLost`, `IterationIsComplete`, `IterationRepeatsNothing` |
| `SpiflashProofs` | proofs that the bus and the waits keep threads apart, and about addresses: `CommandsAlwaysHeard`, `AlwaysQuietAfterCall`, `BusAlwaysGivenBack`, `TypeCorrect`, `AlwaysOnlyTheRange` |
| `SpiflashStoreProofs` | proofs of what EOK is worth, extends the last: `OkWriteIsAlwaysStored`, `OkEraseIsAlwaysErased` |
| `StrsubProofs` | proof that the parser writes the substitution of the whole line: `ParseExpands` |
| `ConsoleProofs` | proofs of all that is safety in the shell, extends the last: `ListsStayExact`, `SubstitutionStaysRight`, `ErrorsStayReported`, `ValuesStayStrings`, `EntriesNamedToChange`, `ShellTypesOK`, `SplitIntoWords` |

### State

| TLA+ | code |
|---|---|
| `hdr[s]` | `NVOL3_SECTOR_RECORD_T` of sector `s`: `flags`, and whether `version` is the configured one |
| `slot[s][i]` | record `i` of sector `s`: flags, key, value, `sum` = checksum and length fit |
| `sector`, `next`, `inuse`, `invalid` | the fields of `NVOL3_INSTANCE_T`; `error` is only logged and left out |
| `idx[k]`, `local[k]` | `NVOL3_ENTRY_T.idx` and `.local` of the dictionary's entry of `k`; `NoIdx`: no entry |
| `pc`, `call`, `ret` | where in `nvol3.c` the call in progress is, which call, the last status |
| `src_i`, `dst_i`, `todo` | the loop variables of `move_sector` and `swap_sectors` |

### Actions

One action is the code from one FLASH operation that changes FLASH to just
before the next; reads belong to the action that uses them. The branches an
operation may end in (done, failed, power lost inside it) are the disjuncts of
its action and of `TornWrite`, `TornHeader`, `TornErase`.

- load: `Start` (`registry_start`, `nvol3_validate`), `ResetErase1/2`
  (`nvol3_reset`, and `nvol3_delete` as `Wipe`), `Scrub1/2`, `PlanStep`,
  `FormatErase`, `FormatValid`, `DropOther`, `Build` (`init_sectors`,
  `construct_lookup_table`)
- repair: `MoveErase`, `MoveInit`, `MoveCopy`, `MoveValid` (`move_sector`),
  `Switch`, `EraseSource` (`nvol3_repair`)
- set: `Set`, then `SwapErase`, `SwapInit`, `SwapCopy`, `SwapCopyFail`,
  `SwapValid`, `Switch`, `EraseSource` if the sector is full (`swap_sectors`,
  with its fallback to `move_sector`), then `SetFull`, `SetSame`, `WriteRecord`,
  `WriteRecordFail`, `Commit`, `CommitFail`, `Retire` (`record_set`)
- delete: `Delete`, `Remove`, `Forget` (`nvol3_record_delete`)
- `Repair`, `Reset`, `Wipe`, `Unload`: the other calls
- `Crash`, `TornWrite`, `TornHeader`, `TornErase`: loss of power

`Faults` selects what the environment may do, so that each run can say under
which failures its properties hold.

### Dictionary

`hashtab`, `count` are `struct dictionary`; `key`, `next` are the fields of the
nodes (`struct dlist`), and `used` the nodes that `malloc` has given out; `it` is
one `struct dictionary_it` with its `np`, `prev`, `idx` and whether it has a
comparison. Chains are linked through `next` as in the code, because what goes
wrong in this component is pointers; the nodes of a chain, `From(p)`, are the least
set with `p` that `next` does not lead out of, which is what a loop along `next`
visits. Each public call that changes something
is an action: `Install` (`dictionary_install_size`, `_replace`, `_lookup`),
`RemoveKey`, `RemoveAll`, `ItFirst`, `ItNext`, `ItAt`, `ItRemove`, `ItMove`. `malloc`
returns any free node, the one just freed too, or fails when there is none.

The client is any sequence of these calls, on three conditions: it does not step an
iterator whose node was freed (`Stale`); it removes or moves at an iterator
only if no entry came or went since the iterator was set (`edited`), and only at
one without a comparison; and unless `"inner"` is in `Ops` it moves only entries
at the head of their chain. The last two are what the code needs to be right,
see section 4. `seen` and `must` are ghosts that only properties
read.

### Spiflash

| TLA+ | code |
|---|---|
| `mem`, `job`, `wel`, `err`, `locked` | the device: cells, the program or erase it is busy with (WIP), WEL, E_ERR or P_ERR, the protection that `spiflash_init` lifts |
| `bus` | who holds the mutex of `spiAcquireBus` |
| `pc`, `ret` | where a thread is; where the subroutine it is in (a wait, getting the bus) goes on |
| `req`, `at` | the arguments of its call; the address it has got to |
| `count`, `tries` | the retry counters of the polls |
| `rv`, `res`, `dirty` | the status of the last wait, of the call, the result of `spiflash_is_dirty` |

A step goes from one SPI command to the next. `Call` and `Return` are the ends of a
public call; `PollAgain` and `PollDone` are `spiflash_wait_wip`; `WriteFirst` ...
`WriteAfter` are `spiflash_write`; `EraseFirst` ... `EraseWait`
`spiflash_sector_erase_start`, which `spiflash_sector_erase` (`EraseSector`,
`EraseSeen`, `EraseStarted`, `EraseEnd`) runs for every sector that `IsDirty` finds
dirty; `ChipFirst` ... `ChipPoll` `spiflash_chip_erase`; `InitReset` ... `InitClear`
`spiflash_init`. `Finish` and `Fail` are the device, `Restart` a reset of the processor,
which the device does not see until `spiflash_init` resets it. The device is external
code, modelled from what the driver relies on: a program wraps round in its page and
only clears bits, a busy device takes status reads only, a job clears WEL when it is
done and leaves it when it fails.

### Shell

A text is a sequence of characters, where a whole word of ordinary ones is one
"character"; the backslash, quotes, blanks, ends of lines, tokens and the zero byte
are themselves. `Parse` is `strsub_parse` with the buffer of `strsub_parse_string_to`,
`Split` is `corshell_cmd_split`. `head`, `after` and `nextList` are the `next` pointers of
handlers and command lists. `stack` holds a frame for each `corshell_script_run` under
way: the text it has left, `status`, `lasterror`, the error state; `pc` is where
the innermost is: `fetch` a line, `run` what it says, `ret` from a command, `end`. Each
directive and each command is an action; `source` pushes a frame (`RunNested`). `failed`,
`cleared`, `sticky` and `ended` are notes that only `ErrorsAreReported` reads.
The volumes `reg` and `str` are maps whose set fails when they are full: what `DurableMap`
says and `Nvol` is checked to implement.

### Abstractions

- A checksum or a length that does not fit, and flags the code does not know
  (`E_UNKNOWN`), are handled alike by everything modelled and are told apart
  only where the counters differ.
- The value of a record is a model value; that a checksum can be right by chance
  is left out, so a record that is the AND of two, or incomplete, is never good.
- Flags bytes: `NEW` half overwritten by `VALID` (`0xAFAF`) is read like `NEW`;
  `VALID` half overwritten by `INVALID` is `TORN` (`0xAA00`).
- `NVOL3_SECTOR_INVALID` is never written by the code; the rows of
  `init_sectors` for it are left out.
- A torn erase stops inside the header or between two records, and runs upwards.
  A torn record write leaves the flags with data that is not complete.
- `construct_lookup_table` is one step, with the marks it makes: power lost in it
  leaves any subset of them.
- `write_cb` is left out: the one the volumes are declared with,
  `nvol3_callback_tallie`, returns EOK and changes nothing. `malloc` does not fail,
  reads do not fail. `TEST_ENTRY_WRITE` is off.
- The dictionary is the map it promises. The order in which `swap_sectors`
  visits its entries depends on the hash and is any order in the model.
- The dictionary has 16 bit keys, hashed by `key % hashsize`; strings and binary
  keys differ only in hash and comparison. Values play no part. The `idx` that
  `dictionary_it_first` does not initialise is any bucket; values out of the
  table's bounds, which would write elsewhere in memory, are left out.
- Threads call `spiflash` only after `spiflash_init` has returned. Commands on the bus
  are atomic. That `spiflash_read` returns the cells is not modelled, only when it is
  sent. Chip erase on a locked or failing device returns status bits, here `EFAIL`.
  `spiflash_write` asserts that its first wait ended well: where assertions are
  compiled in, the processor stops there, with the bus taken. That is a `Restart` in that
  state, which the model has in every state; where they are not, the call returns the
  status of the wait, as `WriteFirst` has it. A processor that stops and is not
  reset is left out: nothing runs on it.
- The shell: printing is left out; numbers in text are characters with a
  value, the same for `sscanf` and for `ScanInt`, which asks for a word that is
  nothing else; the decimal and hexadecimal forms are not told apart; a word longer than
  a record of the registry, to which `registry_strsub_cb` copies it, is left out. A
  word that ends in an unterminated buffer is followed by a "junk" character or not.
  `main`'s two default entries are left out, and it does not stop and start its volumes
  while it runs: the model lets it, between lines. No line runs while `strtab` is
  stopped with its handler installed (a hazard). A file that opens can be read, and no
  file of the model sources itself: the code would recurse until the stack ends.
- strtab's volume is loaded, reset and used through the same functions; the model
  takes registry's calling sequence.

## 3. What is checked

`MCNvol.tla` with one `.cfg` a run. "Headroom" is `NVOL3_HEADROOM`, 4 in the
code, scaled down with the sector. Values: `v1` is short enough for the copy in
RAM, `v2` is not.

| run | properties | instance | faults |
|---|---|---|---|
| `nvol_power_loss` | `TypeOK`, `RamMatchesFlash`, `InUseIsValid`, `Durable` | 2 keys, 4 slots | power lost between FLASH operations and inside record writes |
| `nvol_full` | `WriteHasRoom`, `Durable` | 3 keys, 3 slots, deletes | none |
| `nvol_stale_sectors` | `EntriesAreGood`, `WritesErasedSlots` | 2 keys, 3 slots, deletes | power lost between operations and inside header writes; erases fail |
| `nvol_driver_fails` | `IndexChecksHold`, `CallsReturn` | 1 key, 2 slots, deletes | record and header writes fail; power lost inside erases |

| run | properties | instance | calls |
|---|---|---|---|
| `dict_use` | `TypeOK`, `CountIsRight`, `EveryEntryIsFound`, `NothingIsLost`, `VisitsAll`, `VisitsOnce` | 3 keys, 2 chains, 4 nodes, 2 tables | all, on the conditions of section 2 |

| run | properties | instance |
|---|---|---|
| `spiflash` | `TypeOK`, `CommandsAreHeard`, `OkWriteIsStored`, `OkEraseIsErased`, `QuietAfterCall`, `BusIsGivenBack`, `OnlyTheRange`, `CallsReturn` | 2 threads, 3 sectors of 2 cells of 1 bit, pages of 2 cells, each retry 2; jobs fail, write enables are not heard, the processor is reset |
| `shell` | `TypeOK`, `ListsAreExact`, `SubstitutionIsRight`, `ErrorsAreReported`, `StoredValuesAreStrings`, `EntriesChangeByName`, `ScriptEnds` | lines of 8 characters in a buffer of 9, 3 words a line, keys of 1 character, values of 4, 2 records a volume; the lines and files of `MCConsole`; cancels, short memory |

- **`Durable`** is the refinement: the map that the *next* load would recover
  from FLASH changes only where the abstract map may, atomically, in the call in
  progress. It says at once that swap, repair and restart lose nothing and bring
  back nothing, that a set cut short happens or does not, and that EOK means
  stored.
- **`RamMatchesFlash`**: index, `next_idx` and both counters are, after any
  history of calls, what a scan would compute.
- **`EntriesAreGood`** is what is left of it when erases fail: the dictionary
  still leads to good records of the right keys.
- **`WritesErasedSlots`**: no record is ANDed with an older one, in spite of half
  initialised and unerased destination sectors. An erase that is cut short is not among
  the faults: with it records are (`nvol_torn_erase`).
- **`WriteHasRoom`**: the headroom of the full check is what guarantees a slot
  after a swap.
- **`InUseIsValid`**, **`IndexChecksHold`**: see section 5.
- **`VisitsOnce`**, **`VisitsAll`**: iterating is sound while keys come and go,
  which `registry_first` and `registry_next` rely on.
- **`CountIsRight`** is what `dictionary_remove_all` asserts, at any time;
  **`EveryEntryIsFound`** and **`NothingIsLost`** say that the chains are right
  after edits at an iterator.
- **`CallsReturn`** assumes `WF_vars(Step)`: a call in progress goes on. There is
  one thread, no lock and no wait, so the processor executes the next statement
  unless power is lost. The client is under no obligation.

For `spiflash`:

- **`CommandsAreHeard`**: a program or erase is sent only to a device that is
  quiet, write enabled and unlocked, whatever other threads left behind when the bus
  was free. Everything else rests on it, because the device does not say that it
  ignored a command.
- **`OkWriteIsStored`**, **`OkEraseIsErased`**: what EOK is worth. The first leaves out calls
  with an unheard write enable, whose status the code loses; the second allows for
  cells of the sector the device is still erasing for this call, and leaves out jobs the
  device failed, whose status it ignores.
- **`QuietAfterCall`**: a write or chip erase that returns EOK has left no work of its own.
- **`BusIsGivenBack`**: no call but a chip erase that could not start keeps the bus.
- **`OnlyTheRange`**: cells change only inside the range of a call; this is what the
  split at pages is for. Threads own different sectors, as the two volumes do.
- **`CallsReturn`** assumes that a thread in a call gets to run (`WF_vars(Step(t))`) and
  that the mutex is fair (`SF_vars(GetBus(t))`, as the queue of a mutex makes it: the bus
  may be free and taken again many times). The device owes nothing: it may be busy for
  ever, since every poll is counted. The exception is a bus kept by a chip erase.
  Deadlock is not checked in this run: that kept bus is one.

For the shell:

- **`ListsAreExact`**: the linked lists are, after any order of starts and stops, what was
  started and not stopped, in order.
- **`SubstitutionIsRight`** compares `Parse`, a character at a time in a bounded buffer, with
  `Expand`, which says for a whole line what it is replaced by. The lines hold every text of
  three of the characters word, `[`, `]`, backslash with an opening token in it, with
  values that contain zeros.
- **`ErrorsAreReported`**: what the result of a script says about the commands in it, through
  `:onerror`, `:clearerror`, cancels and nested scripts that share `_corshell_status`. It
  leaves out what the code gets wrong: scripts that begin with an error nobody cleared,
  and those whose error an inner script cleared.
- **`StoredValuesAreStrings`**: although zeros are substituted into lines, none gets into
  the middle of a value.
- **`EntriesChangeByName`**: the registry changes by a command of a running script that names
  the entry, never by one that is skipped, and `regadd` never overwrites, however keys are cut.
- **`ScriptEnds`** assumes weak fairness of the steps of a script: the shell is a loop
  in one thread. Files do not source each other in a circle. Deadlock is not checked,
  because `exit` ends the program.

**Why the bounds are enough.** The code treats records one at a time and compares
keys for equality only. One key with two slots already gives a full sector, a
swap, a half copied destination, and every pair of sector flags; a second key is
needed for the order of copying and for records that must survive another key's
update; with two keys and four slots a sector holds a live, an invalid, an
incomplete and an erased slot at once. Three keys in three slots reach the full
check. There is no counter to bound: `next` is at most `N` plus failed writes
between two swaps, and the counters of records follow it; every run finishes
with its complete state space. Deadlock is checked in all `nvol_` and `dict_` runs.

In `spiflash` a write of three cells from the second cell of a page has a short first
piece, a second page and, if cut wrongly, a wrap onto a cell it does not own; two
sectors in one erase give a step between them; a retry of 2 is one repetition and one
time out. Two threads are enough for one to come in whenever the other lets go of the
bus. In `shell`, lines of 8 are cut by the buffer of 9 once a value is longer than its
word, two records make a volume full, keys of one character are cut, and nesting goes
three deep.

The dictionary's hazards need a chain of two entries and a second chain
behind it: the keys 1, 2, 4 in two chains have both. Four nodes are enough for
all of them and one copy in the other table, and run out with one more.
Addresses are symmetric, and the run uses that.

**What is asked only without some failures**, because the code promises no more:
`Durable` does not hold when erases, headers or record writes fail without loss
of power (ignored statuses: a failed INVALID mark, a failed erase of the source
after the switch), nor `EntriesAreGood` when headers or record writes fail. These
are hazards in `PROJECT.json`, with notes. `nvol_power_loss` has no deletes and no
torn headers because of the first two findings below.

## 4. Findings

The repository's `README.md` promises "robustness against power failures and
asynchronous resets" and "automatic recovery of corrupt sectors or entries during
startup". Three runs that expect a violation show where the code falls short; a
fourth violates an assertion of `common/dictionary.c`, a fifth the example in
`common/strsub.h`.

- `nvol_delete_after_crash`: power is lost after the new record of a key is
  VALID and before the old one is INVALID. The next load uses the later one
  and leaves the older VALID. A delete marks only the later one. After the
  next start the key is back, with its older value.
- `nvol_torn_header`: sector 2 is in use and sector 1 is being marked
  INITIALIZING; power is lost after the flags and before the version.
  `nvol3_validate` lets the first sector with known flags decide, answers
  `E_VERSION`, and `registry_start` resets the volume, sector 2 included.
- `nvol_torn_erase`: an erase is cut short behind the header. The sector looks
  EMPTY, is not erased again when it becomes the destination of a swap, and
  records are programmed over old ones. `nvol3_record_set` returns EOK and the
  record is bad.

- `dict_move_inner`: `dictionary_it_move` puts the old `prev` back after the
  iterator may have gone on to another chain. If an entry stayed behind, because
  the other table has its key, a later move leaves its entry linked in both tables.
  Related: an iterator with a comparison has no `prev`, and after
  `dictionary_it_first` perhaps no initialised `idx`, and both this function and
  `dictionary_it_remove` unlink by them.
  Nothing in the repository calls these two functions today.

- `shell_text_after_substitution`: `common/strsub.h` explains the module with "The name
  of the module is [name].". The registry's commands store a value with its
  terminating zero, its handler substitutes the zero too, and `corshell_cmd_split`
  stops at it: of "echo [k] is [k]" only "echo x" is run.

## 5. What is proved

All invariants below were model checked before they were proved. The last step
of each theorem is propositional temporal logic over `Init => Inv` and
`Inv /\ [Next]_vars => Inv'`.

### The record store

For every number of keys, values and records, with the named assumptions of the
modules (`N` at least 1, headroom in `1..N`, finitely many keys, `NoKey` and
`NoVal` different from keys and values).

**`SectorInUseIsValid`** (`NvolIndexProofs`): `Spec => []InUseIsValid`, if the
driver fails neither erases nor header writes; power may be lost anywhere
(`nvol_power_loss` checks the property between operations and inside record writes). The
invariant alone is not inductive: that the switch at the end of a copy finds a
valid destination depends on the whole path. `HdrInv` adds
- `HdrTypes`: the types of `hdr`, `sector` and `pc`;
- `Sector2`: a sector 2 that is VALID has the right version. Only sector 1 is ever
  formatted in one go; everywhere else flags and version were completed as INIT
  before VALID is written, so only sector 1 can be VALID without its version;
- `LoadInv`: at the start of `init_sectors` the volume is one `nvol3_validate`
  accepts, or both sectors are erased, and a format happens only in the latter;
- `UseInv`: at every place but those where a load repairs an unfinished sector,
  the sector in use is VALID with its version;
- `CopyInv`: the destination is EMPTY, then INIT, then VALID as a copy advances.

The lemmas below it say what `Validate`, `Plan` and a torn header write can
return (`ValidateEOK`, `PlanOfAccepted`, `TornHdrsType`, `ScrubAccepted`);
`HdrStep` has one step per action.

**`TypeCorrect`**, **`IndexChecksAlwaysHold`** (`NvolIndexProofs`):
`Spec => []TypeOK` and `Spec => []IndexChecksHold` under *every* combination of
faults. The second says that no index the code computes itself fails the
`DBG_CHECK_NVOL3` of the record routines. It is not obvious, since after a failure
the dictionary and the sectors may disagree. `IndexInv` adds to the types
- `CountInv`: the dictionary has at most `N` entries, and fewer than `N` once
  `record_set` is past the full check;
- `RecordInv`: `record_set` commits at a slot of the sector, and a delete
  goes to the index of an entry;
- `CopyIndexInv`: in `move_sector` the destination index never overtakes the
  source index; in `swap_sectors` destination index and entries still to copy
  are together at most `N`, which is a statement on cardinalities (hence
  `KeysFinite` and `LookupCount`).

**`RecordsGoToErasedSlots`**, **`EntriesAreAlwaysGood`**, **`WriteAlwaysHasRoom`**
(`NvolRecordProofs`): `Spec => WritesErasedSlots`, `Spec => []EntriesAreGood` and
`Spec => []WriteHasRoom`, if the driver fails neither record nor header writes and no
erase is cut short (`WritesWork`); power may be lost anywhere else, also inside a write,
and erases may fail. The three need each other: a record goes to an erased slot because
`next_idx` counts the used ones, an entry stays good because no slot is written twice,
and the swap finds all entries good and so copies exactly them. `RecordsInv` adds to `IndexInv`
- `SlotInv`: the slots in use are the first ones, and a sector whose header reads as
  erased or garbage has none: what `init_sectors` takes for empty may be written;
- `HeadersInv`, `CallInv`: how far the destination of a copy is, in its header and in
  its slots, and which call is where; a swap never falls back on `move_sector`
  (`SwapNeverFallsBack`);
- `LoadedInv`: wherever RAM describes the sector in use, `next_idx` is the number of its
  used slots and every entry is good, but for the keys a swap has copied already and the
  key a delete has just retired;
- `SetInv`: the record a set is writing is NEW, then VALID and no entry's yet;
- `SwapInv`, `RoomInv`: the swap has written one record for each entry it has copied,
  each with an entry after the switch, so at the write either the sector has room or
  there are as many entries as records, which the full check refuses.

The lemmas before the steps say what each FLASH operation does to the slots
(`SetSlotKeeps`, `EraseKeeps`, `HeaderKeeps`, `MarkBadKeeps`) and that
`construct_lookup_table` makes RAM describe its sector (`ScannedIs`, `ConstructIs`).

**`VolumeIsDurable`**, **`RamAlwaysMatchesFlash`** (`NvolDurableProofs`): `Spec => Durable`, that is
`Spec => Map!Spec`, and `Spec => []RamMatchesFlash`. The hypothesis `Benign` is where
`nvol_power_loss` and `nvol_full` check them: power may be lost at any FLASH operation and
inside the write of any record and nothing is deleted, or everything may be deleted and
nothing fails. It cannot be dropped: with deletes and a loss of power a deleted key comes
back (`nvol_delete_after_crash`), a torn header or a failing driver loses the map.

What the next load would bring back depends on both sectors, so the invariant says what
each is worth at any time. `MapInv` adds to `RecordsInv` and `HdrInv`
- `HdrsOK`, `Twins`: both sectors are erased, or one is finished; two finished sectors hold
  the same map, so that it does not matter which one `init_sectors` takes;
- `WhereInv`, `AloneInv`, `FreshInv`: where in a call the other sector is erased, and that
  `nvol3_reset` runs at a load only on a volume that has never been used;
- `TableInv`, `CountersInv`: the dictionary and the counters are what
  `construct_lookup_table` would make of the sector in use, but for the key whose record was
  written or marked just before, and for the entries a swap has moved;
- `SingleInv`: if nothing fails, a key has one good record, but for the moment between VALID
  on the new and INVALID on the old one. Without it a delete would uncover an older record;
- `MovedInv`, `SwappedInv`: a copy in progress holds what the records, or the entries, so
  far say, so that a finished copy is a twin.

There is a lemma for every action: it keeps `MapInv`, and it is the step of the map it should
be. Only the write of VALID in `Commit`, that of INVALID in `Remove` and the erases of a reset
change `Store`, to the `Effect` of the call; a return finds the effect there; every other step, also
one that power cuts short, leaves `Store` as it is. These rest on what one write does to the
map a sector holds: `Appended`, `Dropped`, `SameLive`. `MapStep` puts them together.

### The dictionary

For every finite set of keys, size of the table and number of nodes, one table or two, and
every choice of calls `Ops` without `"inner"`: that is the move of an entry that is not
the head of its chain, which breaks all of this (`dict_move_inner`). The client keeps to the
conditions of section 2. All six theorems follow from `DictInv`, which `DictNext` shows to
hold after every step:
- `Sound`: no chain runs in a circle (`Acyclic`), every entry is in the chain of its hash and
  no key is there twice (`Filed`), no entry is in two tables (`Apart`). An entry is found
  because its chain holds it and no other of its key; that a chain does not run in a circle
  is what makes a node have one predecessor, so that unlinking by it takes out
  one node and no more;
- `TableInv`: besides, the nodes in use are those of the chains, and count says how many;
- `ItInv`: `Placed`, the iterator is at an entry of table 1, without a comparison in the
  bucket `idx`; `AtPrev`, `prev` is the node before it for as long as no entry came or went;
  `Unseen`, no key ahead of it was returned; `Owed`, every key that must still be
  returned is ahead of it. Ahead means the rest of its chain or a later bucket, or with
  a comparison a greater key. `VisitsOnce` and `VisitsAll` are not inductive without these:
  nothing else says what an iterator in the middle of a chain will come to.

The proofs are in three layers. About any function `nx` of nodes: what is reachable from
a node (`ReachStep`, `ReachOrder`, `OneBefore`, `SomeBefore`) and what it becomes when a node is
taken out (`ReachUnlinked`). About tables: `UnlinkSound` and `PushSound`, of which every
edit is made, the move of an entry being one of each. About the iterator: where `_it_next`
goes (`PlainCases`), what it has then returned and still owes (`PlainStep`, `SortedStep`), and
that it is as right as before when nodes it is not at leave the table (`ItAfterShrinking`).
Of `Least` and `Min` the proofs need that sets of natural numbers have a least element.

### The FLASH driver

For every number of threads, bits, sectors, pages and retries, and every fault,
from the named assumptions of `Spiflash`: sizes are positive and a sector is whole
pages and words; retries are positive; `NoThread` is no thread; the chip is one of
the three kinds; requests lie in the device, and those that erase are aligned, which
`spiflash.c` leaves to its callers.

**`CommandsAlwaysHeard`**, **`AlwaysQuietAfterCall`**, **`BusAlwaysGivenBack`**
(`SpiflashProofs`). That a command finds the device quiet depends on the whole path
from the wait before it, with the bus kept all the way. `SpiInv` says so:
- `BusInv`: a thread that talks to the device has the bus, so it is the only one;
- `RetInv`, `OpInv`: a thread waits or gets the bus on behalf of a place of its own call;
- `QuietInv`: from a wait that ended well to the next command the device is quiet,
  and enabled for writing once `spiflash_write_enable` has read it so;
- `ReleaseInv`, `JobInv`: what a status says about the device when a call is about to
  give the bus back;
- `InitInv`: `spiflash_init` runs alone, and unlocks the device if it was heard.

**`TypeCorrect`**, **`AlwaysOnlyTheRange`** (`SpiflashProofs`). `AtInv` is how far a call has
got: a write at its first byte or at the beginning of a page, an erase at the beginning
of a sector, neither past its end. `RangeInv` adds that what the device is busy with
lies in the range of its call, and a program inside one page. It is
arithmetic that makes this inductive: `RemainderGrows` and `RemainderEnds` (no piece
wraps, and the next one starts a page), `MultipleStep` (a loop in steps of a sector
ends at an aligned end and not beyond it). `AfterIsAllowed` turns it into what the
memory does, also when a job is cut short.

**`OkWriteIsAlwaysStored`** (`SpiflashStoreProofs`). While a write waits for a piece, the device is
busy with that very piece, has failed it, or has done it; `StoreInv` says this and that
the pieces before it are in the memory. Nothing is assumed about other threads: they
may write to the same cells, which only clears bits, and cannot erase
them while the bus is kept, because the wait comes before every command.

**`OkEraseIsAlwaysErased`** (`SpiflashStoreProofs`). An erase does let go of the bus between
sectors, so it needs `Disjoint`: nobody writes to what another thread erases, as
the volumes share no sector. `EraseInv` says that all sectors up to the
loop's address are blank or being erased, the present one too once it was found clean
or its erase was started, and that the device is not at work for an earlier write of
the same thread that timed out.

### The shell

For any characters and numbers, any texts given to it or found in files, any sizes of
lines, buffers, keys and values, any commands in the lists, cancels, short memory, and
starts and stops in any order between the lines. The named assumptions are those of `Strsub`,
`Corshell` and `Console`: sizes are positive, the special characters are among
the characters, the two volumes have a handler and a list each, handlers and lists
are finite, what is no handler and no list is none, and a text given to the shell is a
string: a zero comes into a line only by substitution.

**`ParseExpands`** (`StrsubProofs`). `strsub_parse` takes a character at a time and copies into a
buffer that may be full; `Expand` says of the whole line, from each place on, what becomes of
it. The parser's state after `i` characters is in `Scanned`: `LeadsTo` says that what
was written, with what `Expand` makes of the line from the place the parser owes (the
opening token when it is inside a word, the backslash when it is behind one), comes to the
expansion of the line, cut to the buffer. Once full, what was written is all of that.
The step keeps it in each of the three states. `Expand` is a recursive function, chosen to
satisfy its definition, so that one exists has to be proved first (`ExpansionExists`):
the value at a place depends on places behind it only. The induction over the line,
which the prover has no rule for, is a set of numbers without a smallest one
missing (`UpTo`), and the same with a function per step (`IterationExists`).

The six properties of `Console` (`ConsoleProofs`) follow from one invariant, `ShellInv`:
- `ShellTypes`, `LineTypes`: the types of frames and lines. `SplitIntoWords` is what they
  rest on: however a zero got into a line by substitution, no word holds one, because
  the split stops there, so `IsValue` holds of every word that is stored with its own zero;
- `ErrorsKept`: for every frame on the stack, a script that met an error and did not clear
  it has one in `lasterror`, or the status of the shell is one. `_corshell_status`
  is shared, and `:clearerror` in a nested script resets it for the callers too, which
  is why they are marked `cleared`. A script that met none has `lasterror` EOK, and while it
  runs so is the status, unless it was left by somebody before, or its command has just failed.
  `ErrorsAreReported` speaks of scripts that have ended and is not inductive without this;
- `VolumeTypes`: keys and values of both volumes, and no value is empty: `regadd`
  takes an empty answer for a key that is not there;
- `ListTypes`: which handler is first for a token, and that no handler has one behind it,
  so that taking one out leaves nothing linked that was stopped;
- `Links`: the five orders in which the lists of commands may be linked, pointer by pointer. From
  it what a walk meets is computed (`WalkOfShort`, `LinkedInOrder`), and from that where
  install appends and what uninstall takes out;
- `SubstitutionIsRight` itself: from a fetch to its command no step touches handlers or volumes.

There is a lemma for every action. `EntriesNamedToChange` is `Changes`, which says of a
command the keys it may touch at most, with `Named`.

Two definitions of the model had to be made more exact for the proof. In `SplitStep` and
`SetResult` arms of a `CASE` overlapped: TLC takes the first, as the code does, but the
definition says any; both are `IF` chains now, in the order of the code.

### Only model checked

The liveness properties, which are out of the prover's reach.

## 6. Not modelled

- `nvol3_entry_save`, `nvol3_entry_delete` and the iterators of nvol3 (`nvol3.c:505-745`):
  they need the nodes of Dictionary inside Nvol, whose states would multiply.
  What they iterate with is modelled in Dictionary; that `nvol3_entry_save` uses a node
  which its own swap has freed is a hazard without a property.
- allocation failures in nvol3, and transient read failures of the driver.
- ramdrv's address checks: below the abstraction of a record.
- `registry_first`, `registry_next` and their like in strtab, `strtab_length`,
  `spiflash_test`: they change nothing but an iterator or nothing at all.
- heap, debug, errordef, formatting and printing.
