------------------------------ MODULE Console -------------------------------
(***************************************************************************)
(* The registry and the string table (registry/registry.c, strtab.c) with  *)
(* their commands (registrycmd.c, strtabcmd.c), in the shell of the test   *)
(* program (test/main.c).  Both volumes are maps here, what nvol3 is shown *)
(* to keep in DurableMap; starting one installs its commands and, for the  *)
(* registry, its handler of [words].  A line given to the shell may set    *)
(* entries, and substitutes what is in them.                               *)
(*                                                                         *)
(* The program may start and stop the two while no script runs.            *)
(*                                                                         *)
(* The definitions named ...Wrong, here and in the modules extended, are   *)
(* deliberate errors, for the mutants of the checks.                       *)
(***************************************************************************)
EXTENDS Corshell

CONSTANTS
    Lines,          \* the texts given to the shell
    Files,          \* the scripts that "source" finds: a function to texts
    KeyLength,      \* REGISTRY_KEY_LENGTH
    ValueMax,       \* REGISTRY_VALUE_LENGT_MAX, STRTAB_LENGT_MAX
    Capacity,       \* the records a volume takes before it is full
    Wide,           \* the keys of the string table: 2^16
    MayStop         \* whether what is started may be stopped, and the shell left

ASSUME SizesAssumption == {KeyLength, ValueMax, Capacity, Wide} \subseteq Nat \ {0}
ASSUME NamesAssumption == {"registry", "strtab"} \subseteq Handlers \cap Lists
\* A text given to the shell is a string, with no zero in it.
ASSUME TextsAssumption ==
    /\ Lines \subseteq Seq(Chars \ {"nul"})
    /\ \A name \in DOMAIN Files : Files[name] \in Seq(Chars \ {"nul"})

VARIABLES
    reg, str,       \* the volumes: whether loaded, and the map
    inited,         \* strtab_init has run
    shellExit,      \* _shell_exit
    started         \* the lists started and not stopped, in order

vars == <<head, after, nextList, stack, pc, line, text, argv, ret, corshellStatus,
          ended, reg, str, inited, shellExit, started>>
volumeVars == <<reg, str, inited, shellExit, started>>

Empty == [loaded |-> FALSE, map |-> [k \in {} |-> <<>>]]

Init ==
    /\ StrsubInit /\ CorshellInit
    /\ reg = Empty /\ str = Empty
    /\ inited = FALSE /\ shellExit = FALSE /\ started = <<>>

-----------------------------------------------------------------------------
(* The volumes.                                                            *)

\* _setkey: what fits of a key.
Key(word) == Cut(word, KeyLength)

RegGetWrong(word) == IF word \in DOMAIN reg.map THEN reg.map[word] ELSE <<>>

\* The value of a key, empty when it has none.
RegGet(word) ==
    IF Key(word) \in DOMAIN reg.map THEN reg.map[Key(word)] ELSE <<>>

\* A word is stored with its zero.  A full volume takes nothing, not even for a
\* key it has.
SetResult(v, word) ==
    IF Len(word) + 1 > ValueMax THEN E_PARM
    ELSE IF Cardinality(DOMAIN v.map) >= Capacity THEN EFAIL ELSE EOK
Set(v, k, word) ==
    IF SetResult(v, word) # EOK THEN v
    ELSE [v EXCEPT !.map = [x \in DOMAIN @ \cup {k} |->
                               IF x = k THEN Append(word, "nul") ELSE @[x]]]
Delete(v, k) == [v EXCEPT !.map = [x \in DOMAIN @ \ {k} |-> @[x]]]
Erase(v) == [v EXCEPT !.map = [k \in {} |-> <<>>]]

\* strtab_set.
StrtabSet(k, word) == Set(str, k, word)

\* strtab_strsub_cb.  The key is not cut to 16 bits here, as the commands cut it.
StrtabAnswer(word) ==
    IF IsNumber(word) /\ Number(word) \in DOMAIN str.map THEN str.map[Number(word)]
    ELSE <<>>

\* What the handlers of the two volumes make of a word; that of the registry is
\* registry_strsub_cb.
Answer(h, word) == IF h = "registry" THEN RegGet(word) ELSE StrtabAnswer(word)

\* The answers for the words of a line.
Answers(l) == [h \in Handlers |-> [word \in Words(l) |-> Answer(h, word)]]

\* What is started without one of the lists.
Stopped(l) == RemoveAt(started, CHOOSE i \in DOMAIN started : started[i] = l)

RegistryStart ==
    /\ pc = "idle" /\ ~shellExit /\ ~reg.loaded
    /\ reg' = [reg EXCEPT !.loaded = TRUE]
    /\ InstallHandler("square", "registry")
    /\ InstallList("registry")
    /\ started' = Append(started, "registry")
    /\ UNCHANGED <<stack, pc, line, text, argv, ret, corshellStatus, ended, str,
                   inited, shellExit>>

RegistryStop ==
    /\ pc = "idle" /\ MayStop /\ reg.loaded
    /\ shellExit => ~str.loaded
    /\ UninstallHandler("square", "registry")
    /\ UninstallList("registry")
    /\ reg' = [reg EXCEPT !.loaded = FALSE]
    /\ started' = Stopped("registry")
    /\ UNCHANGED <<stack, pc, line, text, argv, ret, corshellStatus, ended, str,
                   inited, shellExit>>

StrtabInit ==
    /\ pc = "idle" /\ ~shellExit /\ ~inited
    /\ InstallHandler("angle", "strtab")
    /\ inited' = TRUE
    /\ UNCHANGED <<shellVars, reg, str, shellExit, started>>

StrtabStart ==
    /\ pc = "idle" /\ ~shellExit /\ inited /\ ~str.loaded
    /\ str' = [str EXCEPT !.loaded = TRUE]
    /\ InstallList("strtab")
    /\ started' = Append(started, "strtab")
    /\ UNCHANGED <<strsubVars, stack, pc, line, text, argv, ret, corshellStatus,
                   ended, reg, inited, shellExit>>

\* The handler stays.
StrtabStop ==
    /\ pc = "idle" /\ MayStop /\ str.loaded
    /\ UninstallList("strtab")
    /\ str' = [str EXCEPT !.loaded = FALSE]
    /\ started' = Stopped("strtab")
    /\ UNCHANGED <<strsubVars, stack, pc, line, text, argv, ret, corshellStatus,
                   ended, reg, inited, shellExit>>

-----------------------------------------------------------------------------
(* The commands of the registry.                                           *)

SameVolumes == UNCHANGED <<strsubVars, volumeVars>>
OnlyRegistry == UNCHANGED <<strsubVars, str, inited, shellExit, started>>

\* With a key and a value it sets; the result is printed and not returned.
Reg ==
    /\ Command({"reg"})
    /\ reg' = IF Len(argv) = 3 THEN Set(reg, Key(argv[2]), argv[3]) ELSE reg
    /\ Returns(EOK) /\ OnlyRegistry

RegAdd ==
    /\ Command({"regadd"})
    /\ CASE Len(argv) < 3 -> Returns(PARMS) /\ UNCHANGED reg
         [] Len(argv) >= 3 /\ RegGet(argv[2]) # <<>> -> Returns(EXIST) /\ UNCHANGED reg
         [] OTHER -> /\ reg' = Set(reg, Key(argv[2]), argv[3])
                     /\ Returns(SetResult(reg, argv[3]))
    /\ OnlyRegistry

RegDel ==
    /\ Command({"regdel"})
    /\ reg' = IF Len(argv) = 2 THEN Delete(reg, Key(argv[2])) ELSE reg
    /\ Returns(IF Len(argv) = 2 THEN EOK ELSE PARMS) /\ OnlyRegistry

RegErase == Command({"regerase"}) /\ reg' = Erase(reg) /\ Returns(EOK) /\ OnlyRegistry

\* It sets an entry of its own, over and over, and deletes it.
RegTest ==
    /\ Command({"regtest"})
    /\ LET res == SetResult(reg, <<"000000000000">>)
       IN  /\ reg' = IF res < 0 THEN reg ELSE Delete(reg, <<"___test___">>)
           /\ Returns(IF res < 0 THEN EFAIL ELSE EOK)
    /\ OnlyRegistry

RegStats == Command({"regstats", "strtabstats"}) /\ Returns(EOK) /\ SameVolumes

-----------------------------------------------------------------------------
(* The commands of the string table.                                       *)

OnlyStrtab == UNCHANGED <<strsubVars, reg, inited, shellExit, started>>

StrtabKeyWrong(word) == Number(word)
StrtabKey(word) == Number(word) % Wide

Strtab ==
    /\ Command({"strtab"})
    /\ str' = IF Len(argv) > 2 THEN StrtabSet(StrtabKey(argv[2]), argv[3]) ELSE str
    /\ Returns(EOK) /\ OnlyStrtab

\* Sets an entry that is not there.  strtab_valid looks for a key of 32 bits where
\* it has 16, so it may miss one that is.
StrtabChk ==
    /\ Command({"strtabchk"})
    /\ \E found \in {FALSE, Len(argv) > 1 /\ StrtabKey(argv[2]) \in DOMAIN str.map} :
        str' = IF Len(argv) > 2 /\ ~found
                 THEN StrtabSet(StrtabKey(argv[2]), argv[3]) ELSE str
    /\ Returns(EOK) /\ OnlyStrtab

StrtabErase == Command({"strtaberase"}) /\ str' = Erase(str) /\ Returns(EOK) /\ OnlyStrtab

-----------------------------------------------------------------------------
(* The commands of the test program, and the program itself.               *)

\* echo only prints; the others meet the file system.
Echo == Command({"echo"}) /\ Returns(EOK) /\ SameVolumes

FileCommand ==
    /\ Command({"ls", "cd", "pwd"})
    /\ IF argv[1] = <<"cd">> /\ Len(argv) < 2 THEN Returns(PARMS)
       ELSE \E res \in {EOK, EFAIL} : Returns(res)
    /\ SameVolumes

\* What read_file may return, for any file; EOK stands for its length.
ReadResults == {EOK, EFAIL, NOT_FOUND, MEMORY, EOF}

Cat ==
    /\ Command({"cat"})
    /\ \E res \in IF Len(argv) < 2 THEN {PARMS} ELSE ReadResults : Returns(res)
    /\ SameVolumes

\* A file that can be opened can be read.
Source ==
    /\ Command({"source", "."})
    /\ CASE Len(argv) < 2 -> Returns(PARMS)
         [] Len(argv) >= 2 /\ argv[2] \notin DOMAIN Files -> Returns(NOT_FOUND)
         [] Len(argv) >= 2 /\ argv[2] \in DOMAIN Files ->
                IF Files[argv[2]] = <<>> THEN Returns(EOF)
                ELSE RunNested(Files[argv[2]])
    /\ SameVolumes

Exit ==
    /\ Command({"exit"}) /\ MayStop
    /\ shellExit' = TRUE
    /\ Returns(EOK)
    /\ UNCHANGED <<strsubVars, reg, str, inited, started>>

\* A line is read and run, and the next one.  None is run while the handler of the
\* string table has no volume behind it.
Prompt ==
    /\ ~shellExit
    /\ inited => str.loaded
    /\ \E script \in Lines : ScriptStart(script)
    /\ SameVolumes

Script ==
    /\ \/ pc = "fetch" /\ \E l \in {Reached} : \E answer \in {Answers(l)} : Fetch(answer)
       \/ EmptyLine \/ ScriptExit \/ OnError \/ ClearError
       \/ SkipLine \/ Comment \/ NotFound \/ Usage \/ Help \/ Version \/ Nop
       \/ AfterCommand \/ ScriptEnd
    /\ SameVolumes

Commands ==
    \/ Reg \/ RegAdd \/ RegDel \/ RegErase \/ RegTest \/ RegStats
    \/ Strtab \/ StrtabChk \/ StrtabErase
    \/ Echo \/ FileCommand \/ Cat \/ Source \/ Exit

Starts == RegistryStart \/ RegistryStop \/ StrtabInit \/ StrtabStart \/ StrtabStop

Next ==
    \/ Starts \/ Prompt \/ Script \/ Commands
    \/ ClearLastError /\ SameVolumes

Spec == Init /\ [][Next]_vars

\* A script that runs goes on: nothing else runs meanwhile.
FairSpec == Spec /\ WF_vars(Script \/ Commands)

-----------------------------------------------------------------------------
IsVolume(v) == DOMAIN v = {"loaded", "map"} /\ v.loaded \in BOOLEAN

TypeOK ==
    /\ pc \in {"idle", "fetch", "run", "ret", "end"}
    /\ (pc = "idle") = (stack = <<>>)
    /\ pc # "run" => argv = <<>> /\ line = <<>> /\ text = <<>>
    /\ Len(line) <= LineMax /\ Len(text) < SubMax /\ Len(argv) <= ArgMax
    /\ corshellStatus <= EOK
    /\ \A f \in ToSet(stack) :
        /\ f.estate \in {"normal", "inHandler", "inError"}
        /\ f.lasterror <= EOK
    /\ IsVolume(reg) /\ IsVolume(str)
    /\ \A k \in DOMAIN reg.map : Len(k) <= KeyLength
    /\ DOMAIN str.map \subseteq 0 .. Wide - 1

\* The lists of commands are linked in the order in which they were started, after
\* the static one, and none is linked that was stopped; a handler is linked once,
\* that of the registry while it is started, that of the string table once it was
\* initialised.  strsub.c, corshell.c: the install and uninstall functions, under
\* what registry_start, registry_stop, strtab_start and strtab_stop ask of them.
ListsAreExact ==
    /\ ListChain = <<"static">> \o started
    /\ Chain("square") = IF reg.loaded THEN <<"registry">> ELSE <<>>
    /\ Chain("angle") = IF inited THEN <<"strtab">> ELSE <<>>

\* strsub_parse writes the substitution of the line, cut to the buffer: whatever
\* escapes, unclosed words, words nobody knows and values with zeros are in it.
SubstitutionIsRight ==
    pc = "run" =>
        \A answer \in {Answers(line)} : text = Cut(Expand(line, answer), SubMax - 1)

\* The result of corshell_script_run: negative after a command failed, the caller
\* cancelled or memory was short, unless :clearerror forgot that; EOK otherwise,
\* unless the shell was left with an error before.
ErrorsAreReported ==
    ended.some =>
        /\ ended.failed /\ ~ended.cleared => ended.res < EOK
        /\ ~ended.failed /\ ~ended.sticky => ended.res = EOK

\* A value stored by a command is one string: a zero at its end, none in it, though
\* values with their zeros are copied into the line the command is taken from.
StoredValuesAreStrings ==
    \A v \in {reg.map[k] : k \in DOMAIN reg.map} \cup {str.map[k] : k \in DOMAIN str.map} :
        v # <<>> /\ Len(v) <= ValueMax /\ {i \in DOMAIN v : v[i] = "nul"} = {Len(v)}

\* An entry of the registry comes, changes or goes only by a command of a script that
\* is not skipping after an error, and by one that is meant to: reg and regdel with a
\* key that names it, regerase, regtest for its own; regadd only where there was
\* none, whatever part of a long key is kept (registrycmd.c over registry.c).
EntriesChangeByName ==
    [][\A k \in DOMAIN reg.map \cup DOMAIN reg'.map :
        \/ k \in DOMAIN reg.map \cap DOMAIN reg'.map /\ reg'.map[k] = reg.map[k]
        \/ /\ pc = "run" /\ Top.estate # "inError"
           /\ \/ argv[1] \in {<<"reg">>, <<"regdel">>} /\ k = Cut(argv[2], KeyLength)
              \/ /\ argv[1] = <<"regadd">> /\ k = Cut(argv[2], KeyLength)
                 /\ k \notin DOMAIN reg.map
              \/ argv[1] = <<"regerase">>
              \/ argv[1] = <<"regtest">> /\ k = <<"___test___">>]_vars

\* A script comes to its end (the while of corshell_script_run), and with it those
\* that wait for it: pc # "idle" ~> pc = "idle", which is to say
ScriptEnds == []<>(pc = "idle")

\* What text follows a substituted word is still part of the command (strsub.h:30:
\* "The name of the module is [name].").
TextAfterSubstitutionIsRun ==
    pc = "run" /\ Len(text) < SubMax - 1 =>
        {argv} = Split(SelectSeq(text, LAMBDA c : c # "nul"))
=============================================================================
