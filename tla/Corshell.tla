------------------------------ MODULE Corshell ------------------------------
(***************************************************************************)
(* The command shell (shell/corshell.c): the lists of commands installed   *)
(* in it, and corshell_script_run, which takes a text line by line,        *)
(* substitutes in it, splits it into words and runs the command the first  *)
(* word names.  A command may run another script, so the scripts under     *)
(* way are a stack.                                                        *)
(*                                                                         *)
(* The commands themselves are in Console, which also starts the scripts.  *)
(***************************************************************************)
EXTENDS Strsub

CONSTANTS
    Lists, NoList,      \* command lists that are installed and taken out
    BuiltIn,            \* the commands linked into the static list
    CommandsOf,         \* the commands of a list
    Numbers,            \* what the characters that are numbers stand for
    LineMax,            \* CORSHELL_LINE_SIZE_MAX - 1
    SubMax,             \* CORSHELL_LINE_STRSUB_SIZE_MAX
    ArgMax,             \* CORSHELL_ARGC_MAX - 1
    Faults              \* "cancel" (shell_out asks for it), "memory"

ASSUME LimitsAssumption == {LineMax, SubMax, ArgMax} \subseteq Nat \ {0}
ASSUME ListAssumption ==
    /\ IsFiniteSet(Lists) /\ NoList \notin Lists
    /\ "static" \notin Lists \cup {NoList}
ASSUME NumberAssumption == \A c \in DOMAIN Numbers : Numbers[c] \in Int
ASSUME JunkAssumption == "junk" \in Chars

EOK == 0
EFAIL == -1
NOT_FOUND == -2
PARMS == -3
MEMORY == -8
CANCEL == -10
EXIST == -11
EOF == -12
E_PARM == -4303

VARIABLES
    nextList,       \* next of a command list
    stack,          \* the scripts under way, the one that runs last
    pc,             \* where that one is: "idle" when there is none
    line, text,     \* current_line and strsub_line, from a fetch to its command
    argv,           \* the words of the line
    ret,            \* what the command of the line returned
    corshellStatus, \* _corshell_status
    ended           \* of the script that has just returned: its result, and what
                    \* a bystander noted of it

shellVars == <<nextList, stack, pc, line, text, argv, ret, corshellStatus, ended>>

NotEnded == [res |-> 0, failed |-> FALSE, cleared |-> FALSE, sticky |-> FALSE,
             some |-> FALSE]

CorshellInit ==
    /\ nextList = [l \in Lists \cup {"static"} |-> NoList]
    /\ stack = <<>> /\ pc = "idle"
    /\ line = <<>> /\ text = <<>> /\ argv = <<>> /\ ret = EOK
    /\ corshellStatus = EOK
    /\ ended = NotEnded

-----------------------------------------------------------------------------
ListChain == Walk("static", nextList, NoList, Cardinality(Lists) + 2)

\* corshell_install: behind the last.
InstallList(l) ==
    nextList' = [nextList EXCEPT ![l] = NoList, ![Last(ListChain)] = l]

\* corshell_uninstall.
UninstallList(l) ==
    nextList' = [x \in DOMAIN nextList |->
                    IF nextList[x] = l /\ x \in ToSet(ListChain)
                      THEN nextList[l] ELSE nextList[x]]

\* The commands _cmd_first and _cmd_next go through.
Known == UNION {IF l = "static" THEN BuiltIn ELSE CommandsOf[l] :
                   l \in ToSet(ListChain)}

-----------------------------------------------------------------------------
(* A line is split into words.                                             *)

SplitStopsWrong(a, c) == Len(a.words) = ArgMax
SplitStops(a, c) == c = "nul" \/ Len(a.words) = ArgMax

SplitStart == [mode |-> "dull", quote |-> "dq", word |-> <<>>, words |-> <<>>,
               stop |-> FALSE]

SplitStep(a, c) ==
    LET word == [a EXCEPT !.word = Append(@, c)]
        closed == [a EXCEPT !.mode = "dull", !.words = Append(@, a.word), !.word = <<>>]
    IN  IF a.stop THEN a
        ELSE IF SplitStops(a, c) THEN [a EXCEPT !.stop = TRUE]
        ELSE CASE a.mode = "dull" ->
                    (CASE c = "sp" -> a
                       [] c \in {"dq", "sq"} -> [a EXCEPT !.mode = "string", !.quote = c]
                       [] OTHER -> [word EXCEPT !.mode = "word"])
               [] a.mode = "string" -> IF c = a.quote THEN closed ELSE word
               [] a.mode = "word" ->
                    (CASE c = "sp" -> closed
                       [] c = "dq" -> [word EXCEPT !.mode = "wordString"]
                       [] OTHER -> word)
               [] a.mode = "wordString" ->
                    IF c = "dq" THEN [word EXCEPT !.mode = "word"] ELSE word

\* corshell_cmd_split.  A word that ends with the text is followed by what the
\* buffer held, a character of its own here, when there was no room for a zero.
Split(s) ==
    LET a == Steps(SplitStep, SplitStart, s)
        rest == IF Len(s) = SubMax - 1 /\ ~a.stop THEN {<<>>, <<"junk">>} ELSE {<<>>}
    IN  IF a.mode = "dull" \/ Len(a.words) = ArgMax THEN {a.words}
        ELSE {Append(a.words, a.word \o r) : r \in rest}

FirstOf(word) == IF word = <<>> THEN "nul" ELSE word[1]

\* sscanf of a number at the start of a word.
IsNumber(word) == FirstOf(word) \in DOMAIN Numbers
Number(word) == IF IsNumber(word) THEN Numbers[FirstOf(word)] ELSE 0

\* corshell_scan_int, which takes a number only if it is the whole word.
ScanInt(word) == IF Len(word) = 1 THEN Number(word) ELSE 0

-----------------------------------------------------------------------------
(* corshell_script_run.                                                    *)

Frame(script) ==
    [rest |-> script, status |-> EOK, lasterror |-> EOK, estate |-> "normal",
     failed |-> FALSE, cleared |-> FALSE, sticky |-> corshellStatus < 0]

Top == stack[Len(stack)]
SetTop(f) == [stack EXCEPT ![Len(stack)] = f]

\* The output function of the caller, which is polled, is not handed on to a
\* script that another one runs.
MayCancel(depth) == "cancel" \in Faults /\ depth = 0

NoLine == line' = <<>> /\ text' = <<>> /\ argv' = <<>>

\* What keeps a script from starting.
StartErrors(depth) ==
    (IF MayCancel(depth) THEN {CANCEL} ELSE {})
        \cup (IF "memory" \in Faults THEN {MEMORY} ELSE {})

\* The line that a script has reached is copied, substituted and split.
LineLength(rest) ==
    Min({LineMax, Len(rest)} \cup {i - 1 : i \in {j \in DOMAIN rest : rest[j] = "nl"}})

Reached == SubSeq(Top.rest, 1, LineLength(Top.rest))

Fetch(answer) ==
    /\ pc = "fetch"
    /\ line' = Reached
    /\ \E s \in {Parse(line', answer, SubMax).text} :
        text' = s /\ \E words \in Split(s) : argv' = words
    /\ stack' = SetTop([Top EXCEPT !.rest =
                    SubSeq(@, LineLength(@) + 1, Len(@))])
    /\ pc' = "run"
    /\ UNCHANGED <<nextList, ret, corshellStatus, ended>>

AfterLineWrong(rest) == rest

\* The line is done: over the ends of lines, to the next or to the end.
AfterLine(rest) ==
    LET more == {i \in DOMAIN rest : rest[i] # "nl"}
    IN  IF more = {} THEN <<>> ELSE SubSeq(rest, Min(more), Len(rest))

NextLine(f) ==
    LET rest == AfterLine(f.rest)
    IN  /\ stack' = SetTop([f EXCEPT !.rest = rest])
        /\ pc' = IF rest = <<>> THEN "end" ELSE "fetch"

Directive(name) == pc = "run" /\ argv # <<>> /\ argv[1] = <<name>>
Directives == {<<":exit">>, <<":onerror">>, <<":clearerror">>}

EmptyLine ==
    /\ pc = "run" /\ argv = <<>>
    /\ NextLine(Top) /\ NoLine
    /\ UNCHANGED <<nextList, ret, corshellStatus, ended>>

ScriptExit ==
    /\ Directive(":exit")
    /\ pc' = "end" /\ NoLine
    /\ UNCHANGED <<nextList, stack, ret, corshellStatus, ended>>

OnError ==
    /\ Directive(":onerror")
    /\ LET handles == Top.status < EOK
                         /\ \/ Len(argv) = 1
                            \/ IsNumber(argv[2]) /\ Number(argv[2]) = Top.status
                            \/ FirstOf(argv[2]) \in {"x", "#"}
       IN  NextLine([Top EXCEPT !.estate = IF handles THEN "inHandler" ELSE "inError"])
    /\ NoLine
    /\ UNCHANGED <<nextList, ret, corshellStatus, ended>>

\* The error is forgotten, by every script under way.
ClearError ==
    /\ Directive(":clearerror")
    /\ IF Top.estate = "normal"
         THEN NextLine(Top) /\ UNCHANGED corshellStatus
         ELSE LET rest == AfterLine(Top.rest)
              IN  /\ stack' = [i \in DOMAIN stack |->
                        IF i = Len(stack)
                          THEN [stack[i] EXCEPT !.status = EOK, !.lasterror = EOK,
                                    !.estate = "normal", !.failed = FALSE,
                                    !.rest = rest]
                          ELSE [stack[i] EXCEPT !.cleared = TRUE]]
                  /\ pc' = IF rest = <<>> THEN "end" ELSE "fetch"
                  /\ corshellStatus' = EOK
    /\ NoLine
    /\ UNCHANGED <<nextList, ret, ended>>

\* After an error the lines of a script are skipped.
SkipLine ==
    /\ pc = "run" /\ argv # <<>> /\ argv[1] \notin Directives
    /\ Top.estate = "inError"
    /\ NextLine(Top) /\ NoLine
    /\ UNCHANGED <<nextList, ret, corshellStatus, ended>>

\* Where corshell_cmd_run is called.
Running ==
    /\ pc = "run" /\ argv # <<>> /\ argv[1] \notin Directives
    /\ Top.estate # "inError"

Returns(res) ==
    /\ ret' = res /\ pc' = "ret" /\ NoLine
    /\ UNCHANGED <<nextList, stack, corshellStatus, ended>>

Found == FirstOf(argv[1]) # "#" /\ Len(argv[1]) = 1 /\ argv[1][1] \in Known

\* A comment, a name no list has, or a question for the usage of a command.
Comment == Running /\ FirstOf(argv[1]) = "#" /\ Returns(EOK)
NotFound == Running /\ FirstOf(argv[1]) # "#" /\ ~Found /\ Returns(NOT_FOUND)
Usage == Running /\ Found /\ Len(argv) > 1 /\ FirstOf(argv[2]) = "?" /\ Returns(EOK)

\* The command with one of these names runs.
Command(names) ==
    /\ Running /\ Found /\ argv[1][1] \in names
    /\ Len(argv) > 1 => FirstOf(argv[2]) # "?"

\* help, ?, rem and version change nothing; nop returns what it is told to.
Help == Command({"help", "?", "rem"}) /\ Returns(EOK)
Version == Command({"version"}) /\ Returns(EOK)
Nop ==
    /\ Command({"nop"})
    /\ Returns(IF Len(argv) > 1 THEN ScanInt(argv[2]) ELSE EOK)

\* A command runs a script of its own.
RunNested(script) ==
    \/ /\ stack' = Append(stack, Frame(script)) /\ pc' = "fetch" /\ NoLine
       /\ UNCHANGED <<nextList, ret, corshellStatus, ended>>
    \/ \E e \in StartErrors(Len(stack)) : Returns(e)

\* The result of the command is taken, and the caller asked whether to go on.
AfterCommand ==
    /\ pc = "ret"
    /\ \E cancel \in {EOK} \cup (IF MayCancel(Len(stack) - 1) THEN {CANCEL} ELSE {}) :
        LET polled == corshellStatus >= EOK
            failed == ret < EOK
            f == [Top EXCEPT
                    !.status = ret,
                    !.estate = IF failed THEN "inError" ELSE @,
                    !.lasterror = IF polled /\ failed THEN ret ELSE @,
                    !.failed = @ \/ failed,
                    !.cleared = @ /\ ~failed]
        IN  /\ cancel = EOK \/ polled
            /\ NextLine(IF cancel = EOK THEN f
                        ELSE [f EXCEPT !.status = cancel, !.lasterror = cancel,
                                       !.failed = TRUE, !.cleared = FALSE])
    /\ ret' = EOK
    /\ ended' = NotEnded
    /\ UNCHANGED <<nextList, line, text, argv, corshellStatus>>

EndStatusWrong(f) == f.status

\* The status a script leaves behind, which is what it returns.
EndStatus(f) == IF f.lasterror < 0 THEN f.lasterror ELSE corshellStatus

ScriptEnd ==
    /\ pc = "end"
    /\ corshellStatus' = EndStatus(Top)
    /\ ended' = [res |-> corshellStatus', failed |-> Top.failed,
                 cleared |-> Top.cleared, sticky |-> Top.sticky, some |-> TRUE]
    /\ stack' = SubSeq(stack, 1, Len(stack) - 1)
    /\ IF Len(stack) = 1
         THEN pc' = "idle" /\ UNCHANGED ret
         ELSE pc' = "ret" /\ ret' = corshellStatus'
    /\ NoLine
    /\ UNCHANGED nextList

\* corshell_script_clear_last_error, by whoever runs the shell.
ClearLastError ==
    /\ pc = "idle"
    /\ corshellStatus # EOK
    /\ corshellStatus' = EOK
    /\ ended' = NotEnded
    /\ UNCHANGED <<nextList, stack, pc, line, text, argv, ret>>

\* A script is given to the shell.
ScriptStart(script) ==
    /\ pc = "idle"
    /\ \/ stack' = <<Frame(script)>> /\ pc' = "fetch" /\ ended' = NotEnded
       \/ /\ \E e \in StartErrors(0) :
                ended' = [res |-> e, failed |-> TRUE, cleared |-> FALSE,
                          sticky |-> corshellStatus < 0, some |-> TRUE]
          /\ UNCHANGED <<stack, pc>>
    /\ UNCHANGED <<nextList, line, text, argv, ret, corshellStatus>>
=============================================================================
