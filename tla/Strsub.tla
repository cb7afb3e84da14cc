------------------------------- MODULE Strsub -------------------------------
(***************************************************************************)
(* Text substitution (common/strsub.c): in a line, what stands between an  *)
(* opening and a closing token is offered to the handlers installed for    *)
(* the pair, the last installed first; a backslash takes the next          *)
(* character as it is.                                                     *)
(*                                                                         *)
(* A text is a sequence of characters.  A character is one of those the    *)
(* code treats specially ("esc" the backslash, "nul" the zero byte, the    *)
(* tokens) or stands for a whole word of ordinary ones.                    *)
(*                                                                         *)
(* The handlers are modelled by their answers, answer[handler][word]: the  *)
(* replacement, or the empty text when a handler has none for the word.    *)
(***************************************************************************)
EXTENDS Integers, SequencesExt

CONSTANTS
    Handlers, NoHandler,
    Chars       \* the characters a text is made of

ASSUME HandlerAssumption == NoHandler \notin Handlers /\ IsFiniteSet(Handlers)
ASSUME CharAssumption == {"nul", "esc", "[", "]", "%", "<", ">"} \subseteq Chars

VARIABLES
    head,       \* handlers[] of the instance: the first handler of a token
    after       \* next of a handler

strsubVars == <<head, after>>

Tokens == {"square", "percent", "angle"}
Opening == [square |-> "[", percent |-> "%", angle |-> "<"]
Closing == [square |-> "]", percent |-> "%", angle |-> ">"]

StrsubInit ==
    /\ head = [t \in Tokens |-> NoHandler]
    /\ after = [h \in Handlers |-> NoHandler]

\* What a walk along a list meets; of a list that never ends, more than there is.
Walk(first, next, none, bound) ==
    LET w[n \in 0 .. bound] ==
            [x \in DOMAIN next \cup {none} |->
                IF n = 0 \/ x = none THEN <<>> ELSE <<x>> \o w[n - 1][next[x]]]
    IN  w[bound][first]

Chain(t) == Walk(head[t], after, NoHandler, Cardinality(Handlers) + 1)

\* strsub_install_handler: in front of the others.
InstallHandler(t, h) ==
    /\ after' = [after EXCEPT ![h] = head[t]]
    /\ head' = [head EXCEPT ![t] = h]

UninstallHandlerWrong(t, h) == UNCHANGED strsubVars

\* strsub_uninstall_handler: taken out of its list, if it is there.
UninstallHandler(t, h) ==
    IF head[t] = h
      THEN head' = [head EXCEPT ![t] = after[h]] /\ UNCHANGED after
      ELSE /\ after' = [x \in Handlers |->
                            IF after[x] = h /\ x \in ToSet(Chain(t))
                              THEN after[h] ELSE after[x]]
           /\ UNCHANGED head

-----------------------------------------------------------------------------
\* FoldLeft, with every step given a value: TLC's ENABLED would work the steps
\* before it out again for each mention of it.
Steps(Op(_, _), base, s) ==
    LET f[i \in 0 .. Len(s)] ==
            IF i = 0 THEN base
            ELSE CHOOSE r \in {Op(a, s[i]) : a \in {f[i - 1]}} : TRUE
    IN  f[Len(s)]

\* At most n characters of a text.
Cut(s, n) == SubSeq(s, 1, Min({Len(s), n}))

\* strsub_cb: the buffer takes cap - 1 characters; what does not fit is cut, and
\* a call that finds it full is refused.
Copied(a, str, cap) ==
    IF Len(a.text) >= cap - 1
      THEN [a EXCEPT !.full = TRUE]
      ELSE [a EXCEPT !.text = Cut(a.text \o str, cap - 1)]

\* What stands between tokens in a line.
Words(line) ==
    LET at(c) == {i \in DOMAIN line : line[i] = c}
    IN  UNION {{SubSeq(line, i + 1, j - 1) : i \in at(Opening[t]), j \in at(Closing[t])} :
                  t \in Tokens}

\* The handlers of a closed word are asked one after the other.
Replaced(a, answer, cap) ==
    LET asked == Chain(a.state)
        answering == {i \in DOMAIN asked : answer[asked[i]][a.word] # <<>>}
        str == IF answering # {} THEN answer[asked[Min(answering)]][a.word]
               ELSE <<Opening[a.state]>> \o a.word \o <<Closing[a.state]>>
    IN  [Copied(a, str, cap) EXCEPT !.state = "dull", !.word = <<>>]

\* A token opens only where it has a handler.
Opens(c) == {t \in Tokens : head[t] # NoHandler /\ c = Opening[t]}

Dull(a, c, cap) ==
    IF c = "esc" THEN [a EXCEPT !.state = "esc"]
    ELSE IF Opens(c) # {} THEN [a EXCEPT !.state = CHOOSE t \in Opens(c) : TRUE]
    ELSE Copied(a, <<c>>, cap)

EscapedWrong(a, c, cap) == Copied(a, <<c>>, cap)
Escaped(a, c, cap) == [Copied(a, <<c>>, cap) EXCEPT !.state = "dull"]

Token(a, c, answer, cap) ==
    IF c = Closing[a.state] THEN Replaced(a, answer, cap)
    ELSE [a EXCEPT !.word = Append(@, c)]

ParseStart == [state |-> "dull", word |-> <<>>, text |-> <<>>, full |-> FALSE]

ParseStep(a, c, answer, cap) ==
    CASE a.full -> a
      [] ~a.full /\ a.state = "dull" -> Dull(a, c, cap)
      [] ~a.full /\ a.state = "esc" -> Escaped(a, c, cap)
      [] ~a.full /\ a.state \in Tokens -> Token(a, c, answer, cap)

\* strsub_parse into a buffer of cap characters: the text written, and whether
\* the last character was refused.  The text is followed by a zero where there
\* was room for one.
Parse(line, answer, cap) ==
    Steps(LAMBDA a, c : ParseStep(a, c, answer, cap), ParseStart, line)

\* The substitution said once for the whole line, without a buffer: what Parse is
\* compared with.  A word that is not closed is dropped.
Expand(line, answer) ==
    LET n == Len(line)
        closing(i) == {j \in i + 1 .. n :
                          \E t \in Opens(line[i]) : line[j] = Closing[t]}
        answers(i, j) ==
            {answer[h][SubSeq(line, i + 1, j - 1)] :
                h \in UNION {ToSet(Chain(t)) : t \in Opens(line[i])}} \ {<<>>}
        e[i \in 1 .. n + 2] ==
            IF i > n THEN <<>>
            ELSE IF line[i] = "esc"
              THEN (IF i < n THEN <<line[i + 1]>> ELSE <<>>) \o e[i + 2]
            ELSE IF Opens(line[i]) = {} THEN <<line[i]>> \o e[i + 1]
            ELSE IF closing(i) = {} THEN <<>>
            ELSE LET j == Min(closing(i))
                 IN  (IF answers(i, j) = {} THEN SubSeq(line, i, j)
                      ELSE CHOOSE r \in answers(i, j) : TRUE) \o e[j + 1]
    IN  e[1]
=============================================================================
